---------------------------- MODULE DTLSSession ----------------------------
(***************************************************************************)
(* The DTLS session that outlives a reset of the device.  The record       *)
(* sessionPersist (communication/inc/dtls_session_persist.h) is written to *)
(* backup RAM after every message, so that the next connection, be it      *)
(* after a reset or a deep sleep, resumes the session without a handshake, *)
(* and without HELLO and subscriptions if the cloud knows them already.    *)
(*                                                                         *)
(* Modelled: DTLSMessageChannel::establish(), send(), receive() and        *)
(* command() with SessionPersist, the parts of Protocol::begin() and of    *)
(* Spark_Handshake() that depend on a resumed session, the checksums of    *)
(* the application's state, and SessionConnection::load().                 *)
(*                                                                         *)
(* Reset may happen between any two steps.  A step holds at most one write *)
(* to backup RAM whose loss makes a difference.  A checksum is the set it  *)
(* is computed from; 0 is the checksum of no subscriptions.  The cloud is  *)
(* external: it knows one session, which it may forget.                    *)
(***************************************************************************)
EXTENDS Integers

CONSTANTS
    MaximumSessionUses,  \* SessionPersistOpaque::MAXIMUM_SESSION_USES
    Topics,              \* the events the application may subscribe to
    Keys,                \* pairs of server and device keys, by checksum
    MaxSessions,         \* bound: number of full handshakes that succeed
    MaxReceives,         \* bound: number of messages the cloud sends
    MaxSends,            \* bound: what the application sends and subscribes to
    MaxResets            \* bound: number of resets of the device

ASSUME SessionAssumption ==
    /\ MaximumSessionUses \in Nat \ {0}
    /\ MaxSessions \in Nat /\ MaxReceives \in Nat /\ MaxSends \in Nat /\ MaxResets \in Nat

(* SessionPersistData.  valid stands for is_valid(), a matching size;      *)
(* describe for describe_app_crc and describe_system_crc being those of    *)
(* the firmware; subscriptions for subscriptions_crc.                      *)
SessionPersist ==
    [valid : BOOLEAN, persistent : BOOLEAN, use_counter : 0..MaximumSessionUses,
     session : 0..MaxSessions, keys : Keys, out_ctr : Nat,
     subscriptions : SUBSET Topics, describe : BOOLEAN]

VARIABLES
    rec,           \* sessionPersist, in RAM
    backup,        \* the record in backup RAM, HAL_System_Backup_Save()
    ssl,           \* ssl_context: the session, 0 for none, and cur_out_ctr
    move_session,  \* the messages sent carry the device id
    skip,          \* SKIP_SESSION_RESUME_HELLO in Protocol::flags
    keys,          \* keys_checksum of DTLSMessageChannel
    handlers,      \* the subscriptions of the application
    todo,          \* send_subscriptions(): the ones still to be sent
    pc,            \* the step of the connection that is next
    sending,       \* mbedtls_ssl_write() is done, update() is not
    cloud,         \* external: the session the cloud knows, 0 for none
    sessions,      \* number of handshakes so far; names the last session
    received, extra, resets,  \* how often, for the bounds
    used,          \* ghost: numbers used by the records of the last session
    sent,          \* ghost: what the cloud was told in the last session
    tries,         \* ghost: retrievals since data came, see Reset
    dead,          \* ghost: the sessions that were given up, see Reset
    torn           \* ghost: a reset cut a send from its save, in this session

device == <<rec, ssl, move_session, skip, keys, handlers, todo, pc, sending>>
bounds == <<sessions, received, extra, resets>>
ghosts == <<used, sent, tries, dead, torn>>
vars == <<device, backup, cloud, bounds, ghosts>>

PC == {"off", "restore", "clear", "clear_handshake", "handshake", "hello", "established",
       "ping", "subscribe", "describe", "described", "connected"}

(* SessionPersistOpaque(), in memory that is zero.  It also stands for any *)
(* invalid record in backup RAM: HAL_System_Backup_Restore() refuses it by *)
(* its size, so that nothing else of it is ever read.                      *)
Fresh == [valid |-> FALSE, persistent |-> FALSE, use_counter |-> 0, session |-> 0,
          keys |-> CHOOSE k \in Keys : TRUE, out_ctr |-> 0, subscriptions |-> {},
          describe |-> FALSE]

Closed == [session |-> 0, out_ctr |-> 0]

Larger(x, y) == IF x > y THEN x ELSE y

(* save_this_with(): what is in backup RAM afterwards.                     *)
Saved(r) ==
    IF ~r.persistent THEN backup
    ELSE IF r.valid THEN r ELSE Fresh

(* application_state_checksum() of the record and of the application.      *)
CrcMatches(r) == r.describe /\ r.subscriptions = handlers
-----------------------------------------------------------------------------
(* Mutant: the session is cleared in RAM only.                             *)
ClearedInRam(r, next) ==
    /\ rec' = [r EXCEPT !.valid = FALSE, !.persistent = FALSE]
    /\ ssl' = Closed
    /\ dead' = dead \cup ({r.session} \ {0})
    /\ pc' = next
    /\ UNCHANGED backup

(* The rest of reset_session(): mbedtls_ssl_session_reset() and clear(),   *)
(* which saves the invalid record whether or not it was persistent.        *)
Cleared(r, next) ==
    /\ rec' = [r EXCEPT !.valid = FALSE, !.persistent = FALSE]
    /\ backup' = Saved([r EXCEPT !.valid = FALSE, !.persistent = TRUE])
    /\ ssl' = Closed
    /\ dead' = dead \cup ({r.session} \ {0})
    /\ pc' = next

(* reset_session() on record r: cancel_move_session() first, which clears  *)
(* the use count and saves the record as it is, before the session is      *)
(* cleared from it.                                                        *)
ResetSession(r, clear, next) ==
    IF move_session
    THEN /\ rec' = [r EXCEPT !.use_counter = 0]
         /\ backup' = Saved([r EXCEPT !.use_counter = 0])
         /\ move_session' = FALSE
         /\ pc' = clear
         /\ UNCHANGED <<ssl, dead>>
    ELSE Cleared(r, next) /\ UNCHANGED move_session

Clear ==
    /\ pc \in {"clear", "clear_handshake"}
    /\ Cleared(rec, IF pc = "clear" THEN "off" ELSE "handshake")
    /\ UNCHANGED <<move_session, skip, keys, handlers, todo, sending, cloud, bounds>>
    /\ UNCHANGED <<used, sent, tries, torn>>

(* The error the caller of reset_session() returns ends the connection.    *)
Abandon ==
    /\ ResetSession(rec, "clear", "off")
    /\ sending' = FALSE
    /\ todo' = {}
    /\ UNCHANGED <<skip, keys, handlers, cloud, sessions, extra, resets>>
    /\ UNCHANGED <<used, sent, torn>>
-----------------------------------------------------------------------------
(* SessionConnection::discard() saves an invalid record.                   *)
Discard(invalid) ==
    IF invalid
    THEN /\ backup' = Fresh
         /\ dead' = IF backup.valid THEN dead \cup {backup.session} ELSE dead
    ELSE UNCHANGED <<backup, dead>>

(* spark_cloud_socket_connect(): load() discards a session that is not     *)
(* valid or was made with another server address.  The socket may fail;    *)
(* if it does not, establish() begins with setup_context().                *)
Connect(otherAddress, connects) ==
    /\ pc = "off"
    /\ Discard(otherAddress \/ ~backup.valid)
    /\ pc' = IF connects THEN "restore" ELSE "off"
    /\ ssl' = IF connects THEN Closed ELSE ssl
    /\ UNCHANGED <<rec, move_session, skip, keys, handlers, todo, sending, cloud, bounds>>
    /\ UNCHANGED <<used, sent, tries, torn>>

(* has_expired().                                                          *)
HasExpired(r) == r.use_counter >= MaximumSessionUses

(* Mutant: the count is kept in RAM only.                                  *)
RetrievedUnsaved(r) == UNCHANGED backup

(* restore() saves the increased count before the session is used.         *)
Retrieved(r) == backup' = Saved(r)

Restorable == backup.valid /\ backup.keys = keys

(* establish() with a session to resume, up to SESSION_RESUMED and the     *)
(* part of begin() that follows: the flag is added to Protocol::flags and  *)
(* never removed.                                                          *)
Resume ==
    LET r == [backup EXCEPT !.use_counter = @ + 1]
    IN  /\ pc = "restore"
        /\ Restorable
        /\ ~HasExpired(backup)
        /\ Retrieved(r)
        /\ rec' = [r EXCEPT !.persistent = TRUE]
        /\ ssl' = [session |-> r.session, out_ctr |-> r.out_ctr]
        /\ move_session' = TRUE
        /\ skip' = (skip \/ CrcMatches(r))
        /\ pc' = IF skip' THEN "ping" ELSE "hello"
        /\ tries' = tries + 1
        /\ UNCHANGED <<keys, handlers, todo, sending, cloud, bounds, used, sent, dead, torn>>

(* The keys of the session cannot be derived: RestoreStatus ERROR.         *)
ResumeFails ==
    LET r == [backup EXCEPT !.use_counter = @ + 1, !.valid = FALSE]
    IN  /\ pc = "restore"
        /\ Restorable
        /\ ~HasExpired(backup)
        /\ ResetSession(r, "clear_handshake", "handshake")
        /\ tries' = tries + 1
        /\ UNCHANGED <<skip, keys, handlers, todo, sending, cloud, bounds, used, sent, torn>>

(* Mutant: an expired session is refused but not invalidated.              *)
NoSessionKept ==
    /\ pc = "restore"
    /\ \/ /\ ~backup.valid
          /\ ResetSession(rec, "clear_handshake", "handshake")
       \/ /\ backup.valid
          /\ backup.keys # keys
          /\ ResetSession(backup, "clear_handshake", "handshake")
       \/ /\ Restorable
          /\ HasExpired(backup)
          /\ pc' = "off"
          /\ UNCHANGED <<rec, backup, ssl, move_session, dead>>
    /\ UNCHANGED <<skip, keys, handlers, todo, sending, cloud, bounds, used, sent, tries, torn>>

(* NO_SESSION: nothing valid in backup RAM, which leaves sessionPersist    *)
(* as it is; or other keys; or a session that has expired.  Everything but *)
(* size, the use count and the checksums included, stays in the record.    *)
NoSession ==
    /\ pc = "restore"
    /\ \/ /\ ~backup.valid
          /\ ResetSession(rec, "clear_handshake", "handshake")
       \/ /\ backup.valid
          /\ backup.keys # keys
          /\ ResetSession(backup, "clear_handshake", "handshake")
       \/ /\ Restorable
          /\ HasExpired(backup)
          /\ ResetSession([backup EXCEPT !.valid = FALSE], "clear_handshake", "handshake")
    /\ UNCHANGED <<skip, keys, handlers, todo, sending, cloud, bounds, used, sent, tries, torn>>

(* The full handshake and prepare_save().                                  *)
Handshake ==
    /\ pc = "handshake"
    /\ sessions < MaxSessions
    /\ sessions' = sessions + 1
    /\ cloud' = sessions'
    /\ ssl' = [session |-> sessions', out_ctr |-> 0]
    /\ rec' = [rec EXCEPT !.valid = TRUE, !.session = sessions', !.keys = keys, !.out_ctr = 0]
    /\ pc' = "hello"
    /\ used' = 0 /\ sent' = {} /\ tries' = 0 /\ torn' = FALSE
    /\ UNCHANGED <<backup, move_session, skip, keys, handlers, todo, sending>>
    /\ UNCHANGED <<received, extra, resets, dead>>

HandshakeFails ==
    /\ pc = "handshake"
    /\ Abandon
    /\ UNCHANGED <<received, tries>>
-----------------------------------------------------------------------------
(* DTLSMessageChannel::send() up to mbedtls_ssl_write(), which uses up a   *)
(* record number: hello(), ping(true), a subscription, the description, or *)
(* whatever else is sent while the device is connected.                    *)
Write(t) ==
    /\ ~sending
    /\ ssl.session # 0
    /\ \/ pc \in {"hello", "ping", "describe"} /\ t = "none"
       \/ pc = "subscribe" /\ t \in todo
       \/ pc = "connected" /\ extra < MaxSends /\ t = "none"
    /\ sending' = TRUE
    /\ ssl' = [ssl EXCEPT !.out_ctr = @ + 1]
    /\ used' = Larger(used, ssl.out_ctr + 1)
    /\ todo' = todo \ {t}
    /\ extra' = IF pc = "connected" THEN extra + 1 ELSE extra
    /\ sent' = CASE pc = "subscribe" -> sent \cup {t}
                 [] pc = "describe" -> sent \cup {"describe"}
                 [] OTHER -> sent
    /\ UNCHANGED <<rec, backup, move_session, skip, keys, handlers, pc, cloud>>
    /\ UNCHANGED <<sessions, received, resets, tries, dead, torn>>

(* mbedtls_ssl_write() reports an error.                                   *)
WriteFails ==
    /\ ~sending
    /\ pc \in {"hello", "ping", "describe", "subscribe", "connected"}
    /\ pc = "subscribe" => todo # {}
    /\ Abandon
    /\ UNCHANGED <<received, tries>>

AfterSend ==
    CASE pc = "hello" -> "established"
      [] pc = "ping" -> "connected"
      [] pc = "describe" -> "described"
      [] OTHER -> pc

(* Mutant: the counter stays in RAM.                                       *)
UpdateUnsaved ==
    /\ sending
    /\ sending' = FALSE
    /\ rec' = [rec EXCEPT !.out_ctr = ssl.out_ctr]
    /\ pc' = AfterSend
    /\ UNCHANGED <<backup, ssl, move_session, skip, keys, handlers, todo, cloud, bounds, ghosts>>

(* SessionPersist::update().                                               *)
Update ==
    /\ sending
    /\ sending' = FALSE
    /\ rec' = [rec EXCEPT !.out_ctr = ssl.out_ctr]
    /\ backup' = Saved(rec')
    /\ pc' = AfterSend
    /\ UNCHANGED <<ssl, move_session, skip, keys, handlers, todo, cloud, bounds, ghosts>>

(* notify_established(); begin() returns 0 and Spark_Handshake() sends the *)
(* subscriptions.                                                          *)
NotifyEstablished ==
    /\ pc = "established"
    /\ rec' = [rec EXCEPT !.persistent = TRUE]
    /\ backup' = Saved(rec')
    /\ pc' = "subscribe"
    /\ todo' = handlers
    /\ UNCHANGED <<ssl, move_session, skip, keys, handlers, sending, cloud, bounds, ghosts>>

(* SAVE_SESSION, update_persisted_state(), which makes r of the record     *)
(* that was saved, and LOAD_SESSION, which reads a valid record only.      *)
Persist(r) ==
    LET b == IF Saved(rec).valid THEN r ELSE Saved(rec)
    IN  /\ backup' = b
        /\ rec' = IF b.valid THEN b ELSE rec
        /\ pc' = "connected"
        /\ UNCHANGED <<ssl, move_session, skip, keys, handlers, todo, sending, cloud>>
        /\ UNCHANGED <<bounds, ghosts>>

(* update_subscription_crc(), once every subscription was sent.            *)
UpdateSubscriptionCrc ==
    /\ pc = "subscribe"
    /\ ~sending
    /\ todo = {}
    /\ Persist([Saved(rec) EXCEPT !.subscriptions = handlers])

(* generate_and_send_description(), once the description was sent.         *)
UpdateDescribeCrc ==
    /\ pc = "described"
    /\ Persist([Saved(rec) EXCEPT !.describe = TRUE])
-----------------------------------------------------------------------------
Connected == pc = "connected" /\ ~sending

(* cancel_move_session() in receive(), with data from the cloud.           *)
DataReceived ==
    /\ IF move_session
       THEN /\ rec' = [rec EXCEPT !.use_counter = 0]
            /\ backup' = Saved(rec')
       ELSE UNCHANGED <<rec, backup>>
    /\ move_session' = FALSE
    /\ tries' = 0
    /\ received' = received + 1

(* receive() of a message, which may be a request for the description.     *)
Receive ==
    /\ Connected
    /\ cloud = ssl.session
    /\ received < MaxReceives
    /\ DataReceived
    /\ pc' \in {"connected", "describe"}
    /\ UNCHANGED <<ssl, skip, keys, handlers, todo, sending, cloud, sessions, extra, resets>>
    /\ UNCHANGED <<used, sent, dead, torn>>

(* receive() fails, the peer closes the session, or a confirmable message  *)
(* is not answered or answered with RESET: CLOSE, DISCARD_SESSION.         *)
DiscardSession ==
    /\ Connected
    /\ Abandon
    /\ UNCHANGED <<received, tries>>

(* The connection ends without touching the session: the network is lost,  *)
(* or the application disconnects.                                         *)
Disconnect ==
    /\ Connected
    /\ pc' = "off"
    /\ UNCHANGED <<rec, backup, ssl, move_session, skip, keys, handlers, todo, sending>>
    /\ UNCHANGED <<cloud, bounds, ghosts>>

(* spark_subscribe(): sent at once if the device is connected.             *)
Subscribe(t) ==
    /\ pc = "off" \/ Connected
    /\ t \notin handlers
    /\ extra < MaxSends
    /\ extra' = extra + 1
    /\ handlers' = handlers \cup {t}
    /\ IF Connected THEN pc' = "subscribe" /\ todo' = {t} ELSE UNCHANGED <<pc, todo>>
    /\ UNCHANGED <<rec, backup, ssl, move_session, skip, keys, sending, cloud>>
    /\ UNCHANGED <<sessions, received, resets, ghosts>>

(* spark_unsubscribe(): the cloud is not told.                             *)
Unsubscribe ==
    /\ pc = "off" \/ Connected
    /\ handlers # {}
    /\ handlers' = {}
    /\ UNCHANGED <<rec, backup, ssl, move_session, skip, keys, todo, pc, sending>>
    /\ UNCHANGED <<cloud, bounds, ghosts>>

CloudForgets ==
    /\ cloud # 0
    /\ cloud' = 0
    /\ UNCHANGED <<device, backup, bounds, ghosts>>

(* A reset inside reset_session(), between the save of                     *)
(* cancel_move_session() and clear(), leaves the session that is being     *)
(* given up in backup RAM, valid and with no uses.                         *)
Revived(powerLost) ==
    pc \in {"clear", "clear_handshake"} /\ backup.valid /\ ~powerLost

(* A reset: RAM is lost, the keys may have been changed.  Backup RAM stays *)
(* unless its power is lost too.                                           *)
Reset(powerLost) ==
    /\ resets < MaxResets
    /\ resets' = resets + 1
    /\ keys' \in Keys
    /\ rec' = Fresh
    /\ backup' = IF powerLost THEN Fresh ELSE backup
    /\ ssl' = Closed
    /\ move_session' = FALSE
    /\ skip' = FALSE
    /\ handlers' = {}
    /\ todo' = {}
    /\ pc' = "off"
    /\ sending' = FALSE
    /\ torn' = (torn \/ sending)
    /\ tries' = IF Revived(powerLost) THEN 0 ELSE tries
    /\ dead' = IF Revived(powerLost) THEN dead \ {backup.session} ELSE dead
    /\ UNCHANGED <<cloud, sessions, received, extra, used, sent>>
-----------------------------------------------------------------------------
Init ==
    /\ keys \in Keys
    /\ rec = Fresh
    /\ backup = Fresh
    /\ ssl = Closed
    /\ move_session = FALSE
    /\ skip = FALSE
    /\ handlers = {}
    /\ todo = {}
    /\ pc = "off"
    /\ sending = FALSE
    /\ cloud = 0
    /\ sessions = 0 /\ received = 0 /\ extra = 0 /\ resets = 0
    /\ used = 0 /\ sent = {} /\ tries = 0 /\ dead = {} /\ torn = FALSE

(* What the device does by itself while it is not connected.               *)
Step ==
    \/ \E a, c \in BOOLEAN : Connect(a, c)
    \/ Resume \/ ResumeFails \/ NoSession
    \/ Handshake \/ HandshakeFails
    \/ Clear
    \/ Write("none") \/ \E t \in Topics : Write(t)
    \/ WriteFails
    \/ Update
    \/ NotifyEstablished
    \/ UpdateSubscriptionCrc
    \/ UpdateDescribeCrc

Leave == DiscardSession \/ Disconnect

Next ==
    \/ Step
    \/ Leave
    \/ Receive
    \/ \E t \in Topics : Subscribe(t)
    \/ Unsubscribe
    \/ CloudForgets
    \/ \E p \in BOOLEAN : Reset(p)

Spec == Init /\ [][Next]_vars

(* The steps of a connection are taken in a loop of the system thread,     *)
(* which connects again and again (manage_cloud_connection()); the network *)
(* comes back; no connection lasts for ever without data from the cloud.   *)
FairSpec == Spec /\ WF_vars(Step) /\ WF_vars(Connect(FALSE, TRUE)) /\ WF_vars(Leave)
-----------------------------------------------------------------------------
(* The types of the device's records, and the counts within their bounds.  *)
TypeOK ==
    /\ rec \in SessionPersist /\ backup \in SessionPersist
    /\ ssl \in [session : 0..MaxSessions, out_ctr : Nat]
    /\ move_session \in BOOLEAN /\ skip \in BOOLEAN /\ sending \in BOOLEAN
    /\ keys \in Keys
    /\ handlers \subseteq Topics /\ todo \subseteq Topics
    /\ pc \in PC
    /\ cloud \in 0..MaxSessions /\ sessions \in 0..MaxSessions
    /\ received \in 0..MaxReceives /\ extra \in 0..MaxSends /\ resets \in 0..MaxResets
    /\ used \in Nat /\ tries \in Nat
    /\ sent \subseteq Topics \cup {"describe"}
    /\ dead \subseteq 1..MaxSessions
    /\ torn \in BOOLEAN

(* A record number is not used twice in a session, however often the       *)
(* session is saved, lost from RAM and resumed; only a reset between       *)
(* mbedtls_ssl_write() and the save in send() sets it back, and even many  *)
(* of those set it back by one in all.                                     *)
NumbersNotReused ==
    ssl.session # 0 => used <= ssl.out_ctr + (IF torn THEN 1 ELSE 0)

(* A session from which no data comes is retrieved MAXIMUM_SESSION_USES    *)
(* times at most, resets included: the count is saved before the session   *)
(* is used and cleared by data only, and by reset_session() on its way to  *)
(* clear the session.  A reset between those two writes brings the session *)
(* back with no uses, and it can be retrieved as often again.              *)
UselessSessionExpires == tries <= MaximumSessionUses

(* A session that was given up (expired, discarded, closed, other server)  *)
(* comes back from backup RAM in one case only: a reset inside             *)
(* reset_session(), after cancel_move_session() has saved it once more and *)
(* before clear().  When that session is given up again, it is gone.       *)
DiscardedNotResumed == pc # "off" => ssl.session \notin dead

(* A session the cloud has forgotten does not stay in backup RAM for ever, *)
(* even if every connection ends before a message times out.               *)
ForgottenSessionGivenUp ==
    \A s \in 1..MaxSessions :
        (backup.valid /\ backup.session = s /\ cloud # s)
            ~> ~(backup.valid /\ backup.session = s)

(* message_channel.h: "SKIP_SESSION_RESUME_HELLO is set if the             *)
(* hello/vars/funcs/sucriptions regitration is not needed": a session that *)
(* is resumed without HELLO has been told what the application registered. *)
SkippedOnlyIfSent == pc = "ping" => (handlers \cup {"describe"}) \subseteq sent
=============================================================================
