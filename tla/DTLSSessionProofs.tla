------------------------- MODULE DTLSSessionProofs -------------------------
(***************************************************************************)
(* The session that outlives a reset, for every number of handshakes,      *)
(* resets, keys and topics.  Only the last session is ever found in RAM,   *)
(* in backup RAM or in the TLS context (LastSession), so that three bounds *)
(* on it are enough: how far its saved record numbers lag behind the used  *)
(* ones (Numbers), how often it was retrieved compared with its use count  *)
(* (Uses), and that it is not among those given up (Alive).                *)
(***************************************************************************)
EXTENDS DTLSSession, TLAPS

(* The device talks in a session: from HELLO or the ping on.               *)
Live == {"hello", "established", "ping", "subscribe", "describe", "described", "connected"}

(* Every record that is valid is one of the last session.                  *)
LastSession ==
    /\ rec.session <= sessions /\ backup.session <= sessions
    /\ rec.valid => rec.session = sessions /\ sessions # 0
    /\ backup.valid => backup.session = sessions /\ sessions # 0
    /\ backup.valid => backup.persistent
    /\ ssl.session \in {0, sessions}
    /\ dead \subseteq 1..sessions

(* Where the TLS context is open, and what backup RAM then holds.          *)
Flow ==
    /\ pc \in Live => rec.valid /\ ssl.session = sessions
    /\ pc \in Live /\ backup.valid => backup = rec
    /\ pc \in {"restore", "clear_handshake", "handshake"} => ssl.session = 0
    /\ pc = "handshake" => ~backup.valid
    /\ sending => pc \in Live

(* A saved counter lags behind by the record that is being sent, or that a *)
(* reset once cut from its save.                                           *)
Lag == IF sending \/ torn THEN 1 ELSE 0

Numbers ==
    /\ NumbersNotReused
    /\ sending => used <= ssl.out_ctr
    /\ pc \in Live /\ ~sending => ssl.out_ctr <= rec.out_ctr
    /\ rec.valid => used <= rec.out_ctr + Lag
    /\ backup.valid => used <= backup.out_ctr + Lag

Clearing == pc \in {"clear", "clear_handshake"}

(* The use count is not behind the retrievals, except within               *)
(* reset_session().                                                        *)
Uses ==
    /\ tries <= MaximumSessionUses
    /\ pc \in Live => tries <= rec.use_counter
    /\ backup.valid /\ ~Clearing => tries <= backup.use_counter

(* A session that was given up is neither in use nor to be found.          *)
Alive ==
    /\ pc # "off" => ssl.session \notin dead
    /\ backup.valid /\ ~Clearing => backup.session \notin dead

Inv == TypeOK /\ LastSession /\ Flow /\ Numbers /\ Uses /\ Alive
-----------------------------------------------------------------------------
(* The record that stands for any invalid one has the type of a record.    *)
LEMMA FreshType ==
    ASSUME TypeOK
    PROVE  /\ Fresh \in SessionPersist
           /\ ~Fresh.valid /\ ~Fresh.persistent /\ Fresh.session = 0
<1>1. (CHOOSE k \in Keys : TRUE) \in Keys
    BY DEF TypeOK
<1>2. QED
    BY <1>1, SessionAssumption DEF Fresh, SessionPersist

(* What save_this_with() leaves in backup RAM.                             *)
LEMMA SavedCases ==
    ASSUME NEW r \in SessionPersist, TypeOK
    PROVE  /\ Saved(r) \in SessionPersist
           /\ r.persistent /\ r.valid => Saved(r) = r
           /\ r.persistent /\ ~r.valid => Saved(r) = Fresh
           /\ ~r.persistent => Saved(r) = backup
BY FreshType DEF Saved, TypeOK, SessionPersist

(* The initial state has the types.                                        *)
LEMMA TypeInitial == Init => TypeOK
<1>1. ASSUME Init PROVE (CHOOSE k \in Keys : TRUE) \in Keys
    BY <1>1 DEF Init
<1>2. ASSUME Init PROVE Fresh \in SessionPersist
    BY <1>1, <1>2, SessionAssumption DEF Fresh, SessionPersist
<1>3. ASSUME Init PROVE TypeOK
    <2>1. ssl \in [session : 0..MaxSessions, out_ctr : Nat]
        BY <1>3, SessionAssumption DEF Init, Closed
    <2>2. rec \in SessionPersist /\ backup \in SessionPersist
        BY <1>2, <1>3 DEF Init
    <2>3. /\ move_session \in BOOLEAN /\ skip \in BOOLEAN /\ sending \in BOOLEAN
          /\ keys \in Keys
        BY <1>3 DEF Init
    <2>4. handlers \subseteq Topics /\ todo \subseteq Topics /\ pc \in PC
        BY <1>3 DEF Init, PC
    <2>5. /\ cloud \in 0..MaxSessions /\ sessions \in 0..MaxSessions
          /\ received \in 0..MaxReceives /\ extra \in 0..MaxSends /\ resets \in 0..MaxResets
          /\ used \in Nat /\ tries \in Nat
        BY <1>3, SessionAssumption DEF Init
    <2>6. /\ sent \subseteq Topics \cup {"describe"} /\ dead \subseteq 1..MaxSessions
          /\ torn \in BOOLEAN
        BY <1>3 DEF Init
    <2>7. QED
        BY <2>1, <2>2, <2>3, <2>4, <2>5, <2>6 DEF TypeOK
<1>4. QED
    BY <1>3

(* reset_session() on a well-typed record keeps the types.                 *)
LEMMA ResetSessionType ==
    ASSUME TypeOK, NEW r \in SessionPersist, NEW c \in PC, NEW n \in PC, ResetSession(r, c, n)
    PROVE  /\ rec' \in SessionPersist /\ backup' \in SessionPersist
           /\ ssl' \in [session : 0..MaxSessions, out_ctr : Nat]
           /\ move_session' \in BOOLEAN
           /\ dead' \subseteq 1..MaxSessions
           /\ pc' \in PC
<1>1. CASE move_session
    <2>1. [r EXCEPT !.use_counter = 0] \in SessionPersist
        BY SessionAssumption DEF SessionPersist
    <2>2. QED
        BY <1>1, <2>1, SavedCases DEF ResetSession, TypeOK
<1>2. CASE ~move_session
    <2>1. /\ [r EXCEPT !.valid = FALSE, !.persistent = TRUE] \in SessionPersist
          /\ [r EXCEPT !.valid = FALSE, !.persistent = FALSE] \in SessionPersist
          /\ r.session \in 0..MaxSessions
        BY DEF SessionPersist
    <2>2. Cleared(r, n) /\ move_session' = move_session
        BY <1>2 DEF ResetSession
    <2>3. QED
        BY <2>1, <2>2, SavedCases, SessionAssumption DEF Cleared, Closed, TypeOK
<1>3. QED
    BY <1>1, <1>2

(* The error path of every caller of reset_session() keeps the types.      *)
LEMMA AbandonType ==
    ASSUME TypeOK, Abandon, received' = received, tries' = tries
    PROVE  TypeOK'
<1>1. rec \in SessionPersist /\ "clear" \in PC /\ "off" \in PC
    BY DEF TypeOK, PC
<1>2. /\ rec' \in SessionPersist /\ backup' \in SessionPersist
      /\ ssl' \in [session : 0..MaxSessions, out_ctr : Nat]
      /\ move_session' \in BOOLEAN /\ dead' \subseteq 1..MaxSessions /\ pc' \in PC
    BY <1>1, ResetSessionType DEF Abandon
<1>3. QED
    BY <1>2 DEF Abandon, TypeOK

(* Every step keeps the types; discard() needs that a valid record in      *)
(* backup RAM names a session.                                             *)
LEMMA TypeStep ==
    ASSUME TypeOK, LastSession, [Next]_vars
    PROVE  TypeOK'
<1> USE SessionAssumption
<1>f. Fresh \in SessionPersist
    BY FreshType
<1>c. Closed \in [session : 0..MaxSessions, out_ctr : Nat]
    BY DEF Closed
<1>p. rec \in SessionPersist /\ backup \in SessionPersist
    BY DEF TypeOK
<1>1. ASSUME NEW a \in BOOLEAN, NEW c \in BOOLEAN, Connect(a, c) PROVE TypeOK'
    <2>1. backup' \in SessionPersist /\ dead' \subseteq 1..MaxSessions
        <3>1. backup.valid => backup.session \in 1..MaxSessions
            BY <1>p DEF LastSession, SessionPersist, TypeOK
        <3>2. Discard(a \/ ~backup.valid)
            BY <1>1 DEF Connect
        <3>3. dead \subseteq 1..MaxSessions
            BY DEF TypeOK
        <3>4. QED
            BY <1>f, <1>p, <3>1, <3>2, <3>3 DEF Discard
    <2>2. QED
        BY <1>1, <1>c, <2>1 DEF Connect, TypeOK, PC, bounds
<1>2. CASE Resume
    <2>1. [backup EXCEPT !.use_counter = @ + 1] \in SessionPersist
        BY <1>2, <1>p DEF Resume, HasExpired, SessionPersist
    <2>2. rec' \in SessionPersist /\ backup' \in SessionPersist
        BY <1>2, <2>1, SavedCases DEF Resume, Retrieved, SessionPersist
    <2>3. ssl' \in [session : 0..MaxSessions, out_ctr : Nat]
        BY <1>2, <2>1 DEF Resume, SessionPersist
    <2>4. QED
        BY <1>2, <2>2, <2>3 DEF Resume, TypeOK, PC, bounds
<1>3. CASE ResumeFails
    <2>1. /\ [backup EXCEPT !.use_counter = @ + 1, !.valid = FALSE] \in SessionPersist
          /\ "clear_handshake" \in PC /\ "handshake" \in PC
        <3>1. backup.use_counter + 1 \in 0..MaximumSessionUses
            BY <1>3, <1>p DEF ResumeFails, HasExpired, SessionPersist
        <3>2. QED
            BY <1>p, <3>1 DEF SessionPersist, PC
    <2>2. QED
        BY <1>3, <2>1, ResetSessionType DEF ResumeFails, TypeOK, bounds
<1>4. CASE NoSession
    <2>1. /\ [backup EXCEPT !.valid = FALSE] \in SessionPersist
          /\ "clear_handshake" \in PC /\ "handshake" \in PC
        BY <1>p DEF SessionPersist, PC
    <2>2. /\ rec' \in SessionPersist /\ backup' \in SessionPersist
          /\ ssl' \in [session : 0..MaxSessions, out_ctr : Nat]
          /\ move_session' \in BOOLEAN /\ dead' \subseteq 1..MaxSessions /\ pc' \in PC
        BY <1>4, <1>p, <2>1, ResetSessionType DEF NoSession
    <2>3. QED
        BY <1>4, <2>2 DEF NoSession, TypeOK, bounds
<1>5. CASE Handshake
    <2>1. sessions' \in 0..MaxSessions /\ keys \in Keys
        BY <1>5 DEF Handshake, TypeOK
    <2>2. rec' = [rec EXCEPT !.valid = TRUE, !.session = sessions', !.keys = keys, !.out_ctr = 0]
        BY <1>5 DEF Handshake
    <2>3. rec' \in SessionPersist
        BY <1>p, <2>1, <2>2 DEF SessionPersist
    <2>4. QED
        BY <1>5, <2>1, <2>3 DEF Handshake, TypeOK, PC
<1>6. CASE HandshakeFails
    BY <1>6, AbandonType DEF HandshakeFails
<1>7. CASE Clear
    <2>1. /\ [rec EXCEPT !.valid = FALSE, !.persistent = TRUE] \in SessionPersist
          /\ [rec EXCEPT !.valid = FALSE, !.persistent = FALSE] \in SessionPersist
          /\ rec.session \in 0..MaxSessions
        BY <1>p DEF SessionPersist
    <2>2. QED
        BY <1>7, <1>c, <2>1, SavedCases DEF Clear, Cleared, TypeOK, PC, bounds
<1>8. ASSUME NEW t \in Topics \cup {"none"}, Write(t) PROVE TypeOK'
    <2>1. ssl' \in [session : 0..MaxSessions, out_ctr : Nat] /\ used' \in Nat
        BY <1>8 DEF Write, TypeOK, Larger
    <2>2. sent' \subseteq Topics \cup {"describe"}
        BY <1>8 DEF Write, TypeOK
    <2>3. extra' \in 0..MaxSends
        BY <1>8 DEF Write, TypeOK
    <2>4. QED
        BY <1>8, <2>1, <2>2, <2>3 DEF Write, TypeOK
<1>9. CASE WriteFails
    BY <1>9, AbandonType DEF WriteFails
<1>10. CASE Update
    <2>1. [rec EXCEPT !.out_ctr = ssl.out_ctr] \in SessionPersist
        BY <1>p DEF SessionPersist, TypeOK
    <2>2. QED
        BY <1>10, <2>1, SavedCases DEF Update, TypeOK, AfterSend, PC, bounds, ghosts
<1>11. CASE NotifyEstablished
    <2>1. [rec EXCEPT !.persistent = TRUE] \in SessionPersist
        BY <1>p DEF SessionPersist
    <2>2. QED
        BY <1>11, <2>1, SavedCases DEF NotifyEstablished, TypeOK, PC, bounds, ghosts
<1>12. ASSUME NEW r \in SessionPersist, Persist(r) PROVE TypeOK'
    BY <1>12, <1>p, SavedCases DEF Persist, TypeOK, PC, bounds, ghosts
<1>13. CASE UpdateSubscriptionCrc
    <2>1. [Saved(rec) EXCEPT !.subscriptions = handlers] \in SessionPersist
        BY <1>p, SavedCases DEF SessionPersist, TypeOK
    <2>2. QED
        BY <1>13, <1>12, <2>1 DEF UpdateSubscriptionCrc
<1>14. CASE UpdateDescribeCrc
    <2>1. [Saved(rec) EXCEPT !.describe = TRUE] \in SessionPersist
        BY <1>p, SavedCases DEF SessionPersist, TypeOK
    <2>2. QED
        BY <1>14, <1>12, <2>1 DEF UpdateDescribeCrc
<1>15. CASE Receive
    <2>1. [rec EXCEPT !.use_counter = 0] \in SessionPersist
        BY <1>p DEF SessionPersist
    <2>2. rec' \in SessionPersist /\ backup' \in SessionPersist
        BY <1>15, <1>p, <2>1, SavedCases DEF Receive, DataReceived
    <2>3. received' \in 0..MaxReceives
        BY <1>15 DEF Receive, DataReceived, TypeOK
    <2>4. QED
        BY <1>15, <2>2, <2>3 DEF Receive, DataReceived, TypeOK, PC
<1>16. CASE DiscardSession
    BY <1>16, AbandonType DEF DiscardSession
<1>17. CASE Disconnect
    BY <1>17 DEF Disconnect, TypeOK, PC, bounds, ghosts
<1>18. ASSUME NEW t \in Topics, Subscribe(t) PROVE TypeOK'
    BY <1>18 DEF Subscribe, TypeOK, PC, ghosts
<1>19. CASE Unsubscribe
    BY <1>19 DEF Unsubscribe, TypeOK, bounds, ghosts
<1>20. CASE CloudForgets
    BY <1>20 DEF CloudForgets, TypeOK, device, bounds, ghosts
<1>21. ASSUME NEW p \in BOOLEAN, Reset(p) PROVE TypeOK'
    <2>1. rec' \in SessionPersist /\ backup' \in SessionPersist
        BY <1>21, <1>f, <1>p DEF Reset
    <2>2. torn' \in BOOLEAN /\ tries' \in Nat /\ dead' \subseteq 1..MaxSessions
        BY <1>21 DEF Reset, TypeOK
    <2>3. resets' \in 0..MaxResets /\ keys' \in Keys /\ pc' \in PC
        BY <1>21 DEF Reset, TypeOK, PC
    <2>4. ssl' \in [session : 0..MaxSessions, out_ctr : Nat]
        BY <1>21, <1>c DEF Reset
    <2>5. /\ move_session' \in BOOLEAN /\ skip' \in BOOLEAN /\ sending' \in BOOLEAN
          /\ handlers' \subseteq Topics /\ todo' \subseteq Topics
        BY <1>21 DEF Reset
    <2>6. QED
        BY <1>21, <2>1, <2>2, <2>3, <2>4, <2>5 DEF Reset, TypeOK
<1>22. CASE UNCHANGED vars
    BY <1>22 DEF vars, device, bounds, ghosts, TypeOK
<1>23. QED
    BY <1>1, <1>2, <1>3, <1>4, <1>5, <1>6, <1>7, <1>8, <1>9, <1>10, <1>11, <1>13, <1>14, <1>15,
       <1>16, <1>17, <1>18, <1>19, <1>20, <1>21, <1>22 DEF Next, Step, Leave
-----------------------------------------------------------------------------
(* A record that is valid only if it is one of the last session.           *)
OfLast(r) == r.session <= sessions /\ (r.valid => r.session = sessions /\ sessions # 0)

(* What reset_session() does to a record: the first of its two saves keeps *)
(* the session, the second invalidates it and gives it up.                 *)
LEMMA ResetSessionEffect ==
    ASSUME TypeOK, NEW r \in SessionPersist, NEW c, NEW n, ResetSession(r, c, n)
    PROVE  /\ move_session =>
                  /\ rec' = [r EXCEPT !.use_counter = 0]
                  /\ backup' = Saved([r EXCEPT !.use_counter = 0])
                  /\ pc' = c /\ ~move_session' /\ ssl' = ssl /\ dead' = dead
           /\ ~move_session =>
                  /\ ~rec'.valid /\ rec'.session = r.session
                  /\ ~backup'.valid /\ backup'.session = 0
                  /\ pc' = n /\ ~move_session' /\ ssl'.session = 0
                  /\ dead' = dead \cup ({r.session} \ {0})
<1>1. CASE move_session
    BY <1>1 DEF ResetSession
<1>2. CASE ~move_session
    <2>1. Cleared(r, n) /\ move_session' = move_session
        BY <1>2 DEF ResetSession
    <2>2. [r EXCEPT !.valid = FALSE, !.persistent = TRUE] \in SessionPersist
        BY DEF SessionPersist
    <2>3. backup' = Fresh
        BY <2>1, <2>2, SavedCases DEF Cleared, SessionPersist
    <2>4. /\ rec'.valid = FALSE /\ rec'.session = r.session
          /\ pc' = n /\ ssl'.session = 0 /\ dead' = dead \cup ({r.session} \ {0})
        BY <2>1 DEF Cleared, Closed, SessionPersist
    <2>5. QED
        BY <1>2, <2>1, <2>3, <2>4, FreshType
<1>3. QED
    BY <1>1, <1>2

(* It leaves only records of the last session behind.                      *)
LEMMA ResetSessionLast ==
    ASSUME TypeOK, LastSession, NEW r \in SessionPersist, OfLast(r), NEW c, NEW n,
           ResetSession(r, c, n), sessions' = sessions
    PROVE  LastSession'
<1>t. r.session \in Nat /\ sessions \in Nat
    BY DEF TypeOK, SessionPersist
<1>1. CASE move_session
    <2> DEFINE u == [r EXCEPT !.use_counter = 0]
    <2>1. u \in SessionPersist
        BY SessionAssumption DEF SessionPersist
    <2>2. u.session = r.session /\ (u.valid <=> r.valid) /\ (u.persistent <=> r.persistent)
        BY DEF SessionPersist
    <2>3. rec' = u /\ backup' = Saved(u) /\ ssl' = ssl /\ dead' = dead
        BY <1>1, ResetSessionEffect
    <2> HIDE DEF u
    <2>4. OfLast(u)
        BY <2>2 DEF OfLast
    <2>5. (backup' = u /\ u.valid /\ u.persistent) \/ backup' = Fresh \/ backup' = backup
        BY <2>1, <2>3, SavedCases DEF SessionPersist
    <2>6. /\ backup'.session <= sessions
          /\ backup'.valid => backup'.session = sessions /\ sessions # 0 /\ backup'.persistent
        BY <1>t, <2>4, <2>5, FreshType DEF LastSession, OfLast
    <2>7. QED
        BY <2>3, <2>4, <2>6 DEF LastSession, OfLast
<1>2. CASE ~move_session
    <2>1. /\ ~rec'.valid /\ rec'.session = r.session
          /\ ~backup'.valid /\ backup'.session = 0
          /\ ssl'.session = 0
          /\ dead' = dead \cup ({r.session} \ {0})
        BY <1>2, ResetSessionEffect
    <2>2. dead' \subseteq 1..sessions
        <3>1. dead \subseteq 1..sessions /\ (r.session # 0 => r.session \in 1..sessions)
            BY <1>t DEF LastSession, OfLast
        <3>2. QED
            BY <2>1, <3>1
    <2>3. QED
        BY <1>t, <2>1, <2>2 DEF LastSession, OfLast
<1>3. QED
    BY <1>1, <1>2 DEF TypeOK

(* Every step leaves only records of the last session behind.  Handshake,  *)
(* which makes a new one, finds backup RAM empty.                          *)
LEMMA LastSessionStep ==
    ASSUME TypeOK, LastSession, Flow, [Next]_vars
    PROVE  LastSession'
<1>t. /\ rec \in SessionPersist /\ backup \in SessionPersist /\ sessions \in Nat
      /\ rec.session \in Nat /\ backup.session \in Nat
    BY DEF TypeOK, SessionPersist
<1>l. OfLast(rec) /\ OfLast(backup)
    BY DEF OfLast, LastSession
<1>f. ~Fresh.valid /\ Fresh.session = 0 /\ Fresh \in SessionPersist
    BY FreshType
<1>a. ASSUME Abandon PROVE LastSession'
    BY <1>a, <1>t, <1>l, ResetSessionLast DEF Abandon
<1>s. ASSUME NEW r \in SessionPersist, OfLast(r), rec' = r, backup' = Saved(r),
             sessions' = sessions, ssl'.session = ssl.session, dead' = dead
      PROVE  LastSession'
    <2>1. (backup' = r /\ r.valid /\ r.persistent) \/ backup' = Fresh \/ backup' = backup
        BY <1>s, SavedCases DEF SessionPersist
    <2>2. /\ backup'.session <= sessions
          /\ backup'.valid => backup'.session = sessions /\ sessions # 0 /\ backup'.persistent
        BY <1>t, <1>f, <1>s, <2>1 DEF LastSession, OfLast
    <2>3. QED
        BY <1>s, <2>2 DEF LastSession, OfLast
<1>1. ASSUME NEW a \in BOOLEAN, NEW c \in BOOLEAN, Connect(a, c) PROVE LastSession'
    <2>1. \/ backup' = backup /\ dead' = dead
          \/ backup' = Fresh /\ dead' = dead
          \/ backup' = Fresh /\ backup.valid /\ dead' = dead \cup {backup.session}
        BY <1>1 DEF Connect, Discard
    <2>2. dead' \subseteq 1..sessions
        <3>1. dead \subseteq 1..sessions /\ (backup.valid => backup.session \in 1..sessions)
            BY <1>t DEF LastSession
        <3>2. QED
            BY <2>1, <3>1
    <2>3. ssl'.session \in {0, sessions} /\ rec' = rec /\ sessions' = sessions
        BY <1>1 DEF Connect, LastSession, Closed, bounds
    <2>4. QED
        BY <1>t, <1>f, <2>1, <2>2, <2>3 DEF LastSession
<1>2. CASE Resume
    <2> DEFINE r == [backup EXCEPT !.use_counter = @ + 1]
    <2>1. /\ backup.valid /\ rec' = [r EXCEPT !.persistent = TRUE] /\ backup' = Saved(r)
          /\ ssl'.session = r.session /\ sessions' = sessions /\ dead' = dead
        BY <1>2 DEF Resume, Retrieved, Restorable, bounds
    <2>2. r \in SessionPersist
        <3>1. backup.use_counter + 1 \in 0..MaximumSessionUses
            BY <1>2, <1>t, SessionAssumption DEF Resume, HasExpired, SessionPersist
        <3>2. QED
            BY <1>t, <3>1 DEF SessionPersist
    <2>3. /\ r.session = backup.session /\ r.valid /\ r.persistent
          /\ rec'.session = backup.session
        BY <1>t, <2>1 DEF SessionPersist, LastSession
    <2> HIDE DEF r
    <2>4. backup' = r
        BY <2>1, <2>2, <2>3, SavedCases
    <2>5. QED
        BY <1>t, <2>1, <2>3, <2>4 DEF LastSession
<1>3. CASE ResumeFails
    <2> DEFINE r == [backup EXCEPT !.use_counter = @ + 1, !.valid = FALSE]
    <2>1. backup.use_counter + 1 \in 0..MaximumSessionUses
        BY <1>3, <1>t, SessionAssumption DEF ResumeFails, HasExpired, SessionPersist
    <2>2. r \in SessionPersist /\ r.session = backup.session /\ ~r.valid
        BY <1>t, <2>1 DEF SessionPersist
    <2>3. ResetSession(r, "clear_handshake", "handshake") /\ sessions' = sessions
        BY <1>3 DEF ResumeFails, bounds
    <2> HIDE DEF r
    <2>4. OfLast(r)
        BY <1>l, <2>2 DEF OfLast
    <2>5. QED
        BY <2>2, <2>3, <2>4, ResetSessionLast
<1>4. CASE NoSession
    <2> DEFINE r == [backup EXCEPT !.valid = FALSE]
    <2>1. r \in SessionPersist /\ r.session = backup.session /\ ~r.valid
        BY <1>t DEF SessionPersist
    <2>2. /\ sessions' = sessions
          /\ \/ ResetSession(rec, "clear_handshake", "handshake")
             \/ ResetSession(backup, "clear_handshake", "handshake")
             \/ ResetSession(r, "clear_handshake", "handshake")
        BY <1>4 DEF NoSession, bounds
    <2> HIDE DEF r
    <2>3. OfLast(r)
        BY <1>l, <2>1 DEF OfLast
    <2>4. QED
        BY <1>t, <1>l, <2>1, <2>2, <2>3, ResetSessionLast
<1>5. CASE Handshake
    <2>1. /\ sessions' = sessions + 1 /\ ssl'.session = sessions' /\ backup' = backup
          /\ dead' = dead /\ ~backup.valid
        BY <1>5 DEF Handshake, Flow
    <2>2. rec'.session = sessions' /\ rec'.valid
        BY <1>5, <1>t DEF Handshake, SessionPersist
    <2>3. dead' \subseteq 1..sessions'
        BY <1>t, <2>1 DEF LastSession
    <2>4. backup'.session <= sessions' /\ sessions' # 0
        BY <1>t, <2>1 DEF LastSession
    <2>5. QED
        BY <1>t, <2>1, <2>2, <2>3, <2>4 DEF LastSession
<1>6. CASE HandshakeFails
    BY <1>6, <1>a DEF HandshakeFails
<1>7. CASE Clear
    <2>1. /\ rec' = [rec EXCEPT !.valid = FALSE, !.persistent = FALSE]
          /\ backup' = Saved([rec EXCEPT !.valid = FALSE, !.persistent = TRUE])
          /\ ssl'.session = 0 /\ dead' = dead \cup ({rec.session} \ {0}) /\ sessions' = sessions
        BY <1>7 DEF Clear, Cleared, Closed, bounds
    <2>2. [rec EXCEPT !.valid = FALSE, !.persistent = TRUE] \in SessionPersist
        BY <1>t DEF SessionPersist
    <2>3. backup' = Fresh
        BY <1>t, <2>1, <2>2, SavedCases DEF SessionPersist
    <2>4. rec'.session = rec.session /\ ~rec'.valid
        BY <1>t, <2>1 DEF SessionPersist
    <2>5. dead' \subseteq 1..sessions
        <3>1. dead \subseteq 1..sessions /\ rec.session \in 0..sessions
            BY <1>t DEF LastSession
        <3>2. QED
            BY <1>t, <2>1, <3>1
    <2>6. QED
        BY <1>t, <1>f, <2>1, <2>3, <2>4, <2>5 DEF LastSession
<1>8. ASSUME NEW t \in Topics \cup {"none"}, Write(t) PROVE LastSession'
    <2>1. ssl'.session = ssl.session
        BY <1>8 DEF Write, TypeOK
    <2>2. QED
        BY <1>8, <2>1 DEF Write, LastSession
<1>9. CASE WriteFails
    BY <1>9, <1>a DEF WriteFails
<1>10. CASE Update
    <2>1. rec' = [rec EXCEPT !.out_ctr = ssl.out_ctr]
        BY <1>10 DEF Update
    <2>2. rec' \in SessionPersist
        BY <1>t, <2>1 DEF SessionPersist, TypeOK
    <2>3. OfLast(rec')
        BY <1>l, <1>t, <2>1 DEF OfLast, SessionPersist
    <2>4. QED
        BY <1>10, <1>s, <2>2, <2>3 DEF Update, bounds, ghosts
<1>11. CASE NotifyEstablished
    <2>1. rec' = [rec EXCEPT !.persistent = TRUE]
        BY <1>11 DEF NotifyEstablished
    <2>2. rec' \in SessionPersist
        BY <1>t, <2>1 DEF SessionPersist
    <2>3. OfLast(rec')
        BY <1>l, <1>t, <2>1 DEF OfLast, SessionPersist
    <2>4. QED
        BY <1>11, <1>s, <2>2, <2>3 DEF NotifyEstablished, bounds, ghosts
<1>12. ASSUME NEW r \in SessionPersist, Persist(r), r.session = Saved(rec).session,
              r.valid <=> Saved(rec).valid, r.persistent <=> Saved(rec).persistent
       PROVE  LastSession'
    <2>1. \/ Saved(rec) = rec /\ rec.persistent /\ rec.valid
          \/ Saved(rec) = Fresh
          \/ Saved(rec) = backup
        BY <1>t, SavedCases DEF SessionPersist
    <2>2. /\ OfLast(Saved(rec)) /\ (Saved(rec).valid => Saved(rec).persistent)
          /\ Saved(rec) \in SessionPersist
        BY <1>t, <1>f, <1>l, <2>1 DEF OfLast, LastSession
    <2>3. \/ backup' = r /\ Saved(rec).valid /\ rec' = r
          \/ backup' = Saved(rec) /\ ~Saved(rec).valid /\ rec' = rec
        BY <1>12 DEF Persist
    <2>4. sessions' = sessions /\ dead' = dead /\ ssl' = ssl
        BY <1>12 DEF Persist, bounds, ghosts
    <2>5. QED
        BY <1>12, <1>l, <2>2, <2>3, <2>4 DEF LastSession, OfLast
<1>13. CASE UpdateSubscriptionCrc
    <2> DEFINE r == [Saved(rec) EXCEPT !.subscriptions = handlers]
    <2>1. Saved(rec) \in SessionPersist
        BY <1>t, SavedCases
    <2>2. /\ r \in SessionPersist /\ r.session = Saved(rec).session
          /\ r.valid <=> Saved(rec).valid
          /\ r.persistent <=> Saved(rec).persistent
        BY <2>1 DEF SessionPersist, TypeOK
    <2>3. Persist(r)
        BY <1>13 DEF UpdateSubscriptionCrc
    <2> HIDE DEF r
    <2>4. QED
        BY <1>12, <2>2, <2>3
<1>14. CASE UpdateDescribeCrc
    <2> DEFINE r == [Saved(rec) EXCEPT !.describe = TRUE]
    <2>1. Saved(rec) \in SessionPersist
        BY <1>t, SavedCases
    <2>2. /\ r \in SessionPersist /\ r.session = Saved(rec).session
          /\ r.valid <=> Saved(rec).valid
          /\ r.persistent <=> Saved(rec).persistent
        BY <2>1 DEF SessionPersist, TypeOK
    <2>3. Persist(r)
        BY <1>14 DEF UpdateDescribeCrc
    <2> HIDE DEF r
    <2>4. QED
        BY <1>12, <2>2, <2>3
<1>15. CASE Receive
    <2>1. sessions' = sessions /\ ssl' = ssl /\ dead' = dead
        BY <1>15 DEF Receive
    <2>2. CASE move_session
        <3>1. rec' = [rec EXCEPT !.use_counter = 0] /\ backup' = Saved(rec')
            BY <1>15, <2>2 DEF Receive, DataReceived
        <3>2. rec' \in SessionPersist
            BY <1>t, <3>1, SessionAssumption DEF SessionPersist
        <3>3. OfLast(rec')
            BY <1>l, <1>t, <3>1 DEF OfLast, SessionPersist
        <3>4. QED
            BY <1>s, <2>1, <3>1, <3>2, <3>3
    <2>3. CASE ~move_session
        BY <1>15, <2>1, <2>3 DEF Receive, DataReceived, LastSession
    <2>4. QED
        BY <2>2, <2>3
<1>16. CASE DiscardSession
    BY <1>16, <1>a DEF DiscardSession
<1>17. CASE Disconnect
    BY <1>17 DEF Disconnect, LastSession, bounds, ghosts
<1>18. ASSUME NEW t \in Topics, Subscribe(t) PROVE LastSession'
    BY <1>18 DEF Subscribe, LastSession, ghosts
<1>19. CASE Unsubscribe
    BY <1>19 DEF Unsubscribe, LastSession, bounds, ghosts
<1>20. CASE CloudForgets
    BY <1>20 DEF CloudForgets, LastSession, device, bounds, ghosts
<1>21. ASSUME NEW p \in BOOLEAN, Reset(p) PROVE LastSession'
    <2>1. sessions' = sessions /\ dead' \subseteq dead
        BY <1>21 DEF Reset
    <2>2. dead' \subseteq 1..sessions'
        BY <2>1 DEF LastSession
    <2>3. backup' = backup \/ backup' = Fresh
        BY <1>21 DEF Reset
    <2>4. rec' = Fresh /\ ssl' = Closed
        BY <1>21 DEF Reset
    <2>5. QED
        BY <1>f, <1>t, <2>1, <2>2, <2>3, <2>4 DEF LastSession, Closed
<1>22. CASE UNCHANGED vars
    BY <1>22 DEF vars, device, bounds, ghosts, LastSession
<1>23. QED
    BY <1>1, <1>2, <1>3, <1>4, <1>5, <1>6, <1>7, <1>8, <1>9, <1>10, <1>11, <1>13, <1>14, <1>15,
       <1>16, <1>17, <1>18, <1>19, <1>20, <1>21, <1>22 DEF Next, Step, Leave
-----------------------------------------------------------------------------
(* A step within a session that saves the record, or leaves backup RAM     *)
(* empty: the bounds need only be shown of the record in RAM.              *)
LEMMA LiveSave ==
    ASSUME Inv, TypeOK', LastSession', pc \in Live, pc' \in Live,
           sessions' = sessions, dead' = dead, torn' = torn, ssl'.session = ssl.session,
           rec'.valid, backup'.valid => backup' = rec',
           tries' <= rec'.use_counter,
           used' <= rec'.out_ctr + Lag', NumbersNotReused', sending' => used' <= ssl'.out_ctr,
           sending' \/ ssl'.out_ctr <= rec'.out_ctr
    PROVE  Flow' /\ Numbers' /\ Uses' /\ Alive'
<1>t. /\ rec'.use_counter \in 0..MaximumSessionUses /\ tries' \in Nat
      /\ MaximumSessionUses \in Nat
    BY SessionAssumption DEF TypeOK, SessionPersist
<1>l. pc' \notin {"clear", "clear_handshake", "off", "restore", "handshake"}
    BY DEF Live
<1>1. Flow'
    BY <1>l DEF Inv, Flow
<1>2. Numbers'
    BY DEF Numbers
<1>3. Uses'
    BY <1>t DEF Uses
<1>4. Alive'
    <2>1. pc # "off" /\ ssl.session = sessions
        BY DEF Inv, Flow, Live
    <2>2. backup'.valid => backup'.session = sessions
        BY DEF LastSession
    <2>3. QED
        BY <2>1, <2>2 DEF Inv, Alive
<1>5. QED
    BY <1>1, <1>2, <1>3, <1>4

(* reset_session() on record r, outside a send.                            *)
LEMMA ResetSessionRest ==
    ASSUME Inv, LastSession', NEW r \in SessionPersist, r.valid => used <= r.out_ctr + Lag,
           NEW c \in {"clear", "clear_handshake"}, NEW n \in {"off", "handshake"},
           ResetSession(r, c, n), c = "clear_handshake" => ssl.session = 0, pc # "off",
           ~sending, ~sending', torn' = torn, used' = used,
           tries' <= MaximumSessionUses
    PROVE  Flow' /\ Numbers' /\ Uses' /\ Alive'
<1>t. TypeOK
    BY DEF Inv
<1>g. Lag' = Lag
    BY DEF Lag
<1>1. CASE move_session
    <2> DEFINE u == [r EXCEPT !.use_counter = 0]
    <2>1. u \in SessionPersist
        BY SessionAssumption DEF SessionPersist
    <2>2. u.out_ctr = r.out_ctr /\ (u.valid <=> r.valid)
        BY DEF SessionPersist
    <2>3. rec' = u /\ backup' = Saved(u) /\ ssl' = ssl /\ dead' = dead /\ pc' = c
        BY <1>1, <1>t, ResetSessionEffect
    <2> HIDE DEF u
    <2>4. backup' = u \/ backup' = Fresh \/ backup' = backup
        BY <1>t, <2>1, <2>3, SavedCases DEF SessionPersist
    <2>5. Flow'
        BY <2>3 DEF Flow, Live
    <2>6. Numbers'
        <3>1. u.valid => used <= u.out_ctr + Lag
            BY <2>2
        <3>2. backup'.valid => used <= backup'.out_ctr + Lag
            BY <1>t, <2>4, <3>1, FreshType DEF Inv, Numbers
        <3>3. QED
            BY <1>g, <2>3, <3>1, <3>2 DEF Inv, Numbers, NumbersNotReused, Live
    <2>7. Uses' /\ Alive'
        BY <2>3 DEF Inv, Uses, Alive, Live, Clearing
    <2>8. QED
        BY <2>5, <2>6, <2>7
<1>2. CASE ~move_session
    <2>1. /\ ~rec'.valid /\ ~backup'.valid /\ ssl'.session = 0 /\ pc' = n /\ ~move_session'
        BY <1>2, <1>t, ResetSessionEffect
    <2>2. 0 \notin dead'
        BY DEF LastSession
    <2>3. Flow' /\ Uses' /\ Alive'
        BY <2>1, <2>2 DEF Flow, Uses, Alive, Live
    <2>4. Numbers'
        BY <2>1 DEF Numbers, NumbersNotReused, Live
    <2>5. QED
        BY <2>3, <2>4
<1>3. QED
    BY <1>1, <1>2 DEF TypeOK
-----------------------------------------------------------------------------
(* Every step keeps the bounds on the last session.                        *)
LEMMA RestStep ==
    ASSUME Inv, [Next]_vars, TypeOK', LastSession'
    PROVE  Flow' /\ Numbers' /\ Uses' /\ Alive'
<1>t. TypeOK /\ LastSession /\ Flow /\ Numbers /\ Uses /\ Alive
    BY DEF Inv
<1>p. /\ rec \in SessionPersist /\ backup \in SessionPersist
      /\ used \in Nat /\ tries \in Nat /\ sessions \in Nat
      /\ ssl.out_ctr \in Nat /\ rec.out_ctr \in Nat /\ backup.out_ctr \in Nat
      /\ rec.use_counter \in Nat /\ backup.use_counter \in Nat
    BY <1>t DEF TypeOK, SessionPersist
<1>f. ~Fresh.valid /\ Fresh.session = 0 /\ Fresh \in SessionPersist
    BY <1>t, FreshType
<1>m. MaximumSessionUses \in Nat
    BY SessionAssumption
<1>a. ASSUME Abandon, tries' = tries, ~sending, pc # "off"
      PROVE  Flow' /\ Numbers' /\ Uses' /\ Alive'
    <2>1. ResetSession(rec, "clear", "off") /\ ~sending' /\ torn' = torn /\ used' = used
        BY <1>a DEF Abandon
    <2>2. tries' <= MaximumSessionUses
        BY <1>a, <1>t DEF Uses
    <2>3. rec.valid => used <= rec.out_ctr + Lag
        BY <1>t DEF Numbers
    <2>4. QED
        BY <1>a, <1>p, <2>1, <2>2, <2>3, ResetSessionRest
<1>1. ASSUME NEW a \in BOOLEAN, NEW c \in BOOLEAN, Connect(a, c)
      PROVE  Flow' /\ Numbers' /\ Uses' /\ Alive'
    <2>1. \/ backup' = backup /\ dead' = dead
          \/ ~backup'.valid
        BY <1>1, <1>f DEF Connect, Discard
    <2>2. /\ pc = "off" /\ pc' \in {"off", "restore"} /\ ~sending /\ ~sending'
          /\ rec' = rec /\ used' = used /\ tries' = tries /\ torn' = torn
          /\ pc' = "restore" => ssl'.session = 0
          /\ ssl' = ssl \/ ssl'.session = 0
        BY <1>1, <1>t DEF Connect, Closed, Flow, Live
    <2>3. Flow'
        BY <2>2 DEF Flow, Live
    <2>4. Numbers'
        BY <1>t, <2>1, <2>2 DEF Numbers, NumbersNotReused, Lag, Live
    <2>5. Uses'
        BY <1>t, <2>1, <2>2 DEF Uses, Clearing, Live
    <2>6. Alive'
        <3>1. 0 \notin dead'
            BY DEF LastSession
        <3>2. QED
            BY <1>t, <2>1, <2>2, <3>1 DEF Alive, Clearing
    <2>7. QED
        BY <2>3, <2>4, <2>5, <2>6
<1>2. CASE Resume
    <2> DEFINE r == [backup EXCEPT !.use_counter = @ + 1]
    <2>1. /\ backup.valid /\ rec' = [r EXCEPT !.persistent = TRUE] /\ backup' = Saved(r)
          /\ pc = "restore" /\ pc' \in {"hello", "ping"}
          /\ ssl'.session = r.session /\ ssl'.out_ctr = r.out_ctr
          /\ sessions' = sessions /\ dead' = dead /\ torn' = torn /\ sending' = sending
          /\ used' = used /\ tries' = tries + 1
        BY <1>2 DEF Resume, Retrieved, Restorable, bounds
    <2>2. r \in SessionPersist /\ r.use_counter <= MaximumSessionUses
        <3>1. backup.use_counter + 1 \in 0..MaximumSessionUses
            BY <1>2, <1>p, SessionAssumption DEF Resume, HasExpired, SessionPersist
        <3>2. QED
            BY <1>p, <3>1 DEF SessionPersist
    <2>3. /\ r.session = backup.session /\ r.valid /\ r.persistent /\ r.out_ctr = backup.out_ctr
          /\ r.use_counter = backup.use_counter + 1
        BY <1>p, <1>t, <2>1 DEF SessionPersist, LastSession
    <2>4. [r EXCEPT !.persistent = TRUE] = r
        BY <2>2, <2>3 DEF SessionPersist
    <2> HIDE DEF r
    <2>5. backup' = r /\ rec' = r
        BY <1>t, <2>1, <2>2, <2>3, <2>4, SavedCases
    <2>6. ~sending /\ pc' \in Live /\ pc' # "off" /\ ~Clearing' /\ ~Clearing
        BY <1>t, <2>1 DEF Flow, Live, Clearing
    <2>7. Flow'
        BY <1>t, <2>1, <2>3, <2>5, <2>6 DEF Flow, LastSession
    <2>8. Numbers'
        BY <1>t, <1>p, <2>1, <2>3, <2>5, <2>6 DEF Numbers, NumbersNotReused, Lag
    <2>9. Uses'
        <3>1. tries <= backup.use_counter
            BY <1>t, <2>1, <2>6 DEF Uses
        <3>2. tries' <= r.use_counter /\ tries' <= MaximumSessionUses
            BY <1>p, <1>m, <2>1, <2>2, <2>3, <3>1
        <3>3. QED
            BY <2>1, <2>5, <3>2 DEF Uses
    <2>10. Alive'
        BY <1>t, <2>1, <2>3, <2>5, <2>6 DEF Alive
    <2>11. QED
        BY <2>7, <2>8, <2>9, <2>10
<1>3. CASE ResumeFails
    <2> DEFINE r == [backup EXCEPT !.use_counter = @ + 1, !.valid = FALSE]
    <2>1. backup.use_counter + 1 \in 0..MaximumSessionUses
        BY <1>3, <1>p, SessionAssumption DEF ResumeFails, HasExpired, SessionPersist
    <2>2. r \in SessionPersist /\ ~r.valid
        BY <1>p, <2>1 DEF SessionPersist
    <2>3. /\ ResetSession(r, "clear_handshake", "handshake")
          /\ pc = "restore" /\ backup.valid /\ sending' = sending /\ tries' = tries + 1
          /\ torn' = torn /\ used' = used
        BY <1>3 DEF ResumeFails, Restorable
    <2> HIDE DEF r
    <2>4. ssl.session = 0 /\ ~sending /\ pc # "off" /\ ~sending'
        BY <1>t, <2>3 DEF Flow, Live
    <2>5. tries' <= MaximumSessionUses
        BY <1>t, <1>p, <1>m, <2>1, <2>3 DEF Uses, Clearing
    <2>6. QED
        BY <2>2, <2>3, <2>4, <2>5, ResetSessionRest
<1>4. CASE NoSession
    <2> DEFINE r == [backup EXCEPT !.valid = FALSE]
    <2>1. r \in SessionPersist /\ ~r.valid
        BY <1>p DEF SessionPersist
    <2>2. /\ pc = "restore" /\ sending' = sending /\ tries' = tries /\ torn' = torn /\ used' = used
          /\ \/ ResetSession(rec, "clear_handshake", "handshake")
             \/ ResetSession(backup, "clear_handshake", "handshake")
             \/ ResetSession(r, "clear_handshake", "handshake")
        BY <1>4 DEF NoSession
    <2> HIDE DEF r
    <2>3. ssl.session = 0 /\ ~sending /\ pc # "off" /\ ~sending'
        BY <1>t, <2>2 DEF Flow, Live
    <2>4. tries' <= MaximumSessionUses
        BY <1>t, <2>2 DEF Uses
    <2>5. /\ rec.valid => used <= rec.out_ctr + Lag
          /\ backup.valid => used <= backup.out_ctr + Lag
        BY <1>t DEF Numbers
    <2>6. QED
        BY <1>p, <2>1, <2>2, <2>3, <2>4, <2>5, ResetSessionRest
<1>5. CASE Handshake
    <2>1. /\ pc = "handshake" /\ pc' = "hello" /\ sessions' = sessions + 1
          /\ ssl'.session = sessions' /\ ssl'.out_ctr = 0 /\ backup' = backup /\ dead' = dead
          /\ used' = 0 /\ tries' = 0 /\ torn' = FALSE /\ sending' = sending
        BY <1>5 DEF Handshake
    <2>2. rec'.session = sessions' /\ rec'.valid /\ rec'.out_ctr = 0
        BY <1>5, <1>p DEF Handshake, SessionPersist
    <2>3. ~backup'.valid /\ ~sending /\ ~sending' /\ pc' \in Live
        BY <1>t, <2>1 DEF Flow, Live
    <2>4. rec'.use_counter \in Nat
        BY DEF TypeOK, SessionPersist
    <2>5. sessions' \notin dead'
        BY <1>t, <1>p, <2>1 DEF LastSession
    <2>6. Flow'
        BY <2>1, <2>2, <2>3 DEF Flow
    <2>7. Numbers'
        BY <2>1, <2>2, <2>3 DEF Numbers, NumbersNotReused, Lag
    <2>8. Uses' /\ Alive'
        BY <1>m, <2>1, <2>2, <2>3, <2>4, <2>5 DEF Uses, Alive
    <2>9. QED
        BY <2>6, <2>7, <2>8
<1>6. CASE HandshakeFails
    BY <1>6, <1>a, <1>t DEF HandshakeFails, Flow, Live
<1>7. CASE Clear
    <2>1. /\ rec' = [rec EXCEPT !.valid = FALSE, !.persistent = FALSE]
          /\ backup' = Saved([rec EXCEPT !.valid = FALSE, !.persistent = TRUE])
          /\ ssl'.session = 0 /\ pc \in {"clear", "clear_handshake"} /\ pc' \in {"off", "handshake"}
          /\ used' = used /\ tries' = tries /\ torn' = torn /\ sending' = sending
        BY <1>7 DEF Clear, Cleared, Closed
    <2>2. [rec EXCEPT !.valid = FALSE, !.persistent = TRUE] \in SessionPersist
        BY <1>p DEF SessionPersist
    <2>3. ~backup'.valid
        BY <1>t, <1>f, <1>p, <2>1, <2>2, SavedCases DEF SessionPersist
    <2>4. ~rec'.valid
        BY <1>p, <2>1 DEF SessionPersist
    <2>5. ~sending' /\ pc' \notin Live
        BY <1>t, <2>1 DEF Flow, Live
    <2>6. 0 \notin dead'
        BY DEF LastSession
    <2>7. QED
        BY <1>t, <2>1, <2>3, <2>4, <2>5, <2>6 DEF Flow, Numbers, NumbersNotReused, Uses, Alive
<1>8. ASSUME NEW t \in Topics \cup {"none"}, Write(t)
      PROVE  Flow' /\ Numbers' /\ Uses' /\ Alive'
    <2>1. /\ ~sending /\ sending' /\ pc' = pc /\ rec' = rec /\ backup' = backup
          /\ tries' = tries /\ torn' = torn /\ dead' = dead /\ sessions' = sessions
          /\ pc \in Live /\ ssl.session # 0
          /\ used' = Larger(used, ssl.out_ctr + 1)
        BY <1>8 DEF Write, Live
    <2>2. ssl'.session = ssl.session /\ ssl'.out_ctr = ssl.out_ctr + 1
        BY <1>8, <1>t DEF Write, TypeOK
    <2>3. used' <= ssl.out_ctr + 1
        BY <1>t, <1>p, <2>1 DEF Numbers, NumbersNotReused, Larger
    <2>4. Lag' = 1 /\ ssl.out_ctr <= rec.out_ctr /\ (backup.valid => backup = rec)
        BY <1>t, <2>1 DEF Lag, Numbers, Flow
    <2>5. used' \in Nat
        BY DEF TypeOK
    <2>6. Flow'
        BY <1>t, <2>1, <2>2 DEF Flow
    <2>7. Numbers'
        <3>1. NumbersNotReused'
            BY <1>p, <2>1, <2>2, <2>3, <2>5 DEF NumbersNotReused
        <3>2. used' <= rec.out_ctr + 1
            BY <1>p, <2>3, <2>4, <2>5
        <3>3. QED
            BY <2>1, <2>2, <2>3, <2>4, <3>1, <3>2 DEF Numbers
    <2>8. Uses' /\ Alive'
        BY <1>t, <2>1, <2>2 DEF Uses, Alive, Clearing
    <2>9. QED
        BY <2>6, <2>7, <2>8
<1>9. CASE WriteFails
    BY <1>9, <1>a DEF WriteFails
<1>s. ASSUME NEW u \in SessionPersist, pc \in Live, pc' \in Live, rec' = u, u.valid,
             rec.persistent => u.persistent, backup' = Saved(u),
             ssl' = ssl, sessions' = sessions, dead' = dead, torn' = torn, used' = used,
             tries' <= u.use_counter,
             used <= u.out_ctr + Lag', sending' => sending, sending' \/ ssl.out_ctr <= u.out_ctr
      PROVE  Flow' /\ Numbers' /\ Uses' /\ Alive'
    <2>1. backup'.valid => backup' = u
        <3>1. CASE u.persistent
            BY <1>s, <1>t, <3>1, SavedCases
        <3>2. CASE ~u.persistent
            <4>1. backup' = backup /\ ~rec.persistent
                BY <1>s, <1>t, <3>2, SavedCases
            <4>2. ~backup.valid
                BY <1>s, <1>t, <4>1 DEF Flow, LastSession
            <4>3. QED
                BY <4>1, <4>2
        <3>3. QED
            BY <3>1, <3>2
    <2>2. NumbersNotReused'
        BY <1>s, <1>t DEF Numbers, NumbersNotReused
    <2>3. sending' => used' <= ssl'.out_ctr
        BY <1>s, <1>t DEF Numbers
    <2>4. QED
        BY <1>s, <2>1, <2>2, <2>3, LiveSave
<1>10. CASE Update
    <2>1. /\ rec' = [rec EXCEPT !.out_ctr = ssl.out_ctr] /\ backup' = Saved(rec')
          /\ sending /\ ~sending' /\ ssl' = ssl /\ sessions' = sessions /\ dead' = dead
          /\ torn' = torn /\ used' = used /\ tries' = tries /\ pc' = AfterSend
        BY <1>10 DEF Update, bounds, ghosts
    <2>2. rec' \in SessionPersist
        BY <1>t, <1>p, <2>1 DEF SessionPersist, TypeOK
    <2>3. /\ rec'.out_ctr = ssl.out_ctr /\ (rec'.valid <=> rec.valid)
          /\ rec'.persistent <=> rec.persistent
          /\ rec'.use_counter = rec.use_counter
        BY <1>p, <2>1 DEF SessionPersist
    <2>4. pc \in Live /\ pc' \in Live /\ rec.valid
        BY <1>t, <2>1 DEF Flow, Live, AfterSend
    <2>5. /\ used <= rec'.out_ctr + Lag'
          /\ ssl.out_ctr <= rec'.out_ctr
        BY <1>t, <1>p, <2>1, <2>3 DEF Numbers, Lag
    <2>6. tries' <= rec'.use_counter
        BY <1>t, <2>1, <2>3, <2>4 DEF Uses
    <2>7. QED
        BY <1>s, <2>1, <2>2, <2>3, <2>4, <2>5, <2>6
<1>11. CASE NotifyEstablished
    <2>1. /\ rec' = [rec EXCEPT !.persistent = TRUE] /\ backup' = Saved(rec')
          /\ sending' = sending /\ ssl' = ssl /\ sessions' = sessions /\ dead' = dead
          /\ torn' = torn /\ used' = used /\ tries' = tries
          /\ pc = "established" /\ pc' = "subscribe"
        BY <1>11 DEF NotifyEstablished, bounds, ghosts
    <2>2. rec' \in SessionPersist
        BY <1>p, <2>1 DEF SessionPersist
    <2>3. /\ rec'.out_ctr = rec.out_ctr /\ (rec'.valid <=> rec.valid) /\ rec'.persistent
          /\ rec'.use_counter = rec.use_counter
        BY <1>p, <2>1 DEF SessionPersist
    <2>4. pc \in Live /\ pc' \in Live /\ rec.valid /\ Lag' = Lag
        BY <1>t, <2>1 DEF Flow, Live, Lag
    <2>5. /\ used <= rec'.out_ctr + Lag'
          /\ sending \/ ssl.out_ctr <= rec'.out_ctr
        BY <1>t, <2>3, <2>4 DEF Numbers
    <2>6. tries' <= rec'.use_counter
        BY <1>t, <2>1, <2>3, <2>4 DEF Uses
    <2>7. QED
        BY <1>s, <2>1, <2>2, <2>3, <2>4, <2>5, <2>6
<1>12. ASSUME NEW r \in SessionPersist, Persist(r), pc \in Live,
              r.out_ctr = Saved(rec).out_ctr, r.use_counter = Saved(rec).use_counter,
              r.valid <=> Saved(rec).valid
       PROVE  Flow' /\ Numbers' /\ Uses' /\ Alive'
    <2>1. /\ sending' = sending /\ ssl' = ssl /\ sessions' = sessions /\ dead' = dead
          /\ torn' = torn /\ used' = used /\ tries' = tries /\ pc' = "connected"
          /\ \/ Saved(rec).valid /\ backup' = r /\ rec' = r
             \/ ~Saved(rec).valid /\ backup' = Saved(rec) /\ rec' = rec
        BY <1>12 DEF Persist, bounds, ghosts
    <2>2. pc' \in Live /\ rec.valid /\ Lag' = Lag
        BY <1>t, <1>12, <2>1 DEF Flow, Live, Lag
    <2>3. Saved(rec).valid => Saved(rec) = rec
        BY <1>12, <1>t, <1>p, <2>2, SavedCases DEF Flow, SessionPersist
    <2>4. /\ rec'.valid /\ rec'.out_ctr = rec.out_ctr /\ rec'.use_counter = rec.use_counter
          /\ backup'.valid => backup' = rec'
        BY <1>12, <2>1, <2>2, <2>3
    <2>5. /\ used' <= rec'.out_ctr + Lag'
          /\ sending' \/ ssl'.out_ctr <= rec'.out_ctr
          /\ sending' => used' <= ssl'.out_ctr
          /\ NumbersNotReused'
        BY <1>12, <1>t, <2>1, <2>2, <2>4 DEF Numbers, NumbersNotReused
    <2>6. tries' <= rec'.use_counter
        BY <1>12, <1>t, <2>1, <2>4 DEF Uses
    <2>7. QED
        BY <1>12, <2>1, <2>2, <2>4, <2>5, <2>6, LiveSave
<1>13. CASE UpdateSubscriptionCrc
    <2> DEFINE r == [Saved(rec) EXCEPT !.subscriptions = handlers]
    <2>1. Saved(rec) \in SessionPersist
        BY <1>t, <1>p, SavedCases
    <2>2. /\ r \in SessionPersist /\ r.out_ctr = Saved(rec).out_ctr
          /\ r.use_counter = Saved(rec).use_counter
          /\ r.valid <=> Saved(rec).valid
        BY <1>t, <2>1 DEF SessionPersist, TypeOK
    <2>3. Persist(r) /\ pc \in Live
        BY <1>13 DEF UpdateSubscriptionCrc, Live
    <2> HIDE DEF r
    <2>4. QED
        BY <1>12, <2>2, <2>3
<1>14. CASE UpdateDescribeCrc
    <2> DEFINE r == [Saved(rec) EXCEPT !.describe = TRUE]
    <2>1. Saved(rec) \in SessionPersist
        BY <1>t, <1>p, SavedCases
    <2>2. /\ r \in SessionPersist /\ r.out_ctr = Saved(rec).out_ctr
          /\ r.use_counter = Saved(rec).use_counter
          /\ r.valid <=> Saved(rec).valid
        BY <2>1 DEF SessionPersist
    <2>3. Persist(r) /\ pc \in Live
        BY <1>14 DEF UpdateDescribeCrc, Live
    <2> HIDE DEF r
    <2>4. QED
        BY <1>12, <2>2, <2>3
<1>15. CASE Receive
    <2>1. /\ sessions' = sessions /\ ssl' = ssl /\ dead' = dead /\ torn' = torn /\ used' = used
          /\ sending' = sending /\ ~sending /\ pc = "connected" /\ pc' \in {"connected", "describe"}
          /\ tries' = 0
        BY <1>15 DEF Receive, DataReceived, Connected
    <2>2. pc \in Live /\ pc' \in Live /\ rec.valid /\ Lag' = Lag
        BY <1>t, <2>1 DEF Flow, Live, Lag
    <2>3. CASE move_session
        <3>1. rec' = [rec EXCEPT !.use_counter = 0] /\ backup' = Saved(rec')
            BY <1>15, <2>3 DEF Receive, DataReceived
        <3>2. rec' \in SessionPersist
            BY <1>p, <3>1, SessionAssumption DEF SessionPersist
        <3>3. /\ rec'.out_ctr = rec.out_ctr /\ (rec'.valid <=> rec.valid)
              /\ rec'.persistent <=> rec.persistent
              /\ rec'.use_counter = 0
            BY <1>p, <3>1 DEF SessionPersist
        <3>4. used <= rec'.out_ctr + Lag' /\ ssl.out_ctr <= rec'.out_ctr
            BY <1>t, <2>1, <2>2, <3>3 DEF Numbers
        <3>5. tries' <= rec'.use_counter
            BY <2>1, <3>3
        <3>6. QED
            BY <1>s, <2>1, <2>2, <3>1, <3>2, <3>3, <3>4, <3>5
    <2>4. CASE ~move_session
        <3>1. rec' = rec /\ backup' = backup
            BY <1>15, <2>4 DEF Receive, DataReceived
        <3>2. backup.valid => backup = rec
            BY <1>t, <2>2 DEF Flow
        <3>3. /\ used' <= rec'.out_ctr + Lag' /\ ssl'.out_ctr <= rec'.out_ctr
              /\ NumbersNotReused'
            BY <1>t, <2>1, <2>2, <3>1 DEF Numbers, NumbersNotReused
        <3>4. tries' <= rec'.use_counter
            BY <1>p, <2>1, <3>1
        <3>5. QED
            BY <2>1, <2>2, <3>1, <3>2, <3>3, <3>4, LiveSave
    <2>5. QED
        BY <2>3, <2>4
<1>16. CASE DiscardSession
    BY <1>16, <1>a DEF DiscardSession, Connected
<1>17. CASE Disconnect
    <2>1. /\ pc = "connected" /\ pc' = "off" /\ ~sending /\ sending' = sending
          /\ rec' = rec /\ backup' = backup /\ ssl' = ssl
          /\ used' = used /\ tries' = tries /\ torn' = torn /\ dead' = dead
        BY <1>17 DEF Disconnect, Connected, ghosts
    <2>2. QED
        BY <1>t, <2>1 DEF Flow, Numbers, NumbersNotReused, Lag, Uses, Alive, Clearing, Live
<1>u. ASSUME pc' = pc \/ (pc = "connected" /\ pc' = "subscribe"),
             rec' = rec, backup' = backup, ssl' = ssl, sending' = sending, sessions' = sessions,
             used' = used, tries' = tries, dead' = dead, torn' = torn
      PROVE  Flow' /\ Numbers' /\ Uses' /\ Alive'
    BY <1>t, <1>u DEF Flow, Numbers, NumbersNotReused, Lag, Uses, Alive, Clearing, Live
<1>18. ASSUME NEW t \in Topics, Subscribe(t) PROVE Flow' /\ Numbers' /\ Uses' /\ Alive'
    BY <1>18, <1>u DEF Subscribe, Connected, ghosts
<1>19. CASE Unsubscribe
    BY <1>19, <1>u DEF Unsubscribe, bounds, ghosts
<1>20. CASE CloudForgets
    BY <1>20, <1>u DEF CloudForgets, device, bounds, ghosts
<1>21. ASSUME NEW p \in BOOLEAN, Reset(p) PROVE Flow' /\ Numbers' /\ Uses' /\ Alive'
    <2>1. /\ ~rec'.valid /\ ssl'.session = 0 /\ pc' = "off" /\ ~sending'
          /\ used' = used
          /\ ~backup'.valid \/ backup' = backup
        BY <1>21, <1>f DEF Reset, Closed
    <2>2. (torn => torn') /\ (sending => torn')
        BY <1>21 DEF Reset
    <2>3. Flow'
        BY <2>1 DEF Flow, Live
    <2>4. Numbers'
        <3>1. Lag <= Lag' /\ Lag \in Nat /\ Lag' \in Nat
            BY <2>1, <2>2 DEF Lag
        <3>2. backup'.valid => used' <= backup'.out_ctr + Lag'
            BY <1>t, <1>p, <2>1, <3>1 DEF Numbers
        <3>3. QED
            BY <2>1, <3>2 DEF Numbers, NumbersNotReused, Live
    <2>5. Uses' /\ Alive'
        <3>1. CASE Revived(p)
            <4>1. tries' = 0 /\ dead' = dead \ {backup.session}
                BY <1>21, <3>1 DEF Reset
            <4>2. QED
                BY <1>m, <1>p, <2>1, <4>1 DEF Uses, Alive, Live
        <3>2. CASE ~Revived(p)
            <4>1. tries' = tries /\ dead' = dead
                BY <1>21, <3>2 DEF Reset
            <4>2. backup'.valid => backup' = backup /\ ~Clearing
                BY <1>21, <1>f, <2>1, <3>2 DEF Reset, Revived, Clearing
            <4>3. QED
                BY <1>t, <2>1, <4>1, <4>2 DEF Uses, Alive, Live
        <3>3. QED
            BY <3>1, <3>2
    <2>6. QED
        BY <2>3, <2>4, <2>5
<1>22. CASE UNCHANGED vars
    BY <1>22, <1>u DEF vars, device, bounds, ghosts
<1>23. QED
    BY <1>1, <1>2, <1>3, <1>4, <1>5, <1>6, <1>7, <1>8, <1>9, <1>10, <1>11, <1>13, <1>14, <1>15,
       <1>16, <1>17, <1>18, <1>19, <1>20, <1>21, <1>22 DEF Next, Step, Leave
-----------------------------------------------------------------------------
(* The inductive invariant holds in every state of the specification.      *)
LEMMA Invariant == Spec => []Inv
<1>1. Init => Inv
    <2>1. ASSUME Init PROVE Inv
        <3>1. TypeOK
            BY <2>1, TypeInitial
        <3>2. ~Fresh.valid /\ Fresh.session = 0
            BY <3>1, FreshType
        <3>3. LastSession
            BY <2>1, <3>2 DEF Init, LastSession, Closed
        <3>4. Flow /\ Numbers
            BY <2>1, <3>2 DEF Init, Flow, Numbers, NumbersNotReused, Closed, Live
        <3>5. Uses /\ Alive
            BY <2>1, <3>2, SessionAssumption DEF Init, Uses, Alive, Live
        <3>6. QED
            BY <3>1, <3>3, <3>4, <3>5 DEF Inv
    <2>2. QED
        BY <2>1
<1>2. Inv /\ [Next]_vars => Inv'
    <2>1. ASSUME Inv, [Next]_vars PROVE Inv'
        <3>1. TypeOK /\ LastSession /\ Flow
            BY <2>1 DEF Inv
        <3>2. TypeOK'
            BY <2>1, <3>1, TypeStep
        <3>3. LastSession'
            BY <2>1, <3>1, LastSessionStep
        <3>4. QED
            BY <2>1, <3>2, <3>3, RestStep DEF Inv
    <2>2. QED
        BY <2>1
<1>3. QED
    BY <1>1, <1>2, PTL DEF Spec

(* Every variable keeps its type: in particular the use count in           *)
(* sessionPersist and in backup RAM never passes MAXIMUM_SESSION_USES,     *)
(* although restore() increases it before it looks at the session's keys.  *)
THEOREM TypeCorrect == Spec => []TypeOK
<1>1. Inv => TypeOK
    BY DEF Inv
<1>2. QED
    BY <1>1, Invariant, PTL

(* For any number of sends and resets, a record number comes again only if *)
(* a reset once fell between mbedtls_ssl_write() and update(), and then by *)
(* one: a second such reset finds the number it repeats no further behind. *)
THEOREM RecordNumbers == Spec => []NumbersNotReused
<1>1. Inv => NumbersNotReused
    BY DEF Inv, Numbers
<1>2. QED
    BY <1>1, Invariant, PTL

(* Whatever ends the connections, a session from which no data comes is    *)
(* retrieved at most MAXIMUM_SESSION_USES times, counted again from a      *)
(* reset that falls inside reset_session(), which finds the use count      *)
(* cleared and the session still valid.                                    *)
THEOREM SessionExpires == Spec => []UselessSessionExpires
<1>1. Inv => UselessSessionExpires
    BY DEF Inv, Uses, UselessSessionExpires
<1>2. QED
    BY <1>1, Invariant, PTL

(* One path only, through all the records and their saves, leads back to a *)
(* session that reset_session() or discard() gave up: a reset of the       *)
(* device inside reset_session(), which saves before it clears.            *)
THEOREM DiscardedSessionGone == Spec => []DiscardedNotResumed
<1>1. Inv => DiscardedNotResumed
    BY DEF Inv, Alive, DiscardedNotResumed
<1>2. QED
    BY <1>1, Invariant, PTL
=============================================================================
