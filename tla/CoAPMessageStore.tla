-------------------------- MODULE CoAPMessageStore --------------------------
(***************************************************************************)
(* The message store of communication/src/coap_channel.{h,cpp}.  A store   *)
(* is the linked list of CoAPMessage objects the reliable channel keeps:   *)
(* confirmable messages waiting for an acknowledgement, confirmable        *)
(* messages received and not answered yet, and the answers already given.  *)
(*                                                                         *)
(* CoAPMessageStore::add removes a message with the same id before it      *)
(* links the new one, so the list is a partial function on ids; here it is *)
(* a total function whose value is NoMessage for an id that is not stored. *)
(* The order of the list decides only in which order datagrams leave in    *)
(* one call of process(), and the network reorders and loses datagrams.    *)
(*                                                                         *)
(* Time: an entry holds the time LEFT until its timeout instead of the     *)
(* timeout itself.  time_has_passed(now, timeout) compares with wrapping   *)
(* arithmetic and is left = 0 as long as a timeout is less than 2^31 ms    *)
(* away; the largest one is below 48 s.                                    *)
(***************************************************************************)
EXTENDS Integers

CONSTANTS
    MaxId,          \* largest message id (65535: message_id_t is 16 bits)
    MaxRetransmit,  \* CoAPMessage::MAX_RETRANSMIT (3)
    AckTimeout,     \* CoAPMessage::ACK_TIMEOUT (4000 ms)
    TransmitSpan,   \* CoAPMessage::MAX_TRANSMIT_SPAN (45000 ms)
    Rand            \* the values of rand() % 256 that are considered

ASSUME StoreAssumption ==
    /\ MaxId \in Nat \ {0}
    /\ MaxRetransmit \in Nat
    /\ AckTimeout \in Nat \ {0}
    /\ TransmitSpan \in Nat \ {0}
    /\ Rand \subseteq 0..255
    /\ Rand # {}

(* The shift of transmit_timeout() stays among the natural numbers.        *)
ASSUME ShiftAssumption == \A n \in 0..MaxRetransmit : 2^n \in Nat

Ids == 0..MaxId

(* One CoAPMessage: its CoAP type, the time left until get_timeout() and   *)
(* transmit_count.                                                         *)
Message == [type : {"none", "CON", "ACK", "RST"}, left : Nat, count : Nat]

NoMessage == [type |-> "none", left |-> 0, count |-> 0]

EmptyStore == [i \in Ids |-> NoMessage]

has(store, id) == store[id].type # "none"

has_messages(store) == \E i \in Ids : has(store, i)

(* transmit_timeout(): exponential backoff plus up to half as much again.  *)
transmit_timeout(count, rand) ==
    LET t == AckTimeout * 2^count IN t + (t * rand) \div 512

(* Mutant: kept for one ACK_TIMEOUT only.                                  *)
ExpiringSoon(type) ==
    [type |-> type, left |-> AckTimeout, count |-> MaxRetransmit + 2]

(* CoAPMessage::set_expiration(): kept, never transmitted again.           *)
Expiring(type) ==
    [type |-> type, left |-> TransmitSpan, count |-> MaxRetransmit + 2]

(* A confirmable message that send() has stored: prepare_retransmit() set  *)
(* its first timeout and counted the transmission that is about to happen. *)
Outgoing(rand) ==
    [type |-> "CON", left |-> transmit_timeout(0, rand), count |-> 1]

add(store, id, msg) == [store EXCEPT ![id] = msg]

clear_message(store, id) == [store EXCEPT ![id] = NoMessage]

(* Mutant: every message is stored.                                        *)
SendStoresAll(store, id, type, rand) ==
    add(store, id, IF type = "CON" THEN Outgoing(rand) ELSE Expiring(type))

(* CoAPMessageStore::send(): NON messages are not stored.                  *)
send(store, id, type, rand) ==
    CASE type = "CON" -> add(store, id, Outgoing(rand))
      [] type \in {"ACK", "RST"} -> add(store, id, Expiring(type))
      [] OTHER -> store

(* The three outcomes process() distinguishes for a message whose timeout  *)
(* has passed: prepare_retransmit() still allows a transmission (only for  *)
(* a confirmable message), or the message is removed.                      *)
Due(store) == {i \in Ids : has(store, i) /\ store[i].left = 0}

Resent(store) ==
    {i \in Due(store) : store[i].type = "CON" /\ store[i].count <= MaxRetransmit}

(* Mutant: requests that were never answered are kept.                     *)
ExpiredAnswers(store) == {i \in Due(store) : store[i].type # "CON"}

Expired(store) == Due(store) \ Resent(store)

(* process(): resends or removes what is due; rand gives rand() % 256 for  *)
(* every message of the list.                                              *)
process(store, rand) ==
    [i \in Ids |->
        IF i \in Expired(store) THEN NoMessage
        ELSE IF i \in Resent(store)
             THEN [type |-> "CON",
                   left |-> transmit_timeout(store[i].count, rand[i]),
                   count |-> store[i].count + 1]
             ELSE store[i]]

(* Mutant: a request that timed out does not close the channel.            *)
NeverCloses(store) == FALSE

(* message_timeout(): a request (here a CON) that times out closes the     *)
(* channel; an answer that has been kept long enough just disappears.      *)
ClosesChannel(store) == \E i \in Expired(store) : store[i].type = "CON"

(* One unit of time passes.                                                *)
Elapse(store) ==
    [i \in Ids |->
        [store[i] EXCEPT !.left = IF @ = 0 THEN 0 ELSE @ - 1]]
=============================================================================
