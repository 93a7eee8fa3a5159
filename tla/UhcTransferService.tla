------------------------- MODULE UhcTransferService -------------------------
(***************************************************************************)
(* What the host controller driver promises the Zephyr host stack about    *)
(* transfers, without threads, slots, endpoints or frames: a first-in      *)
(* first-out list whose head alone makes progress, whose stages the device *)
(* acknowledges in order, and which comes back once per submission, with   *)
(* success only if the device acknowledged every stage.                    *)
(***************************************************************************)
EXTENDS Naturals, Sequences

CONSTANTS
    Xfers,      \* the transfers
    StagesOf,   \* [Xfers -> SUBSET {"SETUP", "DATA", "STATUS"}], their stages
    Failures    \* the errors a transfer can come back with

VARIABLES
    queue,      \* the submitted transfers, oldest first
    acked,      \* [Xfers -> SUBSET Stages], what the device has acknowledged
    result      \* [Xfers -> {"none", "OK"} \cup Failures]

vars == <<queue, acked, result>>

Earlier == [SETUP |-> {}, DATA |-> {"SETUP"}, STATUS |-> {"SETUP", "DATA"}]

Queued(x) == \E k \in 1..Len(queue) : queue[k] = x

Init ==
    /\ queue = <<>>
    /\ acked = [x \in Xfers |-> {}]
    /\ result = [x \in Xfers |-> "none"]

Submit(x) ==
    /\ ~Queued(x)
    /\ queue' = Append(queue, x)
    /\ acked' = [acked EXCEPT ![x] = {}]
    /\ result' = [result EXCEPT ![x] = "none"]

\* The device acknowledges the next stage of the oldest transfer.
Acknowledge(s) ==
    /\ queue # <<>>
    /\ LET x == Head(queue) IN
       /\ s \in StagesOf[x] \ acked[x]
       /\ Earlier[s] \cap StagesOf[x] \subseteq acked[x]
       /\ acked' = [acked EXCEPT ![x] = @ \cup {s}]
    /\ UNCHANGED <<queue, result>>

\* The oldest transfer comes back.
Return(outcome) ==
    /\ queue # <<>>
    /\ outcome = "OK" => acked[Head(queue)] = StagesOf[Head(queue)]
    /\ queue' = Tail(queue)
    /\ result' = [result EXCEPT ![Head(queue)] = outcome]
    /\ UNCHANGED acked

Next ==
    \/ \E x \in Xfers : Submit(x)
    \/ \E s \in {"SETUP", "DATA", "STATUS"} : Acknowledge(s)
    \/ \E outcome \in {"OK"} \cup Failures : Return(outcome)

Spec == Init /\ [][Next]_vars
=============================================================================
