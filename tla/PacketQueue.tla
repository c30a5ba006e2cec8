----------------------------- MODULE PacketQueue -----------------------------
(***************************************************************************)
(* What SnifferAPI/Sniffer.py promises the user of getPackets: a queue of  *)
(* packets.  Every packet is put into it once; a call takes the oldest of  *)
(* them, or all, in a single step, whatever comes in before it returns.    *)
(* A queue longer than Limit loses its oldest Cut packets to the next one. *)
(***************************************************************************)
EXTENDS Integers, Sequences

CONSTANTS Limit,     (* the queue is cut when it is longer                *)
          Cut,       (* the packets cut off                               *)
          Numbers    (* the arguments of the calls                        *)

VARIABLES arrived,   (* the packets put so far                            *)
          queue,     (* those not taken and not cut off                   *)
          calling,   (* a call is under way                               *)
          returned   (* what it is going to return                        *)

queueVars == <<arrived, queue, calling, returned>>

QueueInit == /\ arrived = {}
             /\ queue = <<>>
             /\ calling = FALSE
             /\ returned = <<>>

Kept == IF Len(queue) > Limit THEN SubSeq(queue, Cut + 1, Len(queue)) ELSE queue

Put == /\ \E p \in arrived' \ arrived : /\ arrived' = arrived \cup {p}
                                        /\ queue' = Append(Kept, p)
       /\ UNCHANGED <<calling, returned>>

(* The n oldest packets are taken.                                         *)
TakeOldest(n) == /\ ~calling
                 /\ calling' = TRUE
                 /\ returned' = SubSeq(queue, 1, n)
                 /\ queue' = SubSeq(queue, n + 1, Len(queue))
                 /\ UNCHANGED arrived

(* Sniffer.py:77 "Get [number] number of packets since last fetch (-1      *)
(* means all)".  If there are not as many all are taken; of other negative *)
(* numbers nothing is said.                                                *)
All == -1
Asked(k, n) == n = k \/ (n = Len(queue) /\ (k = All \/ n < k))
Take(k) == \E n \in 0..Len(queue) : Asked(k, n) /\ TakeOldest(n)

(* No step of the queue: the k newest packets are left.                    *)
TakeAllBut(k) == \E n \in 0..Len(queue) : /\ n + k = Len(queue) \/ (n = 0 /\ Len(queue) < k)
                                          /\ TakeOldest(n)

Return == /\ calling
          /\ calling' = FALSE
          /\ returned' = <<>>
          /\ UNCHANGED <<arrived, queue>>

QueueNext == Put \/ (\E k \in Numbers : Take(k)) \/ Return

QueueSpec == QueueInit /\ [][QueueNext]_queueVars
=============================================================================
