------------------------------- MODULE TxQueue -------------------------------
(***************************************************************************)
(* What the transmit scheduler promises, without slots, versions, sequence *)
(* numbers or counters: a short queue of realtime items that leaves in     *)
(* order, a mailbox per report, a bounded burst and taking turns.          *)
(* BtTxScheduler implements it; Bridge is built on it.                     *)
(***************************************************************************)
EXTENDS Integers, Sequences

CONSTANTS
    Depth,       \* realtime items the queue holds
    Burst,       \* realtime items in a row while a report waits
    BurstCap,    \* where the count of realtime items in a row stops
    Nothing      \* no item

ASSUME TxQueueAssumption == 
    /\ Depth \in Nat \ {0}
    /\ Burst \in Nat \ {0} /\ BurstCap \in Nat /\ Burst <= BurstCap

VARIABLES
    queue,       \* realtime items, oldest first
    mail,        \* mailbox -> item, or Nothing
    burst,       \* realtime items since a report was sent
    turn,        \* the mailbox that goes first
    chosen       \* class and item of the selection that is held

queueVars == <<queue, mail, burst, turn, chosen>>

Boxes == {"STATE31", "STATE32"}
OtherBox(c) == IF c = "STATE31" THEN "STATE32" ELSE "STATE31"
TxClasses == {"REALTIME"} \cup Boxes
NoChoice == [class |-> "NONE", item |-> Nothing]

QueueInit ==
    /\ queue = <<>>
    /\ mail = [c \in Boxes |-> Nothing]
    /\ burst = 0
    /\ turn = "STATE31"
    /\ chosen = NoChoice

Empty ==
    /\ queue' = <<>>
    /\ mail' = [c \in Boxes |-> Nothing]
    /\ burst' = 0
    /\ turn' = "STATE31"

Clear == Empty /\ UNCHANGED chosen

FaultEnqueueWhenFull(x) ==
    /\ queue' = Append(queue, x)
    /\ UNCHANGED <<mail, burst, turn, chosen>>
Enqueue(x) ==
    /\ Len(queue) < Depth
    /\ queue' = Append(queue, x)
    /\ UNCHANGED <<mail, burst, turn, chosen>>

(* A full queue loses its oldest item.                                     *)
Push(x) ==
    /\ queue' = IF Len(queue) < Depth THEN Append(queue, x) ELSE Append(Tail(queue), x)
    /\ UNCHANGED <<mail, burst, turn, chosen>>

Post(c, x) ==
    /\ mail' = [mail EXCEPT ![c] = x]
    /\ UNCHANGED <<queue, burst, turn, chosen>>

(* Some items expire, then the head of the queue or a waiting report is    *)
(* chosen; Expired is the set of positions that expire.                    *)
Kept(expired) ==
    LET keep[i \in 0 .. Len(queue)] ==
            IF i = 0 THEN <<>>
            ELSE IF i \in expired THEN keep[i - 1]
            ELSE Append(keep[i - 1], queue[i])
    IN  keep[Len(queue)]

WaitingBoxes(eligible) == {c \in Boxes \cap eligible : mail[c] # Nothing}

FaultRealtimeAlways(eligible, live) == "REALTIME" \in eligible /\ live # <<>>
RealtimeGoes(eligible, live) ==
    /\ "REALTIME" \in eligible /\ live # <<>>
    /\ burst < Burst \/ WaitingBoxes(eligible) = {}

Choice(eligible, live) ==
    LET waiting == WaitingBoxes(eligible)
        c == IF turn \in waiting THEN turn ELSE OtherBox(turn)
    IN  IF RealtimeGoes(eligible, live)
        THEN [class |-> "REALTIME", item |-> Head(live)]
        ELSE IF waiting # {} THEN [class |-> c, item |-> mail[c]]
        ELSE NoChoice

ChooseNext(eligible, expired) ==
    /\ queue' = Kept(expired)
    /\ chosen' = Choice(eligible, Kept(expired))
    /\ UNCHANGED <<mail, burst, turn>>

(* The chosen item leaves if it is still there; a report that was sent     *)
(* ends the burst and passes the turn on.                                  *)
ChosenIsThere ==
    IF chosen.class = "REALTIME"
    THEN queue # <<>> /\ Head(queue) = chosen.item
    ELSE chosen.class \in Boxes /\ mail[chosen.class] = chosen.item

Take(sent) ==
    IF chosen.class = "REALTIME"
    THEN /\ queue' = Tail(queue)
         /\ burst' = IF burst < BurstCap THEN burst + 1 ELSE burst
         /\ UNCHANGED <<mail, turn>>
    ELSE /\ mail' = [mail EXCEPT ![chosen.class] = Nothing]
         /\ IF sent THEN burst' = 0 /\ turn' = OtherBox(chosen.class)
                    ELSE UNCHANGED <<burst, turn>>
         /\ UNCHANGED queue

Settle(taken, sent) ==
    /\ chosen # NoChoice
    /\ IF taken /\ ChosenIsThere THEN Take(sent) ELSE UNCHANGED <<queue, mail, burst, turn>>
    /\ chosen' \in {chosen, NoChoice}

QueueNext(Items) ==
    \/ Clear
    \/ \E x \in Items : Enqueue(x) \/ Push(x) \/ \E c \in Boxes : Post(c, x)
    \/ \E eligible \in SUBSET TxClasses, expired \in SUBSET (1 .. Len(queue)) :
          ChooseNext(eligible, expired)
    \/ \E taken, sent \in BOOLEAN : Settle(taken, sent)
=============================================================================
