------------------------------ MODULE HintBus ------------------------------
(***************************************************************************)
(* How connected devices hear of changes: hint_after_change and the bus of *)
(* crates/sync/src/lib.rs, and the websocket of routes/sync_routes.rs.     *)
(*                                                                         *)
(* A handler announces its change when it has given the write lock back:   *)
(* it reads the end of the log and publishes that, so hints may overtake   *)
(* each other.  The websocket reads the end of the log for its greeting    *)
(* and subscribes later.  The channel of a workspace holds so many hints   *)
(* and loses the oldest for a reader that is slow.  All of it is in memory *)
(* and gone after a restart.                                               *)
(*                                                                         *)
(* What a change does under the lock is the matter of MemoStore, SyncPush  *)
(* and Workspace; here it is one step, the row it appends to the log.      *)
(***************************************************************************)
EXTENDS Naturals, Sequences, FiniteSets

CONSTANTS
    Call,        \* requests that change the workspace
    Device,
    Capacity,    \* of the broadcast channel: 256
    MaxRows,     \* a bound on the log
    MaxGreetings,\* a bound on connections
    MaxZeros     \* a bound on hints without a cursor

ASSUME HintAssumption ==
    /\ Capacity \in Nat \ {0}
    /\ MaxRows \in Nat /\ MaxGreetings \in Nat /\ MaxZeros \in Nat
    /\ IsFiniteSet(Call)

VARIABLES
    last,       \* the last id of sync_changes
    pc, req,    \* what a call has to announce
    link,       \* the websocket of each device
    heard,      \* the greatest cursor a device was told on this connection
    greetings, zeros,
    due,        \* history: rows each device has to be told, being appended since its
                \*   greeting by a call that will announce them
    crowded     \* history: those of them a full channel has lost the last hint of

busVars == <<last, pc, req, link, heard, greetings, zeros, due, crowded>>

-----------------------------------------------------------------------------
(* Values. *)

\* row: the one it logged; cursor: the end of the log as it read it.
RequestRow == [row : Nat, cursor : Nat]
NoRequest == [row |-> 0, cursor |-> 0]

LinkRow == [state : {"off", "greeted", "on"}, queue : Seq(Nat)]
Off == [state |-> "off", queue |-> << >>]

Greater(i, j) == IF i < j THEN j ELSE i

-----------------------------------------------------------------------------
BusInit ==
    /\ last = 0
    /\ pc = [c \in Call |-> "idle"]
    /\ req = [c \in Call |-> NoRequest]
    /\ link = [d \in Device |-> Off]
    /\ heard = [d \in Device |-> 0]
    /\ greetings = 0
    /\ zeros = 0
    /\ due = [d \in Device |-> {}]
    /\ crowded = [d \in Device |-> {}]

-----------------------------------------------------------------------------
(* Requests. *)

\* The route of a memo, a todo or a push appends its row and goes on to announce it.
ChangeAndTell(c) ==
    /\ pc[c] = "idle"
    /\ last < MaxRows
    /\ last' = last + 1
    /\ pc' = [pc EXCEPT ![c] = "hint"]
    /\ req' = [req EXCEPT ![c].row = last + 1]
    /\ due' = [d \in Device |-> IF link[d].state = "off" THEN {} ELSE due[d] \union {last + 1}]
    /\ UNCHANGED <<link, heard, greetings, zeros, crowded>>

\* The routes of notebooks, the batches, restore, merge and a push that is given up
\* announce nothing.
ChangeSilently ==
    /\ last < MaxRows
    /\ last' = last + 1
    /\ UNCHANGED <<pc, req, link, heard, greetings, zeros, due, crowded>>

End(c) ==
    /\ pc' = [pc EXCEPT ![c] = "idle"]
    /\ req' = [req EXCEPT ![c] = NoRequest]

\* The row of a call is announced to nobody in these states.
NotTold(c, states) ==
    due' = [d \in Device |-> IF link[d].state \in states THEN due[d] \ {req[c].row} ELSE due[d]]

\* Mutant of EndOfLog: the call announces the row before its own.
EndOfLogBefore(c) == req[c].row - 1

\* max_cursor, as the call finds it.
EndOfLog(c) == last

\* hint_after_change: the cursor, or 0 when it cannot be read.
ReadCursor(c) ==
    /\ pc[c] = "hint"
    /\ pc' = [pc EXCEPT ![c] = "publish"]
    /\ \/ req' = [req EXCEPT ![c].cursor = EndOfLog(c)] /\ UNCHANGED <<zeros, due>>
       \/ /\ zeros < MaxZeros
          /\ zeros' = zeros + 1
          /\ NotTold(c, {"greeted", "on"})
          /\ UNCHANGED req
    /\ UNCHANGED <<last, link, heard, greetings, crowded>>

\* Mutant of Sent: a full channel takes no more.
SentDropsNewest(queue, cursor) ==
    IF Len(queue) = Capacity THEN queue ELSE Append(queue, cursor)

\* Mutant of Sent: the channel grows with a reader that is slow.
SentAll(queue, cursor) == Append(queue, cursor)

\* A full channel loses its oldest hint; a reader that lagged goes on with the next.
Sent(queue, cursor) ==
    Append(IF Len(queue) = Capacity THEN Tail(queue) ELSE queue, cursor)

\* Rows that nothing tells of any more when call c sends its hint: the channel is full
\* and loses the last hint of them, those behind it being older, and no call is left
\* that will announce them.
CrowdedOut(d, c) ==
    LET queue == link[d].queue IN
    {i \in due[d] : /\ Len(queue) = Capacity
                    /\ i <= Head(queue)
                    /\ \A k \in DOMAIN queue : k # 1 => queue[k] < i
                    /\ req[c].cursor < i
                    /\ \A g \in Call \ {c} : req[g].row # i}

\* Mutant of Publish: the call may send its hint again.
PublishRepeats(c) ==
    /\ pc[c] = "publish"
    /\ link' = [d \in Device |->
            IF link[d].state = "on"
            THEN [link[d] EXCEPT !.queue = Sent(@, req[c].cursor)] ELSE link[d]]
    /\ crowded' = [d \in Device |->
            IF link[d].state = "on"
            THEN {i \in crowded[d] : req[c].cursor < i} \union CrowdedOut(d, c)
            ELSE crowded[d]]
    /\ NotTold(c, {"greeted"})
    /\ End(c) \/ UNCHANGED <<pc, req>>
    /\ UNCHANGED <<last, heard, greetings, zeros>>

\* To those on the bus; a device that is greeted and not yet subscribed misses it.
Publish(c) ==
    /\ pc[c] = "publish"
    /\ link' = [d \in Device |->
            IF link[d].state = "on"
            THEN [link[d] EXCEPT !.queue = Sent(@, req[c].cursor)] ELSE link[d]]
    /\ crowded' = [d \in Device |->
            IF link[d].state = "on"
            THEN {i \in crowded[d] : req[c].cursor < i} \union CrowdedOut(d, c)
            ELSE crowded[d]]
    /\ NotTold(c, {"greeted"})
    /\ End(c)
    /\ UNCHANGED <<last, heard, greetings, zeros>>

\* The connection closes and the handler is dropped.
Drop(c) ==
    /\ pc[c] # "idle"
    /\ End(c)
    /\ NotTold(c, {"greeted", "on"})
    /\ UNCHANGED <<last, link, heard, greetings, zeros, crowded>>

-----------------------------------------------------------------------------
(* The websocket. *)

\* handle_ws reads max_cursor and sends it in the SyncHello.
Greet(d) ==
    /\ link[d].state = "off"
    /\ greetings < MaxGreetings
    /\ greetings' = greetings + 1
    /\ link' = [link EXCEPT ![d].state = "greeted"]
    /\ heard' = [heard EXCEPT ![d] = last]
    /\ UNCHANGED <<last, pc, req, zeros, due, crowded>>

Subscribe(d) ==
    /\ link[d].state = "greeted"
    /\ link' = [link EXCEPT ![d].state = "on"]
    /\ UNCHANGED <<last, pc, req, heard, greetings, zeros, due, crowded>>

\* A hint goes to the device, which keeps the greatest cursor it was told.
Forward(d) ==
    LET told == Greater(heard[d], Head(link[d].queue)) IN
    /\ link[d].state = "on"
    /\ link[d].queue # << >>
    /\ heard' = [heard EXCEPT ![d] = told]
    /\ due' = [due EXCEPT ![d] = {i \in @ : told < i}]
    /\ crowded' = [crowded EXCEPT ![d] = {i \in @ : told < i}]
    /\ link' = [link EXCEPT ![d].queue = Tail(@)]
    /\ UNCHANGED <<last, pc, req, greetings, zeros>>

\* The socket is closed by either side.
Disconnect(d) ==
    /\ link[d].state # "off"
    /\ link' = [link EXCEPT ![d] = Off]
    /\ heard' = [heard EXCEPT ![d] = 0]
    /\ due' = [due EXCEPT ![d] = {}]
    /\ crowded' = [crowded EXCEPT ![d] = {}]
    /\ UNCHANGED <<last, pc, req, greetings, zeros>>

\* The server goes down and comes up: of all this the log is left.
BusRestart ==
    /\ \E d \in Device : link[d].state # "off"
    /\ pc' = [c \in Call |-> "idle"]
    /\ req' = [c \in Call |-> NoRequest]
    /\ link' = [d \in Device |-> Off]
    /\ heard' = [d \in Device |-> 0]
    /\ due' = [d \in Device |-> {}]
    /\ crowded' = [d \in Device |-> {}]
    /\ UNCHANGED <<last, greetings, zeros>>

-----------------------------------------------------------------------------
CallStep(c) == ReadCursor(c) \/ Publish(c)
LinkStep(d) == Subscribe(d) \/ Forward(d)

BusNext ==
    \/ \E c \in Call : ChangeAndTell(c) \/ CallStep(c) \/ Drop(c)
    \/ ChangeSilently
    \/ \E d \in Device : Greet(d) \/ LinkStep(d) \/ Disconnect(d)
    \/ BusRestart

\* Handlers and websockets are polled until they end.
BusSpec ==
    /\ BusInit /\ [][BusNext]_busVars
    /\ \A c \in Call : WF_busVars(CallStep(c))
    /\ \A d \in Device : WF_busVars(LinkStep(d))

-----------------------------------------------------------------------------
(* Properties. *)

\* Every call and websocket has its type, a queue holds no more than the channel, and no
\* cursor is past the log.
BusTypeOK ==
    /\ last \in Nat /\ greetings \in Nat /\ zeros \in Nat
    /\ pc \in [Call -> {"idle", "hint", "publish"}]
    /\ req \in [Call -> RequestRow]
    /\ link \in [Device -> LinkRow]
    /\ heard \in [Device -> 0 .. last]
    /\ due \in [Device -> SUBSET (1 .. last)]
    /\ crowded \in [Device -> SUBSET (1 .. last)]
    /\ \A d \in Device :
        /\ crowded[d] \subseteq due[d]
        /\ Len(link[d].queue) <= Capacity
        /\ \A k \in DOMAIN link[d].queue : link[d].queue[k] <= last

\* A device on the bus is told of every change that a call announces: the hint is being
\* made, or waits in the queue, or one does that says more, however hints overtake each
\* other and whatever a full channel loses.  Not announced are the changes of routes
\* without a hint, of calls dropped or failing before it, and those announced between
\* the greeting and the subscription; and the rows crowded out, until the next hint.
EveryRowIsAnnounced ==
    \A d \in Device : \A i \in due[d] \ crowded[d] :
        \/ \E c \in Call : req[c].row = i
        \/ \E k \in DOMAIN link[d].queue : i <= link[d].queue[k]

Blank(queue) == {k \in DOMAIN queue : queue[k] = 0}

\* A full channel loses the last hint of a row only to hints without a cursor and to those
\* of calls that had read theirs before the row was there, one for a call: so that the
\* calls at work and the hints without a cursor in the channel are more than its places.
CrowdingTakesMany ==
    [][\A d \in Device : ~ (crowded'[d] \subseteq crowded[d]) =>
            Capacity < Cardinality(Blank(link'[d].queue)) + Cardinality(Call)]_busVars

\* A device that stays connected is told of every row that is announced and not crowded
\* out of the channel.
IsTold == \A d \in Device : []<>(due[d] \subseteq crowded[d])
=============================================================================
