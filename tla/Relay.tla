-------------------------------- MODULE Relay --------------------------------
(***************************************************************************)
(* The websocket connection manager of one bridge process (wbcm/) and the  *)
(* tick service it runs on.  The manager lives on a thread of its own: it  *)
(* reads the redis stream, looks up the connections a message is for and   *)
(* schedules the write, or the close, on the loop of the web server.  The  *)
(* web server's thread changes the same two tables meanwhile, without a    *)
(* lock: the interpreter may switch threads between any two steps here.    *)
(* A connection is told apart by its uid, and users stand for devices as   *)
(* well, whose tables (DeviceConnections) are the same code again.         *)
(***************************************************************************)
EXTENDS Integers, Sequences, SequencesExt, FiniteSets

CONSTANTS
  Conns, Users,
  None,
  Messages,      \* session_revoked, a message for one user, one for everybody, one work() drops
  MaxMessages,   \* length of the stream
  ReadCount,     \* messages per XREAD (500)
  MaxFaults      \* reads that raise

ASSUME RelayAssumption ==
  /\ None \notin Conns \cup Users
  /\ Messages \subseteq [type : {"revoke", "user"}, user : Users, source : Conns \cup {None}]
                         \cup [type : {"all", "bad"}, user : {None}, source : Conns \cup {None}]
  /\ MaxMessages \in Nat /\ ReadCount \in Nat \ {0} /\ MaxFaults \in Nat

VARIABLES
  stream,   \* the redis stream
  sock,     \* sock[c]: "new", "open", "closing" (the server asked for it), "closed"
  reg,      \* keys of UserConnections.user_connections
  list,     \* UserConnections.user_id_map; a user without a list has <<>>
  calls,    \* calls[c]: call_soon_threadsafe: "close" or the number of a message
  mgr,      \* the manager's thread
  proc,     \* the end of the process: child_process_initializer
  sd,       \* TickService.shutdown, as a task of the manager's loop
  faults,
  times     \* history: times[i]: how often message i was worked on

relayVars == <<stream, sock, reg, list, calls, mgr, proc, sd, faults, times>>
web == <<sock, reg, list>>

RelayInit ==
  /\ stream = <<>>
  /\ sock = [c \in Conns |-> "new"] /\ reg = {} /\ list = [u \in Users |-> <<>>]
  /\ calls = [c \in Conns |-> <<>>]
  /\ mgr = [pc |-> "off", pos |-> -1, next |-> 0, to |-> 0, at |-> 0, gone |-> FALSE, conn |-> None, found |-> <<>>,
            held |-> {}, skipped |-> {}]
  /\ proc = "up" /\ sd = [event |-> FALSE, pc |-> "none"]
  /\ faults = 0
  /\ times = [i \in 1..MaxMessages |-> 0]

\* Another process writes to the stream.
Publish(msg) ==
  /\ Len(stream) < MaxMessages /\ ~sd.event
  /\ stream' = Append(stream, msg)
  /\ UNCHANGED <<web, calls, mgr, proc, sd, faults, times>>

-----------------------------------------------------------------------------
(* The web server's thread *)

\* unassign_connection: out of every list but that of u; an empty list is deleted.
Without(c, u) == [v \in Users |-> IF v = u THEN list[v] ELSE RemoveFirst(list[v], c)]

\* list.remove under the walk: when an entry behind the manager's index leaves, the one the
\* index points at moves behind it.
SteppedOver(l, n, c) ==
  IF Len(n) < Len(l) /\ mgr.at <= Len(l) /\ \E k \in 1..Len(l) : k < mgr.at /\ l[k] = c
  THEN {l[mgr.at]} ELSE {}

\* The manager that walks a list goes on in that list object, which stays empty once it was
\* deleted.  History: held, who was in the list at every look; skipped, who was stepped over.
Walking == mgr.pc \in {"collect", "fetch"}
Walked(c, new) ==
  IF Walking /\ stream[mgr.next].user # None
  THEN LET u == stream[mgr.next].user
       IN  [mgr EXCEPT !.gone = @ \/ new[u] = <<>>, !.held = @ \cap ToSet(new[u]),
                       !.skipped = @ \cup SteppedOver(list[u], new[u], c)]
  ELSE mgr

\* The socket has its uid and the process lives.
Live(c) == sock[c] \in {"open", "closing"} /\ proc \notin {"closed", "raised"}

\* Mutant: the connection stays in the list of the user it was assigned before.
AssignUserIdBeside(c, u) ==
  LET new == [list EXCEPT ![u] = IF c \in ToSet(@) THEN @ ELSE Append(@, c)]
  IN  /\ Live(c)
      /\ list' = new /\ mgr' = Walked(c, new)
      /\ UNCHANGED <<stream, sock, reg, calls, proc, sd, faults, times>>

\* assign_user_id
AssignUserId(c, u) ==
  LET new == [Without(c, u) EXCEPT ![u] = IF c \in ToSet(@) THEN @ ELSE Append(@, c)]
  IN  /\ Live(c)
      /\ list' = new /\ mgr' = Walked(c, new)
      /\ UNCHANGED <<stream, sock, reg, calls, proc, sd, faults, times>>

\* open(): add_connection
AddConnection(c) ==
  /\ sock[c] = "new" /\ proc = "up"
  /\ sock' = [sock EXCEPT ![c] = "open"] /\ reg' = reg \cup {c}
  /\ UNCHANGED <<stream, list, calls, mgr, proc, sd, faults, times>>

\* _clear_current_user, and on_close: remove_connection.
UnassignConnection(c) ==
  /\ list' = Without(c, None) /\ mgr' = Walked(c, Without(c, None))
  /\ UNCHANGED <<stream, calls, proc, sd, faults, times>>

ClearUser(c) == Live(c) /\ list # Without(c, None) /\ UnassignConnection(c) /\ UNCHANGED <<sock, reg>>

OnClose(c) ==
  /\ Live(c)
  /\ sock' = [sock EXCEPT ![c] = "closed"] /\ reg' = reg \ {c}
  /\ UnassignConnection(c)

\* The loop runs what the manager scheduled: close(), or write_custom_message(), which
\* drops the message when the socket is closing.
RunCall(c) ==
  /\ calls[c] # <<>> /\ proc \notin {"closed", "raised"}
  /\ calls' = [calls EXCEPT ![c] = Tail(@)]
  /\ sock' = [sock EXCEPT ![c] = IF Head(calls[c]) = 0 /\ @ = "open" THEN "closing" ELSE @]
  /\ UNCHANGED <<stream, reg, list, mgr, proc, sd, faults, times>>

-----------------------------------------------------------------------------
(* The manager's thread: run_loop, tick, process_messages, work *)

Manages(m) == mgr' = m /\ UNCHANGED <<stream, web, proc, sd>>
Idle(m) == [m EXCEPT !.pc = "wait", !.next = 0, !.to = 0, !.at = 0, !.gone = FALSE, !.conn = None, !.found = <<>>,
                     !.held = {}, !.skipped = {}]
Quiet == UNCHANGED <<calls, faults, times>>

\* Mutant: goes on once more after the shutdown.
LoopsAnyway == mgr.pc \in {"off", "wait"} /\ Manages([mgr EXCEPT !.pc = "tick"]) /\ Quiet

\* run_loop: unless the event is set there is another tick.
Loops == mgr.pc \in {"off", "wait"} /\ Manages([mgr EXCEPT !.pc = IF sd.event THEN "ended" ELSE "tick"]) /\ Quiet

\* XREAD blocks at the position; "$" (-1) stands for the end of the stream as of now.
ReadStarts ==
  /\ mgr.pc = "tick"
  /\ Manages([mgr EXCEPT !.pc = "read", !.next = 1 + IF mgr.pos = -1 THEN Len(stream) ELSE mgr.pos])
  /\ Quiet

\* Mutant: takes every answer for a full one.
ReadReturnsFull ==
  /\ mgr.pc = "read" /\ Len(stream) >= mgr.next
  /\ Manages([mgr EXCEPT !.pc = "work", !.to = mgr.next + ReadCount - 1])
  /\ Quiet

\* The messages after the position, ReadCount at most.
ReadReturns ==
  /\ mgr.pc = "read" /\ Len(stream) >= mgr.next
  /\ LET last == mgr.next + ReadCount - 1
     IN  Manages([mgr EXCEPT !.pc = "work", !.to = IF Len(stream) < last THEN Len(stream) ELSE last])
  /\ Quiet

ReadTimesOut == mgr.pc = "read" /\ Len(stream) < mgr.next /\ Manages(Idle(mgr)) /\ Quiet

ReadFails ==
  /\ mgr.pc \in {"tick", "read"} /\ faults < MaxFaults
  /\ faults' = faults + 1
  /\ Manages(Idle(mgr)) /\ UNCHANGED <<calls, times>>

\* Mutant: a message that raised does not move the position.
AdvanceUnless(m, raised) ==
  LET done == [m EXCEPT !.pos = IF raised THEN @ ELSE m.next]
  IN  Manages(IF m.next = m.to THEN Idle(done)
              ELSE [Idle(done) EXCEPT !.pc = "work", !.next = m.next + 1, !.to = m.to])

\* The position moves, whether the message was delivered, dropped or raised.
Advance(m, raised) ==
  LET done == [m EXCEPT !.pos = m.next]
  IN  Manages(IF m.next = m.to THEN Idle(done)
              ELSE [Idle(done) EXCEPT !.pc = "work", !.next = m.next + 1, !.to = m.to])

\* work(): who the message is for.
Work ==
  LET msg == stream[mgr.next]
  IN  /\ mgr.pc = "work"
      /\ times' = [times EXCEPT ![mgr.next] = @ + 1]
      /\ IF msg.type = "all"
         THEN Manages([mgr EXCEPT !.pc = "send", !.found = SetToSeq(reg)])
         ELSE IF msg.type = "bad" \/ list[msg.user] = <<>>
         THEN Advance(mgr, FALSE)
         ELSE Manages([mgr EXCEPT !.pc = "collect", !.at = 1, !.held = ToSet(list[msg.user])])
      /\ UNCHANGED <<calls, faults>>

\* get_connections_by_user_id walks the live list ...
Collect ==
  LET l == list[stream[mgr.next].user]
  IN  /\ mgr.pc = "collect"
      /\ Manages(IF mgr.gone \/ mgr.at > Len(l) THEN [mgr EXCEPT !.pc = "send"]
                 ELSE IF l[mgr.at] \in reg THEN [mgr EXCEPT !.pc = "fetch", !.conn = l[mgr.at], !.at = @ + 1]
                 ELSE [mgr EXCEPT !.at = @ + 1])
      /\ Quiet

\* ... and reads the table again: KeyError when the connection left it in between.
Fetch ==
  /\ mgr.pc = "fetch"
  /\ IF mgr.conn \in reg
     THEN Manages([mgr EXCEPT !.pc = "collect", !.found = Append(@, mgr.conn), !.conn = None])
     ELSE Advance(mgr, TRUE)
  /\ Quiet

\* Mutant: the loop ends at the source.
SendUpToSource ==
  LET msg == stream[mgr.next]
      c == Head(mgr.found)
  IN  /\ mgr.pc = "send"
      /\ IF mgr.found = <<>> THEN Advance(mgr, FALSE) /\ UNCHANGED calls
         ELSE IF c = msg.source THEN Manages([mgr EXCEPT !.found = <<>>]) /\ UNCHANGED calls
         ELSE /\ Manages([mgr EXCEPT !.found = Tail(@)])
              /\ calls' = [calls EXCEPT ![c] = Append(@, IF msg.type = "revoke" THEN 0 ELSE mgr.next)]
      /\ UNCHANGED <<faults, times>>

\* send_message, send_message_to_all, close_sessions: all but the source.
Send ==
  LET msg == stream[mgr.next]
      c == Head(mgr.found)
  IN  /\ mgr.pc = "send"
      /\ IF mgr.found = <<>> THEN Advance(mgr, FALSE) /\ UNCHANGED calls
         ELSE /\ Manages([mgr EXCEPT !.found = Tail(@)])
              /\ calls' = IF c = msg.source /\ sock[c] # "closed" THEN calls
                          ELSE [calls EXCEPT ![c] = Append(@, IF msg.type = "revoke" THEN 0 ELSE mgr.next)]
      /\ UNCHANGED <<faults, times>>

-----------------------------------------------------------------------------
(* The end: stop_loop on the web server's loop, shutdown on the manager's *)

Ends(p, s) == proc' = p /\ sd' = s /\ UNCHANGED <<stream, web, calls, faults, times>>

\* cm.stop(): the manager's loop is asked, or, when it never started, only the event is set.
StopLoop ==
  /\ proc = "up"
  /\ IF mgr.pc = "off" THEN Ends("join", [sd EXCEPT !.event = TRUE]) ELSE Ends("stop", [sd EXCEPT !.pc = "called"])
  /\ UNCHANGED mgr

\* TickService.shutdown up to its await, at an await of the loop: the event, the callback
\* (every socket is told to close, the tables are emptied), and the cancellation, which ends
\* run_loop from the read and from the sleep.
Shutdown ==
  /\ sd.pc = "called" /\ mgr.pc \in {"tick", "read", "wait", "ended"}
  /\ sd' = [event |-> TRUE, pc |-> "gather"]
  /\ calls' = [c \in Conns |-> IF c \in reg THEN Append(calls[c], 0) ELSE calls[c]]
  /\ reg' = {} /\ list' = [u \in Users |-> <<>>]
  /\ mgr' = [Idle(mgr) EXCEPT !.pc = "ended"]
  /\ UNCHANGED <<stream, sock, proc, faults, times>>

\* The loop ends with its main task.  Its runner cancels what is left of shutdown, unless
\* the event loop resumed it in the same turn.
Gathered ==
  /\ sd.pc = "gather" /\ mgr.pc = "ended"
  /\ \E p \in {"done", "cancelled"} : Ends(proc, [sd EXCEPT !.pc = p])
  /\ UNCHANGED mgr

\* stop_loop goes on: with the result, or after its timeout, or it raises CancelledError,
\* which leaves the finally block of child_process_initializer.
Stopped ==
  /\ proc = "stop"
  /\ Ends(IF sd.pc = "cancelled" THEN "raised" ELSE "join", sd)
  /\ UNCHANGED mgr

\* The thread ended or its ten seconds are over; then the pools are closed.
Joined == proc = "join" /\ Ends("closed", sd) /\ UNCHANGED mgr

Manager == Loops \/ ReadStarts \/ ReadReturns \/ ReadTimesOut \/ Work \/ Collect \/ Fetch \/ Send
Process == Shutdown \/ Gathered \/ Stopped \/ Joined

RelayNext ==
  \/ \E msg \in Messages : Publish(msg)
  \/ \E c \in Conns : AddConnection(c) \/ ClearUser(c) \/ OnClose(c) \/ RunCall(c)
  \/ \E c \in Conns, u \in Users : AssignUserId(c, u)
  \/ Manager \/ ReadFails \/ StopLoop \/ Process

RelaySpec == RelayInit /\ [][RelayNext]_relayVars
RelayFairSpec == RelaySpec /\ WF_relayVars(Manager) /\ WF_relayVars(Process)

-----------------------------------------------------------------------------
(* Properties *)

\* The shape of the state.
RelayTypeOK ==
  /\ mgr.pc \in {"off", "tick", "read", "work", "collect", "fetch", "send", "wait", "ended"}
  /\ mgr.pos \in -1..Len(stream) /\ mgr.next \in 0..(Len(stream) + 1) /\ mgr.to <= Len(stream)
  /\ mgr.pc = "work" => mgr.next \in 1..mgr.to
  /\ reg \subseteq Conns /\ \A u \in Users : ToSet(list[u]) \subseteq Conns
  /\ proc \in {"up", "stop", "join", "closed", "raised"}

\* process_messages: from the first message the manager reads it works on every message of
\* the stream up to its position, once each, whatever raised or failed on the way ("A raising
\* message must never hold up the stream position").
WorkedOnce ==
  /\ \A i \in 1..MaxMessages : times[i] <= 1
  /\ \A i, j \in 1..MaxMessages : i < j /\ times[i] = 1 /\ j <= mgr.pos => times[j] = 1

\* assign_user_id: "A connection belongs to exactly one user at a time", with one entry per
\* connection, and a closed one is in no list.
OneList ==
  \A c \in Conns, u \in Users :
    c \in ToSet(list[u]) => /\ sock[c] # "closed" /\ IsInjective(list[u])
                            /\ \A v \in Users : c \in ToSet(list[v]) => v = u

\* close_sessions: of the connections that were in the list of the user from the first look
\* to the last, the source apart, a revocation that sends misses only those its walk stepped
\* over, one for each connection that left the list behind the walk.
Told(c) == sock[c] # "open" \/ 0 \in ToSet(calls[c])
Sent == mgr.pc = "send" /\ mgr.found = <<>> /\ stream[mgr.next].type = "revoke"
RevokeCloses == Sent => \A c \in mgr.held \ {stream[mgr.next].source} : Told(c) \/ c \in mgr.skipped

\* The lists that the web thread changes and the manager walks without a lock: one entry for
\* a connection, and a bound on what a revocation misses.
ListsServe == RelayTypeOK /\ OneList /\ RevokeCloses

\* close_sessions: "otherwise all of the user's sockets except `source_uid`": the ones a walk
\* stepped over are not closed.
RevokeReachesAll == Sent => \A c \in mgr.held \ {stream[mgr.next].source} : Told(c)

\* Once the position is known the manager catches up with the stream, or the process is
\* ending; and then the manager's thread ends by itself.
ManagerGoesOn ==
  /\ mgr.pos > 0 ~> (mgr.pos = Len(stream) \/ proc # "up")
  /\ proc # "up" ~> mgr.pc = "ended"

\* stop_loop: "Ask the loop to stop and wait for the shutdown to finish": the cleanup of the
\* process goes on after it.
StopReturns == proc # "raised"

\* "$" = only messages arriving after startup: every message published while the manager
\* runs is worked on.
AllRelayed == \A i \in 1..MaxMessages : (Len(stream) = i /\ mgr.pc # "off") ~> (times[i] = 1 \/ proc # "up")
=============================================================================
