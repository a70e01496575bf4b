---------------------------- MODULE DaemonProofs ----------------------------
(***************************************************************************)
(* Machine-checked theorems about the daemon: one process can commit, a    *)
(* closed connection stays closed, an answer is true and the socket path   *)
(* leads to the process that serves.                                       *)
(***************************************************************************)
EXTENDS Daemon, TLAPS

-----------------------------------------------------------------------------
(* The inductive invariant                                                 *)

\* The steps of the main thread between bind and the removal of the socket.
Bound == {"listen", "accept", "register", "unbind", "remove"}

\* What the step of the main thread of p says of the lock, the database, the
\* listener and the socket path.
ProcessInv(p) ==
  /\ main[p] \notin {"down", "exit"} => owner = p
  /\ db[p] => main[p] \notin {"down", "open", "release", "exit"}
  /\ listening[p] => main[p] \in {"accept", "register", "unbind"}
  /\ path = p <=> main[p] \in Bound

Working(r) == r.thread \notin {"none", "over"}

\* What a row r of connection k says of its client and of the write it serves.
Fits(k, r) ==
  /\ r \in ConnState
  /\ Working(r) => r.to \in Process /\ r.client \in Client /\ r.method \in Capability
  /\ r.thread = "query" => r.method = "memory.search"
  /\ r.thread = "health" => r.method = "health"
  /\ (r.thread = "send" /\ r.result = "ok" /\ r.method = "memory.write")
       => r.client \in committed
  /\ \A c \in Client : client[c].conn = k =>
       /\ r.client = c /\ r.thread # "none"
       /\ r.thread # "over" => r.method = client[c].method
       /\ (r.reply = "ok" /\ client[c].method = "memory.write") => c \in committed

\* A client waits for an answer exactly while it has a connection.
Waits(c) == client[c].pc = "idle" <=> client[c].conn = None

IInv ==
  /\ TypeOK
  /\ \A p \in Process : ProcessInv(p)
  /\ \A k \in Conn : Fits(k, conn[k])
  /\ \A c \in Client : Waits(c)
  /\ OkMeansCommitted
  /\ ClosedAfterShutdown
-----------------------------------------------------------------------------
(* The processes                                                           *)

Pc == {"down"} \cup Starting \cup Accepting \cup Closing

\* The part of the type invariant about processes.
TypeProcess ==
  /\ owner \in Process \cup {None}
  /\ main \in [Process -> Pc]
  /\ db \in [Process -> BOOLEAN]
  /\ worker \in [Process -> [Worker -> {"off", "idle", "writing", "last"}]]
  /\ path \in Process \cup {Stale, None}
  /\ seen \in [Process -> Process \cup {Stale, None}]
  /\ listening \in [Process -> BOOLEAN]
  /\ stop \in [Process -> BOOLEAN]
  /\ crashes \in 0..MaxCrashes

\* The steps a main thread can be sent to are steps.
LEMMA GoTyped ==
  ASSUME main \in [Process -> Pc], NEW p \in Process, NEW pc \in Pc, Go(p, pc)
  PROVE  /\ main' \in [Process -> Pc] /\ main'[p] = pc
         /\ \A q \in Process : q # p => main'[q] = main[q]
  BY DEF Go

LEMMA PcIs == /\ Pc = {"down", "open", "prepare", "recheck", "unlink", "bind", "listen",
                       "accept", "register", "unbind", "remove", "close", "join",
                       "extraction", "embedding", "disconnect", "release", "stuck", "exit"}
              /\ Accepting = {"accept", "register"}
  BY DEF Pc, Starting, Accepting, Closing

\* The end of a process, whatever it was doing.
LEMMA GoneTyped ==
  ASSUME TypeProcess, NEW p \in Process, NEW inode \in Process \cup {Stale}, Gone(p, inode),
         crashes' \in 0..MaxCrashes
  PROVE  TypeProcess'
  <1>1. main' \in [Process -> Pc]
    BY GoTyped, PcIs DEF Gone, TypeProcess
  <1>2. worker' \in [Process -> [Worker -> {"off", "idle", "writing", "last"}]]
    BY DEF Gone, TypeProcess
  <1>3. seen' \in [Process -> Process \cup {Stale, None}]
    BY DEF Gone, TypeProcess
  <1>4. /\ owner' \in Process \cup {None} /\ path' \in Process \cup {Stale, None}
        /\ db' \in [Process -> BOOLEAN] /\ listening' \in [Process -> BOOLEAN]
        /\ stop' \in [Process -> BOOLEAN]
    BY DEF Gone, TypeProcess
  <1> QED BY <1>1, <1>2, <1>3, <1>4 DEF TypeProcess

LEMMA MainStepTyped ==
  ASSUME TypeProcess, NEW p \in Process, MainStep(p)
  PROVE  TypeProcess'
  <1>1. CASE Open(p)
    BY <1>1, GoTyped, PcIs DEF Open, TypeProcess
  <1>2. CASE OpenFails(p)
    BY <1>2, GoTyped, PcIs DEF OpenFails, TypeProcess
  <1>3. CASE Probe(p)
    BY <1>3, GoTyped, PcIs DEF Probe, TypeProcess
  <1>4. CASE Recheck(p)
    BY <1>4, GoTyped, PcIs DEF Recheck, TypeProcess
  <1>5. CASE UnlinkStale(p)
    BY <1>5, GoTyped, PcIs DEF UnlinkStale, TypeProcess
  <1>6. CASE Bind(p)
    BY <1>6, GoTyped, PcIs DEF Bind, TypeProcess
  <1>7. CASE Listen(p)
    <2>1. PICK pc \in {"accept", "close"} : Go(p, pc)
      BY <1>7 DEF Listen
    <2>2. listening' \in [Process -> BOOLEAN]
      BY <1>7 DEF Listen, TypeProcess
    <2> QED BY <1>7, <2>1, <2>2, GoTyped, PcIs DEF Listen, TypeProcess
  <1>8. CASE StopAccepting(p)
    BY <1>8, GoTyped, PcIs DEF StopAccepting, TypeProcess
  <1>9. CASE CloseListener(p)
    BY <1>9, GoTyped, PcIs DEF CloseListener, TypeProcess
  <1>10. CASE UnlinkOwned(p) \/ ListenFails(p)
    BY <1>10, GoTyped, PcIs DEF UnlinkOwned, ListenFails, TypeProcess
  <1>11. CASE CloseClients(p)
    BY <1>11, GoTyped, PcIs DEF CloseClients, TypeProcess
  <1>12. CASE Join(p)
    BY <1>12, GoTyped, PcIs DEF Join, TypeProcess
  <1>13. ASSUME NEW w, NEW then \in {"embedding", "disconnect"}, StopWorker(p, w, then)
         PROVE  TypeProcess'
    <2>1. PICK pc \in {"embedding", "disconnect", "stuck"} : Go(p, pc)
      BY <1>13 DEF StopWorker
    <2>2. worker' \in [Process -> [Worker -> {"off", "idle", "writing", "last"}]]
      BY SMTT(30), <1>13 DEF StopWorker, TypeProcess
    <2> QED BY <1>13, <2>1, <2>2, GoTyped, PcIs DEF StopWorker, TypeProcess
  <1>14. CASE Disconnect(p)
    BY <1>14, GoTyped, PcIs DEF Disconnect, TypeProcess
  <1>15. CASE Release(p)
    BY <1>15, GoTyped, PcIs DEF Release, TypeProcess
  <1>16. CASE Exit(p)
    BY <1>16, GoneTyped DEF Exit, TypeProcess
  <1>17. ASSUME NEW k, Accept(p, k) \/ Register(p, k) PROVE TypeProcess'
    <2>1. main' = main \/ \E pc \in {"register", "accept", "unbind"} : Go(p, pc)
      BY <1>17 DEF Accept, Register
    <2>2. main' \in [Process -> Pc]
      BY <2>1, GoTyped, PcIs DEF TypeProcess
    <2> QED BY <1>17, <2>2 DEF Accept, Register, TypeProcess
  <1> QED BY <1>1, <1>2, <1>3, <1>4, <1>5, <1>6, <1>7, <1>8, <1>9, <1>10, <1>11, <1>12,
             <1>13, <1>14, <1>15, <1>16, <1>17 DEF MainStep

LEMMA NextProcessTyped ==
  ASSUME TypeProcess, [Next]_vars
  PROVE  TypeProcess'
  <1>1. ASSUME NEW p \in Process, Start(p) PROVE TypeProcess'
    BY <1>1, GoTyped, PcIs DEF Start, TypeProcess
  <1>2. ASSUME NEW p \in Process, Signal(p) PROVE TypeProcess'
    BY <1>2 DEF Signal, TypeProcess
  <1>3. ASSUME NEW p \in Process, Crash(p) PROVE TypeProcess'
    <2>1. crashes' \in 0..MaxCrashes
      BY <1>3, DaemonAssumption DEF Crash, TypeProcess
    <2> QED BY <1>3, <2>1, GoneTyped DEF Crash
  <1>4. ASSUME NEW p \in Process, MainStep(p) PROVE TypeProcess'
    BY <1>4, MainStepTyped
  <1>5. ASSUME NEW p \in Process, NEW w \in Worker, WorkerBegin(p, w) \/ WorkerEnd(p, w)
        PROVE  TypeProcess'
    <2>1. PICK v \in {"off", "idle", "writing"} : worker' = [worker EXCEPT ![p][w] = v]
      BY <1>5 DEF WorkerBegin, WorkerEnd
    <2>2. worker' \in [Process -> [Worker -> {"off", "idle", "writing", "last"}]]
      BY <2>1 DEF TypeProcess
    <2> QED BY <1>5, <2>2 DEF WorkerBegin, WorkerEnd, TypeProcess
  <1>6. CASE UNCHANGED <<process, crashes>>
    BY <1>6 DEF process, TypeProcess
  <1>7. ASSUME NEW k \in Conn, ThreadStep(k) PROVE UNCHANGED <<process, crashes>>
    BY <1>7 DEF ThreadStep, HandleFrame, HangUp, EnterLane, Commit, Fail, Health, Query, Send
  <1>8. ASSUME NEW c \in Client, ClientStep(c) PROVE UNCHANGED <<process, crashes>>
    BY <1>8 DEF ClientStep, SendRequest, Receive, GiveUp, Connect
  <1> QED BY <1>1, <1>2, <1>3, <1>4, <1>5, <1>6, <1>7, <1>8 DEF Next, vars, process
\* The lock admits one process: all others are down, or about to end.
LEMMA OthersIdle ==
  ASSUME TypeProcess, \A q \in Process : ProcessInv(q),
         NEW p \in Process, main[p] \notin {"down", "exit"}
  PROVE  \A q \in Process : q # p =>
           /\ main[q] \in {"down", "exit"} /\ db[q] = FALSE /\ listening[q] = FALSE
           /\ path # q
  BY DEF ProcessInv, TypeProcess, Bound

\* A step of the main thread of p keeps the invariant of the others.
LEMMA OthersKept ==
  ASSUME TypeProcess, \A q \in Process : ProcessInv(q), NEW p \in Process,
         \A q \in Process : q # p =>
           main'[q] = main[q] /\ db'[q] = db[q] /\ listening'[q] = listening[q],
         owner' = owner \/ (owner \in {p, None}),
         path' = path \/ (main[p] \notin {"down", "exit"} /\ path' \in {None, Stale, p}),
         ProcessInv(p)'
  PROVE  \A q \in Process : ProcessInv(q)'
  <1> SUFFICES ASSUME NEW q \in Process, q # p PROVE ProcessInv(q)'
    OBVIOUS
  <1>1. Stale \notin Process /\ None \notin Process
    BY DaemonAssumption
  <1>2. path' = q <=> path = q
    <2>1. CASE path' = path
      BY <2>1
    <2>2. CASE main[p] \notin {"down", "exit"} /\ path' \in {None, Stale, p}
      BY <1>1, <2>2, OthersIdle
    <2> QED BY <2>1, <2>2
  <1>3. main[q] \notin {"down", "exit"} => owner' = owner
    BY <1>1 DEF ProcessInv
  <1> QED BY <1>2, <1>3 DEF ProcessInv

LEMMA GoneKeeps ==
  ASSUME TypeProcess, \A q \in Process : ProcessInv(q), NEW p \in Process,
         NEW inode, inode = Stale \/ (inode = p /\ main[p] \in {"exit", "stuck"}), Gone(p, inode)
  PROVE  \A q \in Process : ProcessInv(q)'
  <1>1. /\ main'[p] = "down" /\ db'[p] = FALSE /\ listening'[p] = FALSE
        /\ \A q \in Process : q # p =>
             main'[q] = main[q] /\ db'[q] = db[q] /\ listening'[q] = listening[q]
        /\ owner' = IF owner = p THEN None ELSE owner
        /\ path' = IF path = p THEN inode ELSE path
    BY GoTyped, PcIs DEF Gone, TypeProcess
  <1>2. path = p <=> main[p] \in Bound
    BY DEF ProcessInv
  <1>3. path' # p /\ (path' = path \/ (main[p] \notin {"down", "exit"} /\ path' = Stale))
    BY <1>1, <1>2, DaemonAssumption DEF Bound
  <1>4. ProcessInv(p)'
    BY <1>1, <1>3 DEF ProcessInv, Bound
  <1> QED BY <1>1, <1>3, <1>4, OthersKept

LEMMA MainStepKeeps ==
  ASSUME TypeProcess, \A q \in Process : ProcessInv(q), NEW p \in Process, MainStep(p)
  PROVE  \A q \in Process : ProcessInv(q)'
  <1>0. ProcessInv(p) /\ None \notin Process /\ Stale \notin Process /\ Stale # None
    BY DaemonAssumption
  <1> USE PcIs DEF Bound
  <1>1. CASE Open(p)
    BY <1>0, <1>1, GoTyped, OthersKept DEF Open, TypeProcess, ProcessInv
  <1>2. CASE OpenFails(p)
    BY <1>0, <1>2, GoTyped, OthersKept DEF OpenFails, TypeProcess, ProcessInv
  <1>3. CASE Probe(p)
    BY <1>0, <1>3, GoTyped, OthersKept DEF Probe, TypeProcess, ProcessInv
  <1>4. CASE Recheck(p)
    BY <1>0, <1>4, GoTyped, OthersKept DEF Recheck, TypeProcess, ProcessInv
  <1>5. CASE UnlinkStale(p)
    BY <1>0, <1>5, GoTyped, OthersKept DEF UnlinkStale, TypeProcess, ProcessInv
  <1>6. CASE Bind(p)
    BY <1>0, <1>6, GoTyped, OthersKept DEF Bind, TypeProcess, ProcessInv
  <1>7. CASE Listen(p)
    BY <1>0, <1>7, GoTyped, OthersKept DEF Listen, TypeProcess, ProcessInv
  <1>8. CASE StopAccepting(p)
    BY <1>0, <1>8, GoTyped, OthersKept DEF StopAccepting, TypeProcess, ProcessInv
  <1>9. CASE CloseListener(p)
    BY <1>0, <1>9, GoTyped, OthersKept DEF CloseListener, TypeProcess, ProcessInv
  <1>10. CASE UnlinkOwned(p) \/ ListenFails(p)
    BY <1>0, <1>10, GoTyped, OthersKept DEF UnlinkOwned, ListenFails, TypeProcess, ProcessInv
  <1>11. CASE CloseClients(p)
    BY <1>0, <1>11, GoTyped, OthersKept DEF CloseClients, TypeProcess, ProcessInv
  <1>12. CASE Join(p)
    BY <1>0, <1>12, GoTyped, OthersKept DEF Join, TypeProcess, ProcessInv
  <1>13. CASE StopWorker(p, "extraction", "embedding") \/ StopWorker(p, "embedding", "disconnect")
    <2>1. /\ main[p] \in {"extraction", "embedding"}
          /\ \E pc \in {"embedding", "disconnect", "stuck"} : Go(p, pc)
          /\ UNCHANGED <<owner, db, path, listening>>
      BY <1>13 DEF StopWorker
    <2> QED BY <1>0, <2>1, GoTyped, OthersKept DEF TypeProcess, ProcessInv
  <1>14. CASE Disconnect(p)
    BY <1>0, <1>14, GoTyped, OthersKept DEF Disconnect, TypeProcess, ProcessInv
  <1>15. CASE Release(p)
    BY <1>0, <1>15, GoTyped, OthersKept DEF Release, TypeProcess, ProcessInv
  <1>16. CASE Exit(p)
    BY <1>16, GoneKeeps DEF Exit
  <1>17. ASSUME NEW k, Accept(p, k) \/ Register(p, k)
         PROVE  \A q \in Process : ProcessInv(q)'
    <2>1. /\ main[p] \in {"accept", "register"}
          /\ main' = main \/ \E pc \in {"register", "accept", "unbind"} : Go(p, pc)
          /\ UNCHANGED <<owner, db, path, listening>>
      BY <1>17 DEF Accept, Register
    <2> QED BY <1>0, <2>1, GoTyped, OthersKept DEF TypeProcess, ProcessInv
  <1> QED BY <1>1, <1>2, <1>3, <1>4, <1>5, <1>6, <1>7, <1>8, <1>9, <1>10, <1>11, <1>12,
             <1>13, <1>14, <1>15, <1>16, <1>17 DEF MainStep

LEMMA NextProcess ==
  ASSUME TypeProcess, \A q \in Process : ProcessInv(q), [Next]_vars
  PROVE  \A q \in Process : ProcessInv(q)'
  <1>1. ASSUME NEW p \in Process, Start(p) PROVE \A q \in Process : ProcessInv(q)'
    BY SMTT(30), <1>1, PcIs, GoTyped, OthersKept DEF Start, Acquirable, TypeProcess, ProcessInv, Bound
  <1>2. CASE UNCHANGED <<owner, main, db, path, listening>>
    BY <1>2 DEF ProcessInv
  <1>3. ASSUME NEW p \in Process, Crash(p) PROVE \A q \in Process : ProcessInv(q)'
    BY <1>3, GoneKeeps DEF Crash
  <1>4. ASSUME NEW p \in Process, MainStep(p) PROVE \A q \in Process : ProcessInv(q)'
    BY <1>4, MainStepKeeps
  <1>5. ASSUME NEW p \in Process, NEW w \in Worker, WorkerBegin(p, w) \/ WorkerEnd(p, w)
        PROVE  \A q \in Process : ProcessInv(q)'
    BY <1>2, <1>5 DEF WorkerBegin, WorkerEnd
  <1>6. ASSUME NEW p \in Process, Signal(p) PROVE \A q \in Process : ProcessInv(q)'
    BY <1>2, <1>6 DEF Signal
  <1>7. ASSUME NEW k \in Conn, ThreadStep(k) PROVE UNCHANGED process
    BY <1>7 DEF ThreadStep, HandleFrame, HangUp, EnterLane, Commit, Fail, Health, Query, Send
  <1>8. ASSUME NEW c \in Client, ClientStep(c) PROVE UNCHANGED process
    BY <1>8 DEF ClientStep, SendRequest, Receive, GiveUp, Connect
  <1> QED BY <1>1, <1>2, <1>3, <1>4, <1>5, <1>6, <1>7, <1>8 DEF Next, vars, process
-----------------------------------------------------------------------------
(* The connections                                                         *)

\* What a step may make of row r: a thread does not change hands and a closed
\* socket does not open.
Calm(r, s) == Working(s) => Working(r) /\ s.to = r.to /\ (s.up => r.up)

\* A step that leaves the lane alone does not give up a write either.
Moves(r, s) == Calm(r, s) /\ (r.thread = "write" => s.thread = "write" /\ s.to = r.to)

LEMMA NoConnTyped == NoConn \in ConnState
  BY DEF NoConn, ConnState

\* A thread that ends leaves its answer to a client that is still there.
LEMMA OverFits ==
  ASSUME NEW k \in Conn, NEW r, Fits(k, r)
  PROVE  /\ Fits(k, Over(k, r)) /\ Calm(r, Over(k, r))
         /\ r.thread # "write" => Moves(r, Over(k, r))
  <1>1. CASE Attached(k)
    <2>1. PICK s : s = Over(k, r)
      OBVIOUS
    <2>2. /\ s \in ConnState /\ s.thread = "over" /\ s.client = r.client /\ s.reply = r.reply
      BY ZenonT(60), <1>1, <2>1, NoConnTyped DEF Over, Fits, ConnState, NoConn
    <2> QED BY <2>1, <2>2 DEF Fits, Moves, Calm, Working
  <1>2. CASE ~Attached(k)
    <2>1. Over(k, r) = NoConn /\ NoConn.thread = "none"
      BY <1>2 DEF Over, NoConn
    <2> QED BY <1>2, <2>1, NoConnTyped DEF Fits, Moves, Calm, Working, Attached
  <1> QED BY <1>1, <1>2

\* Closing the socket of a connection.
LEMMA ShutFits ==
  ASSUME NEW k \in Conn, NEW r, Fits(k, r)
  PROVE  Fits(k, Shut(r)) /\ Moves(r, Shut(r)) /\ Shut(r).up = FALSE
  <1>1. PICK s : s = Shut(r)
    OBVIOUS
  <1>2. /\ s \in ConnState /\ s.thread = r.thread /\ s.to = r.to /\ s.client = r.client
        /\ s.method = r.method /\ s.result = r.result /\ s.reply = r.reply /\ s.up = FALSE
    BY <1>1 DEF Shut, Fits, ConnState
  <1> QED BY <1>1, <1>2 DEF Fits, Moves, Calm, Working

\* An answer that is true may be sent.
LEMMA AnswerFits ==
  ASSUME NEW k \in Conn, Fits(k, conn[k]), Working(conn[k]), conn[k].thread # "write",
         NEW reply \in Reply \cup {None}, NEW keep \in BOOLEAN,
         reply = "ok" /\ conn[k].method = "memory.write" => conn[k].client \in committed
  PROVE  Fits(k, Answer(k, reply, keep)) /\ Moves(conn[k], Answer(k, reply, keep))
  <1> DEFINE r == conn[k]
             said == [r EXCEPT !.frame = None, !.result = None,
                        !.reply = IF r.up THEN reply ELSE @,
                        !.greeted = @ \/ reply = "accepted"]
             kept == [said EXCEPT !.thread = "read"]
  <1>1. /\ said \in ConnState /\ said.thread = r.thread /\ said.to = r.to
        /\ said.client = r.client /\ said.method = r.method /\ said.up = r.up
        /\ said.reply \in {reply, r.reply} /\ said.result = None
    BY ZenonT(60) DEF Fits, ConnState
  <1>2. None # "ok"
    BY DaemonAssumption DEF Reply
  <1> HIDE DEF said
  <1>3. Fits(k, said) /\ Moves(r, said)
    BY <1>1, <1>2 DEF Fits, Moves, Calm, Working
  <1>4. /\ kept \in ConnState /\ kept.thread = "read" /\ kept.to = r.to
        /\ kept.client = r.client /\ kept.method = r.method /\ kept.up = r.up
        /\ kept.reply = said.reply
    BY <1>1 DEF ConnState
  <1> HIDE DEF kept
  <1>5. Fits(k, kept) /\ Moves(r, kept)
    BY <1>1, <1>3, <1>4 DEF Fits, Moves, Calm, Working
  <1>6. Fits(k, Over(k, said)) /\ Moves(r, Over(k, said))
    BY <1>1, <1>3, OverFits DEF Moves, Calm, Working
  <1>7. Answer(k, reply, keep) = kept \/ Answer(k, reply, keep) = Over(k, said)
    BY DEF Answer, kept, said
  <1> QED BY <1>5, <1>6, <1>7

\* What _handle_frame makes of a frame.
LEMMA HandledFits ==
  ASSUME NEW k \in Conn, Fits(k, conn[k]), conn[k].thread = "read"
  PROVE  Fits(k, Handled(k)) /\ Moves(conn[k], Handled(k))
  <1>0. Working(conn[k])
    BY DEF Working
  <1>1. ASSUME NEW reply \in {"accepted", "refused", "error"}, NEW keep \in BOOLEAN
        PROVE  Fits(k, Answer(k, reply, keep)) /\ Moves(conn[k], Answer(k, reply, keep))
    BY <1>0, AnswerFits DEF Reply
  <1> DEFINE thread == CASE conn[k].method = "health" -> "health"
                         [] conn[k].method = "memory.search" -> "query"
                         [] OTHER -> "lane"
  <1>2. \/ thread = "health" /\ conn[k].method = "health"
        \/ thread = "query" /\ conn[k].method = "memory.search"
        \/ thread = "lane"
    OBVIOUS
  <1> HIDE DEF thread
  <1>3. PICK r : r = conn[k]
    OBVIOUS
  <1> DEFINE s == [r EXCEPT !.frame = None, !.thread = thread]
  <1>4. /\ s \in ConnState /\ s.thread = thread /\ s.to = r.to /\ s.client = r.client
        /\ s.method = r.method /\ s.reply = r.reply /\ s.up = r.up
    BY ZenonT(60), <1>2, <1>3 DEF Fits, ConnState
  <1> HIDE DEF s
  <1>5. Fits(k, s) /\ Moves(conn[k], s)
    BY <1>0, <1>2, <1>3, <1>4 DEF Fits, Moves, Calm, Working
  <1>6. \/ Handled(k) = s
        \/ \E reply \in {"accepted", "refused", "error"}, keep \in BOOLEAN :
             Handled(k) = Answer(k, reply, keep)
    BY <1>3 DEF Handled, s, thread
  <1> QED BY <1>1, <1>5, <1>6
-----------------------------------------------------------------------------
(* What the connections, the lane and the clients say together             *)

ClientState == [pc: {"idle", "hello", "reply"}, conn: Conn \cup {None},
                method: Capability \cup {None}, told: {"none", "ok", "error", "degraded"}]

ConnInv ==
  /\ conn \in [Conn -> ConnState]
  /\ client \in [Client -> ClientState]
  /\ committed \subseteq Client
  /\ \A k \in Conn : Fits(k, conn[k])
  /\ \A c \in Client : Waits(c)
  /\ OkMeansCommitted

LaneInv ==
  /\ lane \in [Process -> Conn \cup {None}]
  /\ \A p \in Process : lane[p] # None =>
       conn[lane[p]].to = p /\ conn[lane[p]].thread = "write"

LEMMA Parts ==
  IInv <=> /\ TypeProcess /\ (\A p \in Process : ProcessInv(p))
           /\ ConnInv /\ LaneInv /\ ClosedAfterShutdown
  BY DEF IInv, TypeOK, TypeProcess, Pc, ConnInv, LaneInv, ClientState

\* Rows that suit the clients and the commits of before suit those of after.
LEMMA ConnsKept ==
  ASSUME ConnInv, conn' \in [Conn -> ConnState], \A k \in Conn : Fits(k, conn'[k]),
         client' = client, committed \subseteq committed', committed' \subseteq Client
  PROVE  ConnInv'
  <1>1. ASSUME NEW k \in Conn PROVE Fits(k, conn[k])'
    <2>1. PICK r : r = conn'[k] /\ Fits(k, r)
      OBVIOUS
    <2> QED BY <2>1 DEF Fits, Working
  <1>2. \A c \in Client : Waits(c)'
    BY DEF ConnInv, Waits
  <1>3. OkMeansCommitted'
    BY DEF ConnInv, OkMeansCommitted
  <1> QED BY <1>1, <1>2, <1>3 DEF ConnInv

LEMMA LaneKept ==
  ASSUME LaneInv, lane' = lane, \A k \in Conn : Moves(conn[k], conn'[k])
  PROVE  LaneInv'
  <1>1. ASSUME NEW p \in Process, lane[p] # None
        PROVE  conn'[lane[p]].to = p /\ conn'[lane[p]].thread = "write"
    <2>1. PICK k \in Conn : k = lane[p]
      BY <1>1 DEF LaneInv
    <2> QED BY <1>1, <2>1 DEF LaneInv, Moves
  <1> QED BY <1>1 DEF LaneInv

LEMMA ClosedKept ==
  ASSUME ClosedAfterShutdown, \A k \in Conn : Calm(conn[k], conn'[k]),
         \A p \in Process : main'[p] \in Closed => main[p] \in Closed
  PROVE  ClosedAfterShutdown'
  BY DEF ClosedAfterShutdown, Calm, Working, At

LEMMA SameMoves == \A r : Moves(r, r) /\ Calm(r, r)
  BY DEF Moves, Calm

LEMMA RowChanged ==
  ASSUME ConnInv, NEW k \in Conn, NEW s \in ConnState, conn' = [conn EXCEPT ![k] = s]
  PROVE  /\ conn' \in [Conn -> ConnState] /\ conn'[k] = s
         /\ \A j \in Conn : j # k => conn'[j] = conn[j]
         /\ Fits(k, s) => \A j \in Conn : Fits(j, conn'[j])
  BY DEF ConnInv

\* A step that moves one row on.
LEMMA RowMoved ==
  ASSUME ConnInv, LaneInv, ClosedAfterShutdown, NEW k \in Conn, NEW s,
         Fits(k, s), Moves(conn[k], s), conn' = [conn EXCEPT ![k] = s],
         lane' = lane, client' = client, committed' = committed,
         \A p \in Process : main'[p] \in Closed => main[p] \in Closed
  PROVE  ConnInv' /\ LaneInv' /\ ClosedAfterShutdown'
  <1>0. s \in ConnState
    BY DEF Fits
  <1>1. \A j \in Conn : Moves(conn[j], conn'[j])
    BY <1>0, RowChanged, SameMoves
  <1>2. \A j \in Conn : Calm(conn[j], conn'[j])
    BY <1>1 DEF Moves
  <1>3. ConnInv'
    <2>1. committed' \subseteq Client
      BY DEF ConnInv
    <2> QED BY <1>0, <2>1, RowChanged, ConnsKept
  <1>4. LaneInv'
    BY <1>1, LaneKept
  <1>5. ClosedAfterShutdown'
    BY <1>2, ClosedKept
  <1> QED BY <1>3, <1>4, <1>5

\* Row s is row r with another thread and another result.
Turned(r, s) ==
  /\ s \in ConnState /\ s.to = r.to /\ s.client = r.client /\ s.up = r.up
  /\ s.method = r.method /\ s.reply = r.reply

\* A step that changes the thread of a connection and the result of its work.
LEMMA ThreadFits ==
  ASSUME NEW k \in Conn, NEW r, Fits(k, r), Working(r), NEW s, Turned(r, s),
         s.thread \in {"accepted", "read", "write", "send"},
         s.thread = "send" /\ s.result = "ok" /\ r.method = "memory.write" => r.client \in committed
  PROVE  Fits(k, s) /\ Calm(r, s)
  BY DEF Fits, Calm, Working, Turned

\* The lane is taken by a connection of its process, and left by its holder.
LEMMA LaneChanged ==
  ASSUME ConnInv, LaneInv, ClosedAfterShutdown, UNCHANGED process,
         NEW k \in Conn, Working(conn[k]), NEW s \in ConnState, Calm(conn[k], s),
         s.to = conn[k].to, conn' = [conn EXCEPT ![k] = s],
         \/ s.thread = "write" /\ lane' = [lane EXCEPT ![conn[k].to] = k]
         \/ lane[conn[k].to] # k /\ lane' = lane
         \/ lane' = [lane EXCEPT ![conn[k].to] = None]
  PROVE  LaneInv' /\ ClosedAfterShutdown'
  <1>1. \A j \in Conn : Calm(conn[j], conn'[j])
    BY RowChanged, SameMoves
  <1>3. ClosedAfterShutdown'
    BY <1>1, ClosedKept DEF process
  <1>4. conn[k].to \in Process /\ None \notin Conn
    BY DaemonAssumption DEF ConnInv, Fits
  <1>5. lane' \in [Process -> Conn \cup {None}]
    BY DEF LaneInv
  <1>6. ASSUME NEW p \in Process, lane'[p] # None
        PROVE  conn'[lane'[p]].to = p /\ conn'[lane'[p]].thread = "write"
    <2>1. PICK j \in Conn : j = lane'[p]
      BY <1>5, <1>6
    <2>2. CASE p = conn[k].to /\ lane' = [lane EXCEPT ![conn[k].to] = k] /\ s.thread = "write"
      BY <1>4, <2>2, RowChanged DEF LaneInv
    <2>3. CASE lane'[p] = lane[p] /\ j # k
      BY <1>6, <2>1, <2>3, RowChanged DEF LaneInv
    <2>4. CASE p # conn[k].to
      <3>1. lane'[p] = lane[p]
        BY <1>4, <2>4 DEF LaneInv
      <3>2. j # k
        BY <1>6, <2>1, <2>4, <3>1 DEF LaneInv
      <3> QED BY <2>3, <3>1, <3>2
    <2>5. CASE p = conn[k].to /\ lane' = lane /\ lane[conn[k].to] # k
      BY <2>1, <2>3, <2>5
    <2>6. CASE p = conn[k].to /\ lane' = [lane EXCEPT ![conn[k].to] = None]
      BY <1>4, <1>6, <2>6 DEF LaneInv
    <2> QED BY <2>2, <2>4, <2>5, <2>6
  <1>7. LaneInv'
    BY <1>5, <1>6 DEF LaneInv
  <1> QED BY <1>3, <1>7

\* The rows of one connection with a new thread and result.
LEMMA RowSame ==
  ASSUME conn \in [Conn -> ConnState], NEW k \in Conn, NEW t
  PROVE  [conn EXCEPT ![k].thread = t]
           = [conn EXCEPT ![k] = [conn[k] EXCEPT !.thread = t, !.result = conn[k].result]]
  <1>1. PICK r : r = conn[k] /\ r \in ConnState
    OBVIOUS
  <1>2. [r EXCEPT !.thread = t] = [r EXCEPT !.thread = t, !.result = r.result]
    BY <1>1 DEF ConnState
  <1> QED BY <1>1, <1>2

LEMMA ThreadStepKeeps ==
  ASSUME ConnInv, LaneInv, ClosedAfterShutdown, NEW k \in Conn, ThreadStep(k)
  PROVE  ConnInv' /\ LaneInv' /\ ClosedAfterShutdown'
  <1>0. /\ Fits(k, conn[k]) /\ conn \in [Conn -> ConnState] /\ conn[k].result \in Reply \cup {None}
        /\ None # "ok" /\ committed \subseteq Client
    BY DaemonAssumption DEF ConnInv, ConnState, Reply
  <1>1. CASE HandleFrame(k)
    BY <1>0, <1>1, HandledFits, RowMoved DEF HandleFrame, process
  <1>2. CASE HangUp(k)
    <2>1. PICK reply \in {"error", "refused"} : conn' = [conn EXCEPT ![k] = Answer(k, reply, FALSE)]
      BY <1>2 DEF HangUp
    <2>2. Working(conn[k]) /\ conn[k].thread # "write" /\ reply # "ok" /\ reply \in Reply
      BY <1>2 DEF HangUp, Working, Reply
    <2>3. Fits(k, Answer(k, reply, FALSE)) /\ Moves(conn[k], Answer(k, reply, FALSE))
      BY <1>0, <2>2, AnswerFits
    <2> QED BY <1>2, <2>1, <2>3, RowMoved DEF HangUp, process
  <1>3. CASE EnterLane(k)
    <2>0. PICK r, s : r = conn[k] /\ s = [r EXCEPT !.thread = "write", !.result = r.result]
      OBVIOUS
    <2>1. Working(conn[k])
      BY <1>3 DEF EnterLane, Working
    <2>a. Turned(r, s) /\ s.thread = "write"
      BY ZenonT(60), <1>0, <2>0 DEF ConnState, Turned
    <2>2. Fits(k, s) /\ Calm(conn[k], s) /\ s.thread = "write" /\ s.to = conn[k].to
      BY ZenonT(60), <1>0, <2>0, <2>1, <2>a, ThreadFits DEF Turned
    <2>3. conn' = [conn EXCEPT ![k] = s]
      BY <1>0, <1>3, <2>0, RowSame DEF EnterLane
    <2>4. s \in ConnState /\ UNCHANGED <<process, client, committed>>
      BY <1>3, <2>2 DEF EnterLane, Fits
    <2>5. LaneInv' /\ ClosedAfterShutdown'
      BY <1>3, <2>1, <2>2, <2>3, <2>4, LaneChanged DEF EnterLane
    <2>6. ConnInv'
      BY <1>0, <2>2, <2>3, <2>4, RowChanged, ConnsKept
    <2> QED BY <2>5, <2>6
  <1>4. CASE Commit(k)
    <2> DEFINE s == [conn[k] EXCEPT !.thread = "send", !.result = "ok"]
    <2>1. Working(conn[k]) /\ conn[k].client \in Client
      BY <1>0, <1>4 DEF Commit, Working, Fits
    <2>2. /\ s \in ConnState /\ s.to = conn[k].to /\ s.up = conn[k].up
          /\ s.method = conn[k].method /\ s.client = conn[k].client /\ s.reply = conn[k].reply
          /\ s.thread = "send"
      <3>1. PICK r : r = conn[k] /\ r \in ConnState
        BY <1>0
      <3> DEFINE z == [r EXCEPT !.thread = "send", !.result = "ok"]
      <3>2. /\ z \in ConnState /\ z.to = r.to /\ z.up = r.up /\ z.method = r.method
            /\ z.client = r.client /\ z.reply = r.reply /\ z.thread = "send"
        BY <3>1 DEF ConnState, Reply
      <3> QED BY <3>1, <3>2
    <2>3. conn' = [conn EXCEPT ![k] = s]
      BY <1>4 DEF Commit
    <2> HIDE DEF s
    <2>4. Calm(conn[k], s)
      BY <2>1, <2>2 DEF Calm
    <2>5. LaneInv' /\ ClosedAfterShutdown'
      BY <1>4, <2>1, <2>2, <2>3, <2>4, LaneChanged DEF Commit
    <2>6. ASSUME NEW j \in Conn PROVE Fits(j, conn[j])'
      <3>1. CASE j = k
        <4>1. conn'[k] = s
          BY <2>2, <2>3, RowChanged
        <4>2. PICK z : z = s
          OBVIOUS
        <4> QED BY <1>0, <1>4, <2>1, <2>2, <3>1, <4>1, <4>2 DEF Commit, Fits, Working
      <3>2. CASE j # k
        <4>1. conn'[j] = conn[j] /\ Fits(j, conn[j])
          BY <2>2, <2>3, <3>2, RowChanged DEF ConnInv
        <4>2. PICK z : z = conn[j] /\ z = conn'[j] /\ Fits(j, z)
          BY <4>1
        <4>3. committed \subseteq committed' /\ client' = client
          BY <1>4 DEF Commit
        <4> QED BY <4>2, <4>3 DEF Fits, Working
      <3> QED BY <3>1, <3>2
    <2>7. conn' \in [Conn -> ConnState] /\ client' = client /\ committed \subseteq committed'
          /\ committed' \subseteq Client
      BY <1>0, <1>4, <2>1, <2>2, <2>3, RowChanged DEF Commit
    <2>8. (\A c \in Client : Waits(c)') /\ OkMeansCommitted'
      BY <2>7 DEF ConnInv, Waits, OkMeansCommitted
    <2> QED BY <2>5, <2>6, <2>7, <2>8 DEF ConnInv
  <1>5. CASE Fail(k)
    <2>0. PICK r, s : r = conn[k] /\ s = [r EXCEPT !.thread = "send", !.result = "error"]
      OBVIOUS
    <2>1. Working(conn[k])
      BY <1>5 DEF Fail, Working
    <2>a. Turned(r, s) /\ s.thread = "send" /\ s.result = "error"
      BY ZenonT(60), <1>0, <2>0 DEF ConnState, Turned, Reply
    <2>2. Fits(k, s) /\ Calm(conn[k], s) /\ s.to = conn[k].to
      BY ZenonT(60), <1>0, <2>0, <2>1, <2>a, ThreadFits DEF Turned
    <2>3. conn' = [conn EXCEPT ![k] = s]
      BY <1>5, <2>0 DEF Fail
    <2>4. \/ lane[conn[k].to] # k /\ lane' = lane
          \/ lane' = [lane EXCEPT ![conn[k].to] = None]
      BY <1>5 DEF Fail, LaneInv
    <2>5. s \in ConnState /\ UNCHANGED <<process, client, committed>>
      BY <1>5, <2>2 DEF Fail, Fits
    <2>6. LaneInv' /\ ClosedAfterShutdown'
      BY <2>1, <2>2, <2>3, <2>4, <2>5, LaneChanged
    <2>7. ConnInv'
      BY <1>0, <2>2, <2>3, <2>5, RowChanged, ConnsKept
    <2> QED BY <2>6, <2>7
  <1>6. CASE Health(k) \/ Query(k)
    <2>0. PICK r, s : r = conn[k] /\ s = [r EXCEPT !.thread = "send", !.result = "ok"]
      OBVIOUS
    <2>1. /\ Working(conn[k]) /\ conn[k].method # "memory.write" /\ conn[k].thread # "write"
          /\ UNCHANGED <<process, lane, client, committed>>
      BY <1>0, <1>6 DEF Health, Query, Working, Fits
    <2>a. Turned(r, s) /\ s.thread = "send" /\ s.result = "ok"
      BY ZenonT(60), <1>0, <2>0 DEF ConnState, Turned, Reply
    <2>2. Fits(k, s) /\ Calm(conn[k], s)
      BY <1>0, <2>0, <2>1, <2>a, ThreadFits DEF Turned
    <2>3. conn' = [conn EXCEPT ![k] = s] /\ Moves(conn[k], s)
      BY <1>6, <2>0, <2>1, <2>2 DEF Health, Query, Moves
    <2> QED BY <2>1, <2>2, <2>3, RowMoved DEF process
  <1>7. CASE Send(k)
    <2>1. PICK reply \in {conn[k].result, "error"} : conn' = [conn EXCEPT ![k] = Answer(k, reply, TRUE)]
      BY <1>7 DEF Send
    <2>2. /\ Working(conn[k]) /\ conn[k].thread # "write" /\ reply \in Reply \cup {None}
          /\ reply = "ok" /\ conn[k].method = "memory.write" => conn[k].client \in committed
      BY <1>0, <1>7 DEF Send, Working, Reply, Fits
    <2>3. Fits(k, Answer(k, reply, TRUE)) /\ Moves(conn[k], Answer(k, reply, TRUE))
      BY <1>0, <2>2, AnswerFits
    <2> QED BY <1>7, <2>1, <2>3, RowMoved DEF Send, process
  <1> QED BY <1>1, <1>2, <1>3, <1>4, <1>5, <1>6, <1>7 DEF ThreadStep
-----------------------------------------------------------------------------
(* The main threads and the connections                                    *)

\* A step that leaves the connections alone and does not begin the closing.
LEMMA ConnsAlone ==
  ASSUME ConnInv, LaneInv, ClosedAfterShutdown, UNCHANGED <<conn, lane, client, committed>>,
         \A p \in Process : main'[p] \in Closed => main[p] \in Closed
  PROVE  ConnInv' /\ LaneInv' /\ ClosedAfterShutdown'
  <1>1. ClosedAfterShutdown'
    BY SameMoves, ClosedKept
  <1>2. LaneInv'
    BY DEF LaneInv
  <1>3. ConnInv'
    BY ConnsKept DEF ConnInv
  <1> QED BY <1>1, <1>2, <1>3

\* Threads that end while the others go on.
LEMMA EndedFits ==
  ASSUME ConnInv, NEW p \in Process, NEW ks, conn' = Ended(p, ks)
  PROVE  /\ conn' \in [Conn -> ConnState]
         /\ \A k \in Conn : Fits(k, conn'[k]) /\ Calm(conn[k], conn'[k])
         /\ \A k \in Conn : k \notin ks \/ conn[k].to # p \/ ~Working(conn[k]) => conn'[k] = conn[k]
         /\ \A k \in Conn : conn[k].thread # "write" => Moves(conn[k], conn'[k])
  <1>1. ASSUME NEW k \in Conn
        PROVE  /\ Fits(k, conn'[k]) /\ Calm(conn[k], conn'[k])
               /\ k \notin ks \/ conn[k].to # p \/ ~Working(conn[k]) => conn'[k] = conn[k]
               /\ conn[k].thread # "write" => Moves(conn[k], conn'[k])
    <2>1. Fits(k, conn[k]) /\ conn'[k] = IF k \in ks /\ At(p, k) THEN Over(k, conn[k]) ELSE conn[k]
      BY DEF ConnInv, Ended
    <2>2. CASE k \in ks /\ At(p, k)
      BY <2>1, <2>2, OverFits DEF At, Working
    <2>3. CASE ~(k \in ks /\ At(p, k))
      BY <2>1, <2>3, SameMoves
    <2> QED BY <2>2, <2>3
  <1>2. \A k \in Conn : conn'[k] \in ConnState
    BY <1>1 DEF Fits
  <1>3. conn' = [k \in Conn |-> conn'[k]]
    BY DEF Ended
  <1> QED BY <1>1, <1>2, <1>3

\* The lock file holds no process back that died with a thread in its lane.
LEMMA GoneConns ==
  ASSUME TypeProcess, ConnInv, LaneInv, ClosedAfterShutdown,
         NEW p \in Process, NEW inode, Gone(p, inode)
  PROVE  ConnInv' /\ LaneInv' /\ ClosedAfterShutdown'
  <1>1. /\ conn' = Ended(p, Conn) /\ client' = client /\ committed' = committed
        /\ lane' = [lane EXCEPT ![p] = None] /\ main' = [main EXCEPT ![p] = "down"]
    BY DEF Gone, Go
  <1>2. /\ conn' \in [Conn -> ConnState]
        /\ \A k \in Conn : Fits(k, conn'[k]) /\ Calm(conn[k], conn'[k])
        /\ \A k \in Conn : conn[k].to # p => conn'[k] = conn[k]
    BY <1>1, EndedFits
  <1>3. ConnInv'
    BY <1>1, <1>2, ConnsKept DEF ConnInv
  <1>4. ClosedAfterShutdown'
    BY <1>1, <1>2, ClosedKept DEF TypeProcess, Closed
  <1>5. LaneInv'
    <2>1. lane' \in [Process -> Conn \cup {None}]
      BY <1>1 DEF LaneInv
    <2>2. ASSUME NEW q \in Process, lane'[q] # None
          PROVE  conn'[lane'[q]].to = q /\ conn'[lane'[q]].thread = "write"
      <3>1. q # p /\ lane'[q] = lane[q]
        BY <1>1, <2>2 DEF LaneInv
      <3>2. PICK k \in Conn : k = lane[q]
        BY <2>2, <3>1 DEF LaneInv
      <3> QED BY <1>2, <2>2, <3>1, <3>2 DEF LaneInv
    <2> QED BY <2>1, <2>2 DEF LaneInv
  <1> QED BY <1>3, <1>4, <1>5

LEMMA CloseClientsConns ==
  ASSUME TypeProcess, ConnInv, LaneInv, ClosedAfterShutdown, NEW p \in Process, CloseClients(p)
  PROVE  ConnInv' /\ LaneInv' /\ ClosedAfterShutdown'
  <1>1. ASSUME NEW k \in Conn
        PROVE  /\ Fits(k, conn'[k]) /\ Moves(conn[k], conn'[k])
               /\ conn[k].to = p /\ Working(conn[k]) => conn'[k].up = FALSE
    <2>1. Fits(k, conn[k]) /\ conn'[k] = IF At(p, k) THEN Shut(conn[k]) ELSE conn[k]
      BY DEF ConnInv, CloseClients
    <2>2. CASE At(p, k)
      BY ZenonT(60), <2>1, <2>2, ShutFits
    <2>3. CASE ~At(p, k)
      BY <2>1, <2>3, SameMoves DEF At, Working
    <2> QED BY <2>2, <2>3
  <1>2. conn' \in [Conn -> ConnState]
    <2>1. \A k \in Conn : conn'[k] \in ConnState
      BY <1>1 DEF Fits
    <2>2. conn' = [k \in Conn |-> conn'[k]]
      BY DEF CloseClients
    <2> QED BY <2>1, <2>2
  <1>3. ConnInv' /\ LaneInv'
    BY <1>1, <1>2, ConnsKept, LaneKept DEF ConnInv, CloseClients
  <1>4. ClosedAfterShutdown'
    <2> SUFFICES ASSUME NEW q \in Process, main'[q] \in Closed, NEW k \in Conn,
                        conn'[k].to = q, Working(conn'[k])
                 PROVE  ~conn'[k].up
      BY DEF ClosedAfterShutdown, At, Working
    <2>1. Working(conn[k]) /\ conn[k].to = q /\ (conn'[k].up => conn[k].up)
      BY <1>1 DEF Moves, Calm
    <2>2. CASE q = p
      BY <1>1, <2>1, <2>2
    <2>3. CASE q # p
      BY <2>1, <2>3 DEF CloseClients, Go, TypeProcess, ClosedAfterShutdown, At, Working
    <2> QED BY <2>2, <2>3
  <1> QED BY <1>3, <1>4

\* Accepting, refusing and registering a connection.
LEMMA AcceptConns ==
  ASSUME TypeProcess, ConnInv, LaneInv, ClosedAfterShutdown,
         NEW p \in Process, NEW k \in Conn, Accept(p, k) \/ Register(p, k)
  PROVE  ConnInv' /\ LaneInv' /\ ClosedAfterShutdown'
  <1>1. /\ Fits(k, conn[k]) /\ Working(conn[k]) /\ conn[k].thread \in {"backlog", "accepted"}
        /\ conn[k] \in ConnState /\ UNCHANGED <<lane, client, committed>>
    BY DEF Accept, Register, Working, ConnInv
  <1>2. \A q \in Process : main'[q] \in Closed => main[q] \in Closed
    <2>1. main' = main \/ \E pc \in {"register", "accept", "unbind"} : Go(p, pc)
      BY DEF Accept, Register
    <2> QED BY <2>1, PcIs, GoTyped DEF Closed, TypeProcess
  <1>3. CASE conn' = Refuse(k)
    <2>1. conn' = [conn EXCEPT ![k] = Over(k, conn[k])]
      BY <1>3 DEF Refuse
    <2> QED BY <1>1, <1>2, <2>1, OverFits, RowMoved
  <1>4. ASSUME NEW t \in {"accepted", "read"}, conn' = [conn EXCEPT ![k].thread = t]
        PROVE  ConnInv' /\ LaneInv' /\ ClosedAfterShutdown'
    <2>1. PICK r, s : r = conn[k] /\ s = [r EXCEPT !.thread = t]
      OBVIOUS
    <2>2. Turned(r, s) /\ s.thread = t
      BY <1>1, <2>1 DEF ConnState, Turned
    <2>3. Fits(k, s) /\ Moves(conn[k], s)
      BY <1>1, <2>1, <2>2, ThreadFits DEF Moves
    <2>4. conn' = [conn EXCEPT ![k] = s]
      BY <1>4, <2>1
    <2> QED BY <1>1, <1>2, <2>3, <2>4, RowMoved
  <1> QED BY <1>3, <1>4 DEF Accept, Register

LEMMA MainStepConns ==
  ASSUME TypeProcess, ConnInv, LaneInv, ClosedAfterShutdown, NEW p \in Process, MainStep(p)
  PROVE  ConnInv' /\ LaneInv' /\ ClosedAfterShutdown'
  <1>1. ASSUME NEW pc \in Pc, Go(p, pc), pc \in Closed => main[p] \in Closed,
               UNCHANGED <<conn, lane, client, committed>>
        PROVE  ConnInv' /\ LaneInv' /\ ClosedAfterShutdown'
    BY <1>1, GoTyped, ConnsAlone DEF TypeProcess
  <1> USE PcIs DEF Closed
  <1>2. CASE Open(p) \/ OpenFails(p)
    BY <1>1, <1>2 DEF Open, OpenFails
  <1>3. CASE Probe(p)
    BY <1>1, <1>3 DEF Probe
  <1>4. CASE Recheck(p) \/ UnlinkStale(p)
    BY <1>1, <1>4 DEF Recheck, UnlinkStale
  <1>5. CASE Bind(p) \/ Listen(p) \/ ListenFails(p)
    BY <1>1, <1>5 DEF Bind, Listen, ListenFails
  <1>6. CASE StopAccepting(p) \/ UnlinkOwned(p) \/ Join(p)
    BY <1>1, <1>6 DEF StopAccepting, UnlinkOwned, Join
  <1>7. CASE StopWorker(p, "extraction", "embedding") \/ StopWorker(p, "embedding", "disconnect")
    BY <1>1, <1>7 DEF StopWorker
  <1>8. CASE Disconnect(p) \/ Release(p)
    BY <1>1, <1>8 DEF Disconnect, Release
  <1>9. CASE CloseListener(p)
    <2>1. UNCHANGED <<lane, client, committed>> /\ Go(p, "remove")
      BY <1>9 DEF CloseListener
    <2>2. PICK ks : ks = {k \in Conn : conn[k].thread = "backlog"} /\ conn' = Ended(p, ks)
      BY <1>9 DEF CloseListener
    <2>3. /\ conn' \in [Conn -> ConnState]
          /\ \A k \in Conn : Fits(k, conn'[k]) /\ Calm(conn[k], conn'[k])
          /\ \A k \in Conn : k \notin ks => conn'[k] = conn[k]
          /\ \A k \in Conn : conn[k].thread # "write" => Moves(conn[k], conn'[k])
      BY <2>2, EndedFits
    <2>4. \A k \in Conn : conn[k].thread = "write" => k \notin ks
      BY <2>2
    <2>5. \A k \in Conn : Moves(conn[k], conn'[k])
      BY <2>3, <2>4, SameMoves
    <2>6. ConnInv' /\ LaneInv'
      BY <2>1, <2>3, <2>5, ConnsKept, LaneKept DEF ConnInv
    <2>7. ClosedAfterShutdown'
      BY <2>1, <2>3, GoTyped, ClosedKept DEF TypeProcess
    <2> QED BY <2>6, <2>7
  <1>10. CASE CloseClients(p)
    BY <1>10, CloseClientsConns
  <1>11. CASE Exit(p)
    BY <1>11, GoneConns DEF Exit
  <1>12. ASSUME NEW k \in Conn, Accept(p, k) \/ Register(p, k)
         PROVE  ConnInv' /\ LaneInv' /\ ClosedAfterShutdown'
    BY <1>12, AcceptConns
  <1> QED BY <1>2, <1>3, <1>4, <1>5, <1>6, <1>7, <1>8, <1>9, <1>10, <1>11, <1>12 DEF MainStep
-----------------------------------------------------------------------------
(* The clients                                                             *)

\* A client and the connection it alone uses.
LEMMA ClientChanged ==
  ASSUME ConnInv, NEW c \in Client, NEW n \in ClientState, client' = [client EXCEPT ![c] = n],
         NEW k \in Conn, NEW s \in ConnState, conn' = [conn EXCEPT ![k] = s],
         committed' = committed, n.conn \in {k, None}, n.pc = "idle" <=> n.conn = None,
         n.told = "ok" /\ n.method = "memory.write" => c \in committed,
         \A d \in Client : d # c => client[d].conn # k,
         Working(s) => s.to \in Process /\ s.client \in Client /\ s.method \in Capability,
         s.thread = "query" => s.method = "memory.search",
         s.thread = "health" => s.method = "health",
         s.thread = "send" /\ s.result = "ok" /\ s.method = "memory.write" => s.client \in committed,
         n.conn = k => /\ s.client = c /\ s.thread # "none"
                       /\ s.thread # "over" => s.method = n.method
                       /\ s.reply = "ok" /\ n.method = "memory.write" => c \in committed
  PROVE  ConnInv'
  <1>1. /\ client' \in [Client -> ClientState] /\ client'[c] = n
        /\ \A d \in Client : d # c => client'[d] = client[d]
    BY DEF ConnInv
  <1>2. /\ conn' \in [Conn -> ConnState] /\ conn'[k] = s
        /\ \A j \in Conn : j # k => conn'[j] = conn[j]
    BY RowChanged
  <1>3. None \notin Conn
    BY DaemonAssumption
  <1>4. ASSUME NEW j \in Conn, j # k PROVE Fits(j, conn[j])'
    <2>1. PICK r : r = conn[j] /\ r = conn'[j] /\ Fits(j, r)
      BY <1>2, <1>4 DEF ConnInv
    <2>2. \A d \in Client : client'[d].conn = j => client[d] = client'[d]
      BY <1>1, <1>3, <1>4
    <2> QED BY <2>1, <2>2 DEF Fits, Working
  <1>5. Fits(k, conn[k])'
    <2>1. \A d \in Client : client'[d].conn = k => d = c
      BY <1>1
    <2> QED BY <1>1, <1>2, <2>1 DEF Fits, Working
  <1>6. \A d \in Client : Waits(d)'
    BY <1>1 DEF ConnInv, Waits
  <1>7. OkMeansCommitted'
    BY <1>1 DEF ConnInv, OkMeansCommitted
  <1>8. committed' \subseteq Client
    BY DEF ConnInv
  <1> QED BY <1>1, <1>2, <1>4, <1>5, <1>6, <1>7, <1>8 DEF ConnInv

\* A client that waits has a connection of its own.
LEMMA OwnConn ==
  ASSUME ConnInv, NEW c \in Client, client[c].pc # "idle"
  PROVE  /\ client[c].conn \in Conn
         /\ \A d \in Client : d # c => client[d].conn # client[c].conn
  <1>1. PICK k \in Conn : k = client[c].conn
    BY DEF ConnInv, ClientState, Waits
  <1>2. Fits(k, conn[k])
    BY DEF ConnInv
  <1> QED BY <1>1, <1>2 DEF Fits

LEMMA LeftKeeps ==
  ASSUME ConnInv, LaneInv, ClosedAfterShutdown, NEW c \in Client, client[c].pc # "idle",
         NEW told \in {"none", "ok", "error", "degraded"},
         told = "ok" => conn[client[c].conn].reply = "ok",
         Left(c, told), UNCHANGED <<process, lane, committed>>
  PROVE  ConnInv' /\ LaneInv' /\ ClosedAfterShutdown'
  <1>1. PICK k \in Conn : k = client[c].conn /\ \A d \in Client : d # c => client[d].conn # k
    BY OwnConn
  <1>2. PICK r : r = conn[k] /\ r \in ConnState /\ Fits(k, r)
    BY DEF ConnInv
  <1>3. PICK m : m = client[c] /\ m \in ClientState
    BY DEF ConnInv
  <1> DEFINE n == [m EXCEPT !.pc = "idle", !.conn = None, !.told = told]
             s == IF r.thread = "over" THEN NoConn ELSE [Shut(r) EXCEPT !.reply = None]
  <1>4. /\ client' = [client EXCEPT ![c] = n] /\ conn' = [conn EXCEPT ![k] = s]
    BY <1>1, <1>2, <1>3 DEF Left
  <1>5. n \in ClientState /\ n.pc = "idle" /\ n.conn = None /\ n.told = told /\ n.method = m.method
    BY <1>3 DEF ClientState
  <1>6. \/ s \in ConnState /\ s.thread = "none" /\ r.thread # "write"
        \/ /\ s \in ConnState /\ s.thread = r.thread /\ s.to = r.to /\ s.client = r.client
           /\ s.method = r.method /\ s.result = r.result /\ s.up = FALSE
    <2>1. CASE r.thread = "over"
      BY <2>1, NoConnTyped DEF NoConn
    <2>2. CASE r.thread # "over"
      BY ZenonT(60), <1>2, <2>2 DEF Shut, ConnState
    <2> QED BY <2>1, <2>2
  <1> HIDE DEF n, s
  <1>7. Moves(r, s) /\ s \in ConnState
    BY <1>6 DEF Moves, Calm, Working
  <1>8. ConnInv'
    <2>1. n.told = "ok" /\ n.method = "memory.write" => c \in committed
      BY <1>1, <1>2, <1>3, <1>5 DEF Fits
    <2>2. /\ Working(s) => s.to \in Process /\ s.client \in Client /\ s.method \in Capability
          /\ s.thread = "query" => s.method = "memory.search"
          /\ s.thread = "health" => s.method = "health"
          /\ s.thread = "send" /\ s.result = "ok" /\ s.method = "memory.write"
               => s.client \in committed
      BY <1>2, <1>6 DEF Fits, Working
    <2>3. None \notin Conn
      BY DaemonAssumption
    <2> QED BY <1>1, <1>4, <1>5, <1>7, <2>1, <2>2, <2>3, ClientChanged
  <1>9. \A j \in Conn : Moves(conn[j], conn'[j]) /\ Calm(conn[j], conn'[j])
    <2>1. /\ conn'[k] = s /\ \A j \in Conn : j # k => conn'[j] = conn[j]
      BY <1>4, <1>7, RowChanged
    <2> QED BY <1>2, <1>7, <2>1, SameMoves DEF Moves
  <1> QED BY <1>8, <1>9, LaneKept, ClosedKept DEF process

LEMMA SendRequestKeeps ==
  ASSUME ConnInv, LaneInv, ClosedAfterShutdown, NEW c \in Client, SendRequest(c)
  PROVE  ConnInv' /\ LaneInv' /\ ClosedAfterShutdown'
  <1>1. client[c].pc = "hello" /\ UNCHANGED <<process, lane, committed>>
    BY DEF SendRequest
  <1>2. PICK k \in Conn : k = client[c].conn /\ \A d \in Client : d # c => client[d].conn # k
    BY <1>1, OwnConn
  <1>3. PICK r : r = conn[k] /\ r \in ConnState /\ Fits(k, r)
    BY DEF ConnInv
  <1>4. PICK m : m = client[c] /\ m \in ClientState
    BY DEF ConnInv
  <1>5. PICK f \in FrameKind \cup {None} :
          conn' = [conn EXCEPT ![k].reply = None, ![k].frame = f]
    BY <1>2 DEF SendRequest
  <1> DEFINE n == [m EXCEPT !.pc = "reply"]
             s == [r EXCEPT !.reply = None, !.frame = f]
  <1>6. /\ client' = [client EXCEPT ![c] = n] /\ conn' = [conn EXCEPT ![k] = s]
    BY <1>3, <1>4, <1>5 DEF SendRequest
  <1>7. n \in ClientState /\ n.pc = "reply" /\ n.conn = k /\ n.told = m.told /\ n.method = m.method
    BY <1>2, <1>4 DEF ClientState
  <1>8. /\ s \in ConnState /\ s.thread = r.thread /\ s.to = r.to /\ s.client = r.client
        /\ s.method = r.method /\ s.result = r.result /\ s.up = r.up /\ s.reply = None
    BY <1>3 DEF ConnState
  <1> HIDE DEF n, s
  <1>9. None \notin Conn /\ None # "ok"
    BY DaemonAssumption DEF Reply
  <1>10. ConnInv'
    <2>1. n.told = "ok" /\ n.method = "memory.write" => c \in committed
      BY <1>4, <1>7 DEF ConnInv, OkMeansCommitted
    <2>2. /\ Working(s) => s.to \in Process /\ s.client \in Client /\ s.method \in Capability
          /\ s.thread = "query" => s.method = "memory.search"
          /\ s.thread = "health" => s.method = "health"
          /\ s.thread = "send" /\ s.result = "ok" /\ s.method = "memory.write"
               => s.client \in committed
          /\ s.client = c /\ s.thread # "none" /\ (s.thread # "over" => s.method = n.method)
      BY <1>2, <1>3, <1>4, <1>7, <1>8 DEF Fits, Working
    <2> QED BY <1>1, <1>2, <1>6, <1>7, <1>8, <1>9, <2>1, <2>2, ClientChanged
  <1>11. \A j \in Conn : Moves(conn[j], conn'[j]) /\ Calm(conn[j], conn'[j])
    <2>1. /\ conn'[k] = s /\ \A j \in Conn : j # k => conn'[j] = conn[j]
      BY <1>6, <1>8, RowChanged
    <2> QED BY <1>3, <1>8, <2>1, SameMoves DEF Moves, Calm, Working
  <1> QED BY <1>1, <1>10, <1>11, LaneKept, ClosedKept DEF process

\* A daemon that listens has not closed its clients yet.
LEMMA ConnectKeeps ==
  ASSUME ConnInv, LaneInv, ClosedAfterShutdown, \A p \in Process : ProcessInv(p),
         NEW c \in Client, NEW k \in Conn, Connect(c, k)
  PROVE  ConnInv' /\ LaneInv' /\ ClosedAfterShutdown'
  <1>1. /\ client[c].pc = "idle" /\ UNCHANGED <<process, lane, committed>>
        /\ path \in Process /\ listening[path] /\ conn[k].thread = "none"
    BY DEF Connect
  <1>2. PICK m \in Config[c].methods, f \in FrameKind :
          /\ conn' = [conn EXCEPT ![k] = [NoConn EXCEPT !.thread = "backlog", !.to = path,
                        !.client = c, !.up = TRUE, !.method = m, !.frame = f]]
          /\ client' = [client EXCEPT ![c] = [pc |-> "hello", conn |-> k, method |-> m,
                                              told |-> "none"]]
    BY DEF Connect
  <1>3. m \in Capability
    BY DaemonAssumption
  <1>a. PICK s, n : /\ s = [NoConn EXCEPT !.thread = "backlog", !.to = path, !.client = c,
                                             !.up = TRUE, !.method = m, !.frame = f]
                     /\ n = [pc |-> "hello", conn |-> k, method |-> m, told |-> "none"]
    OBVIOUS
  <1>4. /\ s \in ConnState /\ s.thread = "backlog" /\ s.to = path /\ s.client = c
        /\ s.method = m /\ s.reply = None
    BY <1>1, <1>3, <1>a DEF NoConn, ConnState
  <1>5. n \in ClientState /\ n.pc = "hello" /\ n.conn = k /\ n.method = m /\ n.told = "none"
    BY <1>3, <1>a DEF ClientState
  <1>6. conn' = [conn EXCEPT ![k] = s] /\ client' = [client EXCEPT ![c] = n]
    BY <1>2, <1>a
  <1>7. \A d \in Client : client[d].conn # k
    BY <1>1 DEF ConnInv, Fits
  <1>8. None \notin Conn /\ None # "ok"
    BY DaemonAssumption DEF Reply
  <1>9. ConnInv'
    <2>1. /\ s.to \in Process /\ s.client \in Client /\ s.method \in Capability
          /\ s.thread # "query" /\ s.thread # "health" /\ s.thread # "send" /\ s.reply # "ok"
          /\ n.conn # None /\ n.pc # "idle" /\ n.told # "ok" /\ s.client = c
          /\ s.thread # "none" /\ s.method = n.method
      BY <1>1, <1>3, <1>4, <1>5, <1>8
    <2>2. committed' = committed /\ n.conn = k /\ s \in ConnState /\ n \in ClientState
      BY <1>1, <1>4, <1>5
    <2>3. /\ Working(s) => s.to \in Process /\ s.client \in Client /\ s.method \in Capability
          /\ s.thread = "query" => s.method = "memory.search"
          /\ s.thread = "health" => s.method = "health"
          /\ s.thread = "send" /\ s.result = "ok" /\ s.method = "memory.write" => s.client \in committed
          /\ n.conn \in {k, None} /\ (n.pc = "idle" <=> n.conn = None)
          /\ n.told = "ok" /\ n.method = "memory.write" => c \in committed
          /\ n.conn = k => /\ s.client = c /\ s.thread # "none"
                           /\ s.thread # "over" => s.method = n.method
                           /\ s.reply = "ok" /\ n.method = "memory.write" => c \in committed
      BY <2>1, <2>2
    <2>4. \A d \in Client : d # c => client[d].conn # k
      BY <1>7
    <2> QED BY <1>6, <2>2, <2>3, <2>4, ClientChanged
  <1>10. /\ conn'[k] = s /\ \A j \in Conn : j # k => conn'[j] = conn[j]
    BY <1>4, <1>6, RowChanged
  <1>11. LaneInv'
    <2>1. \A j \in Conn : Moves(conn[j], conn'[j]) \/ j = k
      BY <1>10, SameMoves
    <2>2. \A p \in Process : lane[p] # k
      BY <1>1, <1>8 DEF LaneInv
    <2>3. ASSUME NEW p \in Process, lane[p] # None
          PROVE  conn'[lane[p]].to = p /\ conn'[lane[p]].thread = "write"
      <3>1. PICK j \in Conn : j = lane[p] /\ j # k
        BY <2>2, <2>3 DEF LaneInv
      <3> QED BY <1>10, <2>3, <3>1 DEF LaneInv
    <2> QED BY <1>1, <2>3 DEF LaneInv
  <1>12. ClosedAfterShutdown'
    <2>1. main[path] \notin Closed
      BY <1>1 DEF ProcessInv, Closed
    <2> SUFFICES ASSUME NEW q \in Process, main[q] \in Closed, NEW j \in Conn,
                        conn'[j].to = q, Working(conn'[j])
                 PROVE  ~conn'[j].up
      BY <1>1 DEF ClosedAfterShutdown, At, Working, process
    <2>2. j # k
      BY <1>4, <1>10, <2>1
    <2> QED BY <1>10, <2>2 DEF ClosedAfterShutdown, At, Working
  <1> QED BY <1>9, <1>11, <1>12

LEMMA ClientStepKeeps ==
  ASSUME ConnInv, LaneInv, ClosedAfterShutdown, \A p \in Process : ProcessInv(p),
         NEW c \in Client, ClientStep(c)
  PROVE  ConnInv' /\ LaneInv' /\ ClosedAfterShutdown'
  <1>1. CASE Receive(c)
    <2>1. PICK told \in {"ok", "error"} :
            Left(c, told) /\ (told = "ok" => conn[client[c].conn].reply = "ok")
      BY <1>1 DEF Receive
    <2> QED BY <1>1, <2>1, LeftKeeps DEF Receive
  <1>2. CASE GiveUp(c)
    <2>1. PICK told \in {"degraded", "none"} : Left(c, told)
      BY <1>2 DEF GiveUp
    <2> QED BY <1>2, <2>1, LeftKeeps DEF GiveUp
  <1> QED BY <1>1, <1>2, SendRequestKeeps, ConnectKeeps DEF ClientStep
-----------------------------------------------------------------------------
(* The theorems                                                            *)

LEMMA Initially == Init => IInv
  <1> SUFFICES ASSUME Init PROVE IInv
    OBVIOUS
  <1>1. TypeProcess
    BY DaemonAssumption, PcIs DEF Init, TypeProcess
  <1>2. \A p \in Process : ProcessInv(p)
    BY DaemonAssumption DEF Init, ProcessInv, Bound
  <1>3. LaneInv /\ ClosedAfterShutdown
    BY DEF Init, LaneInv, ClosedAfterShutdown, Closed
  <1>4. ConnInv
    <2>1. conn \in [Conn -> ConnState] /\ client \in [Client -> ClientState]
      BY NoConnTyped DEF Init, ClientState
    <2>2. /\ \A k \in Conn : conn[k] = NoConn
          /\ \A c \in Client : client[c].conn = None /\ client[c].pc = "idle" /\ client[c].told = "none"
          /\ NoConn.thread = "none" /\ None \notin Conn
      BY DaemonAssumption DEF Init, NoConn
    <2>3. \A k \in Conn : Fits(k, conn[k])
      BY <2>1, <2>2 DEF Fits, Working
    <2> QED BY <2>1, <2>2, <2>3 DEF Init, ConnInv, Waits, OkMeansCommitted
  <1> QED BY <1>1, <1>2, <1>3, <1>4, Parts

LEMMA Step == IInv /\ [Next]_vars => IInv'
  <1> SUFFICES ASSUME IInv, [Next]_vars PROVE IInv'
    OBVIOUS
  <1>0. TypeProcess /\ (\A p \in Process : ProcessInv(p)) /\ ConnInv /\ LaneInv /\ ClosedAfterShutdown
    BY Parts
  <1>1. TypeProcess' /\ \A p \in Process : ProcessInv(p)'
    BY <1>0, NextProcessTyped, NextProcess
  <1>2. ConnInv' /\ LaneInv' /\ ClosedAfterShutdown'
    <2>1. ASSUME NEW p \in Process, Start(p) PROVE ConnInv' /\ LaneInv' /\ ClosedAfterShutdown'
      BY <1>0, <2>1, PcIs, GoTyped, ConnsAlone DEF Start, Closed, TypeProcess
    <2>2. ASSUME NEW p \in Process, Signal(p) PROVE ConnInv' /\ LaneInv' /\ ClosedAfterShutdown'
      BY <1>0, <2>2, ConnsAlone DEF Signal
    <2>3. ASSUME NEW p \in Process, Crash(p) PROVE ConnInv' /\ LaneInv' /\ ClosedAfterShutdown'
      BY <1>0, <2>3, GoneConns DEF Crash
    <2>4. ASSUME NEW p \in Process, MainStep(p) PROVE ConnInv' /\ LaneInv' /\ ClosedAfterShutdown'
      BY <1>0, <2>4, MainStepConns
    <2>5. ASSUME NEW p \in Process, NEW w \in Worker, WorkerBegin(p, w) \/ WorkerEnd(p, w)
          PROVE  ConnInv' /\ LaneInv' /\ ClosedAfterShutdown'
      BY <1>0, <2>5, ConnsAlone DEF WorkerBegin, WorkerEnd
    <2>6. ASSUME NEW k \in Conn, ThreadStep(k) PROVE ConnInv' /\ LaneInv' /\ ClosedAfterShutdown'
      BY <1>0, <2>6, ThreadStepKeeps
    <2>7. ASSUME NEW c \in Client, ClientStep(c) PROVE ConnInv' /\ LaneInv' /\ ClosedAfterShutdown'
      BY <1>0, <2>7, ClientStepKeeps
    <2>8. CASE UNCHANGED vars
      BY <1>0, <2>8, ConnsAlone DEF vars
    <2> QED BY <2>1, <2>2, <2>3, <2>4, <2>5, <2>6, <2>7, <2>8 DEF Next
  <1>3. (IInv)'
    <2>1. IInv' <=> /\ TypeProcess' /\ (\A p \in Process : ProcessInv(p)')
                    /\ ConnInv' /\ LaneInv' /\ ClosedAfterShutdown'
      BY DEF IInv, TypeOK, TypeProcess, Pc, ConnInv, LaneInv, ClientState
    <2> QED BY <1>1, <1>2, <2>1
  <1> QED BY <1>3

LEMMA Inductive == Spec => []IInv
  BY Initially, Step, PTL DEF Spec

\* Every variable has its type, and whoever holds _handler_lock is in a
\* mutation: no error path of _handle_frame leaks the lane.
THEOREM TypeCorrect == Spec => []TypeOK
  BY Inductive, PTL DEF IInv

\* Whoever can commit to the database owns its lock file, for any number of
\* servers, connections and crashes (ServerApplication.close,
\* DatabaseOwnership): two processes never write at once.
THEOREM OneWriter == Spec => []SingleWriter
  <1>1. IInv => SingleWriter
    <2> SUFFICES ASSUME IInv, NEW p \in Process, db[p] PROVE owner = p
      BY DEF SingleWriter, LiveWriter
    <2> QED BY DEF IInv, ProcessInv
  <1> QED BY <1>1, Inductive, PTL

\* Once shutdown closed its clients a process has no open connection, although
\* some of its threads still run (_accept_loop, shutdown).
THEOREM ClientsStayClosed == Spec => []ClosedAfterShutdown
  BY Inductive, PTL DEF IInv

\* A client that was told its write succeeded finds it in the database
\* (_handle_frame, _send, EnfoldClient.request).
THEOREM AnswersAreTrue == Spec => []OkMeansCommitted
  BY Inductive, PTL DEF IInv

\* The socket path leads to the daemon that accepts, and a daemon that ended
\* without a crash left no socket behind (_bind, _unlink_owned_socket).
THEOREM PathServed == Spec => []PathIsServed
  <1>1. IInv => PathIsServed
    BY PcIs DEF IInv, ProcessInv, PathIsServed, Bound
  <1> QED BY <1>1, Inductive, PTL
=============================================================================
