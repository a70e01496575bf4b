------------------------------- MODULE Daemon -------------------------------
(***************************************************************************)
(* The Unix-socket daemon: ServerApplication (server.py) owns a database   *)
(* through a lock file and runs the workers and UnixJsonDaemon             *)
(* (daemon.py), which accepts connections, one thread each, and serves     *)
(* requests of EnfoldClient (client.py) and of other programs.             *)
(*                                                                         *)
(* All processes are configured with the same database and socket path.    *)
(* A socket inode is named after the process that bound it, or Stale once  *)
(* that process died.  A request stands for its idempotency key: the       *)
(* client that sends it; that a key is applied once is the subject of      *)
(* module FactStore.                                                       *)
(***************************************************************************)
EXTENDS Naturals, FiniteSets

CONSTANTS
  Process,     \* server processes
  Client,      \* programs that send requests
  Conn,        \* connections: a socket pair and the thread that serves it
  None,
  Stale,       \* a socket inode whose process died
  Cleanup,     \* cleanup_stale_socket
  Config,      \* Config[c]: what client c says and asks for
  Worker,      \* the workers that are configured
  MaxCrashes   \* bound on the crashes of a run

Capability == {"health", "memory.search", "memory.write"}
Version == [major: Nat, minor: Nat, schema: Nat]

\* "changed" is a request whose versions are not those of the handshake;
\* "malformed" is everything decode_frame refuses and every long frame.
FrameKind == {"handshake", "request", "changed", "response", "malformed"}
Reply == {"accepted", "refused", "ok", "error"}

\* strict: the program is EnfoldClient, which checks what it is answered and
\* sends its frames in order.  fallback: a degraded read provider is set.
ASSUME DaemonAssumption ==
  /\ Config \in [Client -> [own: BOOLEAN, strict: BOOLEAN, fallback: BOOLEAN,
                            version: Version, caps: SUBSET Capability,
                            methods: SUBSET Capability]]
  /\ Worker \subseteq {"extraction", "embedding"}
  /\ Cleanup \in BOOLEAN /\ MaxCrashes \in Nat
  /\ None \notin Process \cup Client \cup Conn \cup Capability \cup FrameKind \cup Reply
  /\ Stale \notin Process \cup {None}

VARIABLES
  owner,    \* the process that holds the flock on <database>.enfold.lock
  main,     \* what the main thread of each process is about to do
  db,       \* db[p]: the connections of p to the database are open
  worker,   \* worker[p][w]: the thread of worker w of p
  path,     \* the inode at the socket path
  seen,     \* the inode p inspected before it cleans the path up
  listening,\* p accepts connections
  stop,     \* the _stop event of p
  lane,     \* _handler_lock of p: the connection that holds it
  conn,     \* the connections
  client,   \* what each client is doing
  committed,\* clients whose write is in the database
  crashes

vars == <<owner, main, db, worker, path, seen, listening, stop, lane, conn,
          client, committed, crashes>>
process == <<owner, main, db, worker, path, seen, listening, stop>>

\* The order of the main thread's steps.
Starting == {"open", "prepare", "recheck", "unlink", "bind", "listen"}
Accepting == {"accept", "register"}
Closing == {"unbind", "remove", "close", "join", "extraction", "embedding",
            "disconnect", "release", "stuck", "exit"}
\* Steps after the sockets of all clients were closed.
Closed == {"join", "extraction", "embedding", "disconnect", "release", "stuck", "exit"}

ConnState == [thread: {"none", "backlog", "accepted", "read", "lane", "write",
                       "query", "health", "send", "over"},
              to: Process \cup {None}, client: Client \cup {None}, up: BOOLEAN,
              method: Capability \cup {None}, greeted: BOOLEAN, frame: FrameKind \cup {None},
              result: Reply \cup {None}, reply: Reply \cup {None}]
NoConn == [thread |-> "none", to |-> None, client |-> None, up |-> FALSE,
           method |-> None, greeted |-> FALSE, frame |-> None, result |-> None, reply |-> None]

\* The type invariant; whoever holds the lane is in a handler, so no error
\* path leaks it (_handle_frame).
TypeOK ==
  /\ owner \in Process \cup {None}
  /\ main \in [Process -> {"down"} \cup Starting \cup Accepting \cup Closing]
  /\ db \in [Process -> BOOLEAN]
  /\ worker \in [Process -> [Worker -> {"off", "idle", "writing", "last"}]]
  /\ path \in Process \cup {Stale, None}
  /\ seen \in [Process -> Process \cup {Stale, None}]
  /\ listening \in [Process -> BOOLEAN]
  /\ stop \in [Process -> BOOLEAN]
  /\ lane \in [Process -> Conn \cup {None}]
  /\ conn \in [Conn -> ConnState]
  /\ client \in [Client -> [pc: {"idle", "hello", "reply"}, conn: Conn \cup {None},
                            method: Capability \cup {None}, told: {"none", "ok", "error", "degraded"}]]
  /\ committed \subseteq Client
  /\ crashes \in 0..MaxCrashes
  /\ \A p \in Process : lane[p] # None =>
       conn[lane[p]].to = p /\ conn[lane[p]].thread = "write"

Init ==
  /\ owner = None /\ path = None /\ committed = {} /\ crashes = 0
  /\ main = [p \in Process |-> "down"]
  /\ db = [p \in Process |-> FALSE]
  /\ worker = [p \in Process |-> [w \in Worker |-> "off"]]
  /\ seen = [p \in Process |-> None]
  /\ listening = [p \in Process |-> FALSE]
  /\ stop = [p \in Process |-> FALSE]
  /\ lane = [p \in Process |-> None]
  /\ conn = [k \in Conn |-> NoConn]
  /\ client = [c \in Client |-> [pc |-> "idle", conn |-> None, method |-> None,
                              told |-> "none"]]

Go(p, pc) == main' = [main EXCEPT ![p] = pc]
At(p, k) == conn[k].to = p /\ conn[k].thread \notin {"none", "over"}

Attached(k) == \E c \in Client : client[c].conn = k

\* A connection whose server end is closed.  What was sent to a client that is
\* still there can be read; nothing else is left when the thread ended too.
Shut(r) == [r EXCEPT !.up = FALSE, !.frame = None]
Over(k, r) == IF Attached(k) THEN [NoConn EXCEPT !.thread = "over", !.client = r.client,
                                     !.reply = r.reply]
                             ELSE NoConn

\* The connections after the threads of those in ks ended.
Ended(p, ks) == [k \in Conn |->
  IF k \in ks /\ At(p, k) THEN Over(k, conn[k]) ELSE conn[k]]
-----------------------------------------------------------------------------
(* ServerApplication: from start to serving                                *)

\* DatabaseOwnership.acquire, before the database is opened.  A process that
\* does not get the lock exits and leaves no trace.
Acquirable(p) == owner = None
Start(p) ==
  /\ main[p] = "down" /\ Acquirable(p)
  /\ owner' = p
  /\ Go(p, "open")
  /\ UNCHANGED <<db, worker, path, seen, listening, stop, lane, conn, client,
                 committed, crashes>>

\* The rest of __init__, then serve_forever starts the workers.
Open(p) ==
  /\ main[p] = "open"
  /\ db' = [db EXCEPT ![p] = TRUE]
  /\ worker' = [worker EXCEPT ![p] = [w \in Worker |-> "idle"]]
  /\ Go(p, "prepare")
  /\ UNCHANGED <<owner, path, seen, listening, stop, lane, conn, client,
                 committed, crashes>>

\* Any error in __init__ closes what was opened and releases the lock.
OpenFails(p) ==
  /\ main[p] = "open"
  /\ owner' = IF owner = p THEN None ELSE owner
  /\ Go(p, "down")
  /\ UNCHANGED <<db, worker, path, seen, listening, stop, lane, conn, client,
                 committed, crashes>>

\* A signal: request_shutdown.  Its handler is installed after __init__.
Signal(p) ==
  /\ main[p] \notin {"down", "open"} /\ ~stop[p]
  /\ stop' = [stop EXCEPT ![p] = TRUE]
  /\ UNCHANGED <<owner, main, db, worker, path, seen, listening, lane, conn,
                 client, committed, crashes>>

\* _prepare_socket_path: lstat and probe.  An inode nobody listens on is
\* stale, also the one of a daemon that is between bind and listen.
Probe(p) ==
  /\ main[p] = "prepare"
  /\ \/ path = None /\ Go(p, "bind") /\ UNCHANGED seen
     \/ /\ path # None
        /\ path \in Process => ~listening[path]
        /\ IF Cleanup THEN /\ Go(p, "recheck")
                           /\ seen' = [seen EXCEPT ![p] = path]
                      ELSE Go(p, "close") /\ UNCHANGED seen
     \/ path \in Process /\ listening[path] /\ Go(p, "close") /\ UNCHANGED seen
  /\ UNCHANGED <<owner, db, worker, path, listening, stop, lane, conn, client,
                 committed, crashes>>

\* The second lstat of the stale path, then its removal.
Recheck(p) ==
  /\ main[p] = "recheck"
  /\ Go(p, IF path = seen[p] THEN "unlink" ELSE "close")
  /\ UNCHANGED <<owner, db, worker, path, seen, listening, stop, lane, conn,
                 client, committed, crashes>>
UnlinkStale(p) ==
  /\ main[p] = "unlink"
  /\ path' = None
  /\ seen' = [seen EXCEPT ![p] = None]
  /\ Go(p, IF path = None THEN "close" ELSE "bind")
  /\ UNCHANGED <<owner, db, worker, listening, stop, lane, conn, client,
                 committed, crashes>>

\* _bind: bind fails when the path exists.
Bind(p) ==
  /\ main[p] = "bind"
  /\ IF path = None THEN path' = p /\ Go(p, "listen")
                    ELSE UNCHANGED path /\ Go(p, "close")
  /\ UNCHANGED <<owner, db, worker, seen, listening, stop, lane, conn, client,
                 committed, crashes>>

\* listen, and the last look at the path: the inode may be another one's.
Listen(p) ==
  /\ main[p] = "listen"
  /\ listening' = [listening EXCEPT ![p] = path = p]
  /\ Go(p, IF path = p THEN "accept" ELSE "close")
  /\ UNCHANGED <<owner, db, worker, path, seen, stop, lane, conn, client,
                 committed, crashes>>

\* chmod or listen fails after bind: the listener is closed and its own inode
\* removed.
ListenFails(p) ==
  /\ main[p] = "listen"
  /\ path' = IF path = p THEN None ELSE path
  /\ Go(p, "close")
  /\ UNCHANGED <<owner, db, worker, seen, listening, stop, lane, conn, client,
                 committed, crashes>>
-----------------------------------------------------------------------------
(* _accept_loop                                                            *)

Refuse(k) == [conn EXCEPT ![k] = Over(k, @)]

\* accept, inspect_peer_credentials.
Accept(p, k) ==
  /\ main[p] = "accept" /\ ~stop[p]
  /\ At(p, k) /\ conn[k].thread = "backlog"
  /\ IF Config[conn[k].client].own
       THEN /\ conn' = [conn EXCEPT ![k].thread = "accepted"]
            /\ Go(p, "register")
       ELSE conn' = Refuse(k) /\ UNCHANGED main
  /\ UNCHANGED <<owner, db, worker, path, seen, listening, stop, lane, client,
                 committed, crashes>>

\* Under _clients_lock: the client is registered and its thread started.
Registrable(p) == ~stop[p]
Register(p, k) ==
  /\ main[p] = "register" /\ At(p, k) /\ conn[k].thread = "accepted"
  /\ IF Registrable(p)
       THEN conn' = [conn EXCEPT ![k].thread = "read"] /\ Go(p, "accept")
       ELSE conn' = Refuse(k) /\ Go(p, "unbind")
  /\ UNCHANGED <<owner, db, worker, path, seen, listening, stop, lane, client,
                 committed, crashes>>

StopAccepting(p) ==
  /\ main[p] = "accept" /\ stop[p]
  /\ Go(p, "unbind")
  /\ UNCHANGED <<owner, db, worker, path, seen, listening, stop, lane, conn,
                 client, committed, crashes>>
-----------------------------------------------------------------------------
(* Shutting down                                                           *)

\* serve_forever: _close_listener resets what was not accepted ...
CloseListener(p) ==
  /\ main[p] = "unbind"
  /\ listening' = [listening EXCEPT ![p] = FALSE]
  /\ conn' = Ended(p, {k \in Conn : conn[k].thread = "backlog"})
  /\ Go(p, "remove")
  /\ UNCHANGED <<owner, db, worker, path, seen, stop, lane, client, committed,
                 crashes>>

\* Mutant: the socket is left to the next start.
UnlinkOwnedNot(p) ==
  /\ main[p] = "remove"
  /\ Go(p, "close")
  /\ UNCHANGED <<owner, db, worker, path, seen, listening, stop, lane, conn,
                 client, committed, crashes>>

\* ... and _unlink_owned_socket removes its own inode only.
UnlinkOwned(p) ==
  /\ main[p] = "remove"
  /\ path' = IF path = p THEN None ELSE path
  /\ Go(p, "close")
  /\ UNCHANGED <<owner, db, worker, seen, listening, stop, lane, conn, client,
                 committed, crashes>>
\* Mutant: the clients are expected to go by themselves.
CloseClientsNot(p) ==
  /\ main[p] = "close"
  /\ stop' = [stop EXCEPT ![p] = TRUE]
  /\ Go(p, "join")
  /\ UNCHANGED <<owner, db, worker, path, seen, listening, lane, conn, client,
                 committed, crashes>>
\* shutdown: the event, the snapshot of the clients and the closing of their
\* sockets.  Threads go on with what they are doing.
CloseClients(p) ==
  /\ main[p] = "close"
  /\ stop' = [stop EXCEPT ![p] = TRUE]
  /\ conn' = [k \in Conn |-> IF At(p, k) THEN Shut(conn[k]) ELSE conn[k]]
  /\ Go(p, "join")
  /\ UNCHANGED <<owner, db, worker, path, seen, listening, lane, client,
                 committed, crashes>>

\* The joins end when the threads did, or at the deadline.
Join(p) ==
  /\ main[p] = "join"
  /\ Go(p, "extraction")
  /\ UNCHANGED <<owner, db, worker, path, seen, listening, stop, lane, conn,
                 client, committed, crashes>>

\* worker.stop: no new job, and a wait of shutdown_timeout for the current one.
\* When it is not over by then stop raises, close() is left and main ends; the
\* interpreter waits for all workers, those that were not told to stop too.
StopWorker(p, w, then) ==
  /\ main[p] = w
  /\ IF w \notin Worker THEN Go(p, then) /\ UNCHANGED worker
     ELSE IF worker[p][w] = "writing"
       THEN worker' = [worker EXCEPT ![p][w] = "last"] /\ Go(p, "stuck")
       ELSE worker' = [worker EXCEPT ![p][w] = "off"] /\ Go(p, then)
  /\ UNCHANGED <<owner, db, path, seen, listening, stop, lane, conn, client,
                 committed, crashes>>
\* Mutant: the connections are left open.
DisconnectNot(p) ==
  /\ main[p] = "disconnect"
  /\ Go(p, "release")
  /\ UNCHANGED <<owner, db, worker, path, seen, listening, stop, lane, conn,
                 client, committed, crashes>>
Disconnect(p) ==
  /\ main[p] = "disconnect"
  /\ db' = [db EXCEPT ![p] = FALSE]
  /\ Go(p, "release")
  /\ UNCHANGED <<owner, worker, path, seen, listening, stop, lane, conn, client,
                 committed, crashes>>
Release(p) ==
  /\ main[p] = "release"
  /\ owner' = IF owner = p THEN None ELSE owner
  /\ Go(p, "exit")
  /\ UNCHANGED <<db, worker, path, seen, listening, stop, lane, conn, client,
                 committed, crashes>>

\* The system's part in the end of a process.
Gone(p, inode) ==
  /\ owner' = IF owner = p THEN None ELSE owner
  /\ Go(p, "down")
  /\ db' = [db EXCEPT ![p] = FALSE]
  /\ worker' = [worker EXCEPT ![p] = [w \in Worker |-> "off"]]
  /\ path' = IF path = p THEN inode ELSE path
  /\ seen' = [q \in Process |->
       IF q = p THEN None ELSE IF seen[q] = p THEN inode ELSE seen[q]]
  /\ listening' = [listening EXCEPT ![p] = FALSE]
  /\ stop' = [stop EXCEPT ![p] = FALSE]
  /\ lane' = [lane EXCEPT ![p] = None]
  /\ conn' = Ended(p, Conn)
  /\ UNCHANGED <<client, committed>>

\* The interpreter waits for the workers and not for the client threads.
Exit(p) ==
  /\ main[p] = "exit" \/ (main[p] = "stuck" /\ \A w \in Worker : worker[p][w] = "off")
  /\ Gone(p, p)
  /\ UNCHANGED crashes
Crash(p) ==
  /\ main[p] # "down" /\ crashes < MaxCrashes
  /\ crashes' = crashes + 1
  /\ Gone(p, Stale)
-----------------------------------------------------------------------------
(* The embedding and the extraction worker                                 *)

WorkerBegin(p, w) ==
  /\ worker[p][w] = "idle"
  /\ worker' = [worker EXCEPT ![p][w] = "writing"]
  /\ UNCHANGED <<owner, main, db, path, seen, listening, stop, lane, conn,
                 client, committed, crashes>>
\* The job is done; a worker that was told to stop ends.
WorkerEnd(p, w) ==
  /\ worker[p][w] \in {"writing", "last"}
  /\ worker' = [worker EXCEPT ![p][w] = IF @ = "last" THEN "off" ELSE "idle"]
  /\ UNCHANGED <<owner, main, db, path, seen, listening, stop, lane, conn,
                 client, committed, crashes>>
-----------------------------------------------------------------------------
(* _serve_client: the thread of a connection                               *)

\* decode_frame with the checks of the frame classes.
Decodable(frame) == frame # "malformed"

\* negotiate_handshake and _negotiate; the server is 1.0 with schema 1.
Server == [major |-> 1, minor |-> 0, schema |-> 1]
Negotiable(v) ==
  /\ v.major = Server.major
  /\ v.minor <= Server.minor
  /\ v.schema = Server.schema

\* The outcome of _handle_frame: say something and go on reading or close,
\* or start what was asked for.
Answer(k, reply, keep) ==
  LET said == [conn[k] EXCEPT !.frame = None, !.result = None,
                 !.reply = IF conn[k].up THEN reply ELSE @,
                 !.greeted = @ \/ reply = "accepted"]
  IN  IF keep /\ conn[k].up /\ ~stop[conn[k].to]
        THEN [said EXCEPT !.thread = "read"] ELSE Over(k, said)

Handled(k) ==
  LET f == conn[k].frame
      cfg == Config[conn[k].client]
  IN  IF ~Decodable(f) THEN Answer(k, IF conn[k].greeted THEN "error" ELSE "refused", FALSE)
      ELSE IF ~conn[k].greeted THEN
        IF f = "handshake" /\ Negotiable(cfg.version)
          THEN Answer(k, "accepted", TRUE) ELSE Answer(k, "refused", FALSE)
      ELSE IF f # "request" THEN Answer(k, "error", FALSE)
      ELSE IF conn[k].method \notin cfg.caps THEN Answer(k, "error", TRUE)
      ELSE [conn[k] EXCEPT !.frame = None,
              !.thread = CASE conn[k].method = "health" -> "health"
                           [] conn[k].method = "memory.search" -> "query"
                           [] OTHER -> "lane"]

\* recv and _handle_frame.  The event was looked at before recv blocked.
HandleFrame(k) ==
  /\ conn[k].thread = "read" /\ conn[k].up /\ conn[k].frame # None
  /\ conn' = [conn EXCEPT ![k] = Handled(k)]
  /\ UNCHANGED <<process, lane, client, committed, crashes>>

\* The client or shutdown closed the socket, or the client was silent for
\* client_timeout.
HangUp(k) ==
  /\ conn[k].thread = "read"
  /\ conn[k].frame = None \/ ~conn[k].up
  /\ conn' = [conn EXCEPT ![k] =
                Answer(k, IF conn[k].greeted THEN "error" ELSE "refused", FALSE)]
  /\ UNCHANGED <<process, lane, client, committed, crashes>>

\* Mutations wait for _handler_lock, also while the daemon stops.
EnterLane(k) ==
  /\ conn[k].thread = "lane" /\ lane[conn[k].to] = None
  /\ lane' = [lane EXCEPT ![conn[k].to] = k]
  /\ conn' = [conn EXCEPT ![k].thread = "write"]
  /\ UNCHANGED <<process, client, committed, crashes>>

\* The transaction of the mutation commits, or fails: refused by the service,
\* by the database or because the connection was closed meanwhile.
Commit(k) ==
  /\ conn[k].thread = "write" /\ db[conn[k].to]
  /\ committed' = committed \cup {conn[k].client}
  /\ conn' = [conn EXCEPT ![k].thread = "send", ![k].result = "ok"]
  /\ lane' = [lane EXCEPT ![conn[k].to] = None]
  /\ UNCHANGED <<process, client, crashes>>
\* Mutants: the closed connection is not noticed; the lock is not released.
FailLocked(k) ==
  /\ conn[k].thread \in {"write", "query", "health"}
  /\ conn' = [conn EXCEPT ![k].thread = "send", ![k].result = "error"]
  /\ UNCHANGED <<process, lane, client, committed, crashes>>
FailSilently(k) ==
  /\ conn[k].thread \in {"write", "query", "health"}
  /\ conn' = [conn EXCEPT ![k].thread = "send", ![k].result = "ok"]
  /\ lane' = [lane EXCEPT ![conn[k].to] = IF @ = k THEN None ELSE @]
  /\ UNCHANGED <<process, client, committed, crashes>>

Fail(k) ==
  /\ conn[k].thread \in {"write", "query", "health"}
  /\ conn' = [conn EXCEPT ![k].thread = "send", ![k].result = "error"]
  /\ lane' = [lane EXCEPT ![conn[k].to] = IF @ = k THEN None ELSE @]
  /\ UNCHANGED <<process, client, committed, crashes>>
\* PerRequestReadHandler opens a connection for a read, so that reads go on
\* when the daemon's own are closed; health uses the daemon's, without the lane.
Health(k) ==
  /\ conn[k].thread = "health" /\ db[conn[k].to]
  /\ conn' = [conn EXCEPT ![k].thread = "send", ![k].result = "ok"]
  /\ UNCHANGED <<process, lane, client, committed, crashes>>
Query(k) ==
  /\ conn[k].thread = "query"
  /\ conn' = [conn EXCEPT ![k].thread = "send", ![k].result = "ok"]
  /\ UNCHANGED <<process, lane, client, committed, crashes>>

\* _send; a response that is too long becomes an error.
Send(k) ==
  /\ conn[k].thread = "send"
  /\ \E r \in {conn[k].result, "error"} :
       conn' = [conn EXCEPT ![k] = Answer(k, r, TRUE)]
  /\ UNCHANGED <<process, lane, client, committed, crashes>>
-----------------------------------------------------------------------------
(* Clients                                                                 *)

\* request: connect and send the handshake.  Other programs send anything.
Connect(c, k) ==
  /\ client[c].pc = "idle"
  /\ path \in Process /\ listening[path] /\ conn[k].thread = "none"
  /\ \E m \in Config[c].methods, f \in FrameKind :
       /\ Config[c].strict => f = "handshake" /\ m \in Config[c].caps
       /\ conn' = [conn EXCEPT ![k] = [NoConn EXCEPT !.thread = "backlog", !.to = path,
                    !.client = c, !.up = TRUE, !.method = m, !.frame = f]]
       /\ client' = [client EXCEPT ![c] = [pc |-> "hello", conn |-> k, method |-> m,
                                           told |-> "none"]]
  /\ UNCHANGED <<process, lane, committed, crashes>>

\* The connection after the client closed its end.
Left(c, told) ==
  /\ client' = [client EXCEPT ![c].pc = "idle", ![c].conn = None,
                              ![c].told = told]
  /\ conn' = [conn EXCEPT ![client[c].conn] =
                IF @.thread = "over" THEN NoConn ELSE [Shut(@) EXCEPT !.reply = None]]

\* _validate_handshake, then the request is sent.
SendRequest(c) ==
  LET k == client[c].conn IN
  /\ client[c].pc = "hello" /\ conn[k].reply = "accepted" /\ conn[k].frame = None
  /\ Config[c].strict => Config[c].version = Server
  /\ client' = [client EXCEPT ![c].pc = "reply"]
  /\ \E f \in FrameKind :
       /\ Config[c].strict => f = "request"
       /\ conn' = [conn EXCEPT ![k].reply = None, ![k].frame = IF conn[k].up THEN f ELSE None]
  /\ UNCHANGED <<process, lane, committed, crashes>>

\* _validate_response; the answer outlives the server's end of the socket.
\* Only a strict client can tell an answer from a protocol error.
Receive(c) ==
  LET k == client[c].conn IN
  /\ client[c].pc # "idle" /\ conn[k].reply # None
  /\ client[c].pc = "hello" => conn[k].reply # "accepted"
  /\ Left(c, IF conn[k].reply = "ok" THEN "ok" ELSE "error")
  /\ UNCHANGED <<process, lane, committed, crashes>>

\* The socket was closed or request_timeout passed: a transport error, which
\* HermesMemorySession._read may answer from its degraded provider.  The
\* caller may ask again.
GiveUp(c) ==
  /\ client[c].pc # "idle"
  /\ Left(c, IF Config[c].fallback /\ client[c].method = "memory.search"
               THEN "degraded" ELSE "none")
  /\ UNCHANGED <<process, lane, committed, crashes>>
-----------------------------------------------------------------------------
MainStep(p) ==
  \/ Open(p) \/ OpenFails(p) \/ Probe(p) \/ Recheck(p) \/ UnlinkStale(p)
  \/ Bind(p) \/ Listen(p) \/ ListenFails(p) \/ StopAccepting(p) \/ CloseListener(p)
  \/ UnlinkOwned(p) \/ CloseClients(p) \/ Join(p) 
  \/ StopWorker(p, "extraction", "embedding") \/ StopWorker(p, "embedding", "disconnect")
  \/ Disconnect(p) \/ Release(p) \/ Exit(p)
  \/ \E k \in Conn : Accept(p, k) \/ Register(p, k)
ThreadStep(k) ==
  HandleFrame(k) \/ HangUp(k) \/ EnterLane(k) \/ Commit(k) \/ Fail(k)
  \/ Health(k) \/ Query(k) \/ Send(k)
ClientStep(c) ==
  SendRequest(c) \/ Receive(c) \/ GiveUp(c) \/ \E k \in Conn : Connect(c, k)

Next ==
  \/ \E p \in Process : \/ Start(p) \/ Signal(p) \/ Crash(p) \/ MainStep(p)
                        \/ \E w \in Worker : WorkerBegin(p, w) \/ WorkerEnd(p, w)
  \/ \E k \in Conn : ThreadStep(k)
  \/ \E c \in Client : ClientStep(c)

Spec == Init /\ [][Next]_vars

\* The main thread of a process runs and the jobs of its workers end (a model
\* call has a deadline of its own); nobody is obliged to start or to ask.
FairSpec ==
  /\ Spec
  /\ \A p \in Process :
       WF_vars(MainStep(p)) /\ \A w \in Worker : WF_vars(WorkerEnd(p, w))
-----------------------------------------------------------------------------
(* Properties                                                              *)

\* Threads and workers that can still commit.
LiveWriter(p) ==
  db[p] /\ (\/ \E w \in Worker : worker[p][w] \in {"writing", "last"}
            \/ \E k \in Conn : At(p, k) /\ conn[k].thread = "write")

\* Whoever can commit to the database owns it, so that never two processes do:
\* neither the threads shutdown gave up on nor a stuck worker outlive the lock
\* (ServerApplication.close, DatabaseOwnership).
SingleWriter == \A p \in Process : LiveWriter(p) => owner = p

\* Once shutdown closed the clients, no connection of the process is open,
\* although some of its threads still run: none can answer after the database
\* was handed over (_accept_loop, shutdown).
ClosedAfterShutdown ==
  \A p \in Process : main[p] \in Closed =>
    \A k \in Conn : At(p, k) => ~conn[k].up

\* A client that was told its write succeeded finds it in the database,
\* whatever crashed or was closed around it (_handle_frame).
OkMeansCommitted ==
  \A c \in Client :
    client[c].told = "ok" /\ client[c].method = "memory.write" => c \in committed

\* Who asks the path reaches the serving daemon, and a daemon that stopped
\* without crashing left no socket behind (_bind, _unlink_owned_socket).
PathIsServed ==
  /\ \A p \in Process : main[p] \in Accepting => path = p
  /\ \A p \in Process : main[p] = "down" => path # p

\* A daemon that is told to stop ends: no client, thread or worker can hold its
\* shutdown up for ever (shutdown, close, SupervisedExtractionWorker.stop).
StopNotStranded ==
  \A p \in Process : stop[p] ~> main[p] = "down"
=============================================================================
