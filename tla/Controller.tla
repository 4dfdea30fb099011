------------------------------ MODULE Controller ------------------------------
(***************************************************************************)
(* The life of the controller of libkieker (monitoring/controller/         *)
(* kieker_controller.c and kieker_io.c) in a process: the constructor that *)
(* connects to the collector when the library is loaded, the probes that   *)
(* write to the socket, the aspects that initialise and finalise a second  *)
(* time, atexit and the destructor.                                        *)
(*                                                                         *)
(* The process has one table of file descriptors, which the controller     *)
(* shares with the program.  For a descriptor that is a connection the     *)
(* model keeps how far the collector got: it must know the names of the    *)
(* record types before it can decode a record.                             *)
(***************************************************************************)
EXTENDS Integers

CONSTANTS
  MaxFd,        \* the largest file descriptor of the process
  MaxHandlers,  \* bound: the aspects initialise while fewer handlers are registered
  Settings      \* the surroundings a process may find itself in, see Setting

\* What kieker_io_client_socket_open may meet.
Outcome == {"connected", "refused", "no_socket", "unknown_host"}

\* What a process may meet: the outcomes of a connection, a gethostname() or
\* pthread_rwlock_init() that fails, an atexit() that fails, a collector that closes
\* its end, and a program that calls the initialize and finalize of the aspects.
Setting ==
  [outcomes : SUBSET Outcome, may_lack_name : BOOLEAN, may_lack_atexit : BOOLEAN,
   may_break : BOOLEAN, aspects : BOOLEAN]

\* kieker_io_socket_close takes the descriptor as an unsigned short.
ASSUME FdAssumption == MaxFd \in Nat /\ MaxFd > 3 /\ MaxFd < 65535
ASSUME SettingsAssumption == Settings \subseteq Setting

VARIABLES
  setting,     \* the surroundings of this process, which never change
  fds,         \* what each descriptor is
  socket,      \* kieker_controller.socket
  init_state,  \* kieker_controller.init_state
  lock,        \* kieker_trace_hash_lock, as a whole
  known,       \* TRUE once the names of the record types are in the string table
  stray,       \* where bytes of the controller went that is not the collector
  handlers,    \* calls of kieker_controller_finalize registered with atexit
  finalizing,  \* TRUE while kieker_controller_finalize has closed the socket, no more
  phase        \* of the process

vars == <<setting, fds, socket, init_state, lock, known, stray, handlers, finalizing, phase>>

Fd == 0 .. MaxFd
Foreign == {"standard", "file"}
\* A connection is silent at first, typed after the names of the record types,
\* untyped if a record came first.
Connection == {"silent", "typed", "untyped"}
\* A socket that is not connected, and a connection the collector closed.
Useless == {"socket", "broken"}

Free(f) == {d \in Fd : f[d] = "free"}
\* The descriptor socket() and open() take; none when all are in use.
Lowest(f) == {d \in Free(f) : \A e \in Free(f) : d =< e}

-----------------------------------------------------------------------------
(* The system calls, as functions of the descriptor table.                  *)

WriteFails(f, d) == d \notin Fd \/ f[d] \in {"free"} \cup Useless

Written(f, d, what) ==
  IF WriteFails(f, d) \/ f[d] # "silent" THEN f
  ELSE [f EXCEPT ![d] = IF what = "types" THEN "typed" ELSE "untyped"]

Strays(f, d) == IF WriteFails(f, d) \/ f[d] \in Connection THEN {} ELSE {f[d]}

\* kieker_io_socket_close(unsigned short socket); a failing close changes nothing.
Closed(f, d) ==
  [e \in Fd |-> IF e = (d + 65536) % 65536 THEN "free" ELSE f[e]]

-----------------------------------------------------------------------------
(* Initialisation.                                                          *)

Connected == {[fds |-> [fds EXCEPT ![d] = "silent"], socket |-> d] : d \in Lowest(fds)}

\* Seeded bug: a refused connection is reported as 0.
SocketOpenZero(outcome) ==
  IF outcome = "connected" THEN Connected ELSE {[fds |-> fds, socket |-> 0]}

\* What kieker_io_client_socket_open returns and leaves open: h_errno is one of
\* HOST_NOT_FOUND, TRY_AGAIN, NO_RECOVERY and NO_DATA, 1 to 4.
SocketOpen(outcome) ==
  CASE outcome = "connected" -> Connected
    [] outcome = "refused" ->
         {[fds |-> [fds EXCEPT ![d] = "socket"], socket |-> -1] : d \in Lowest(fds)}
    [] outcome = "no_socket" -> {[fds |-> fds, socket |-> -1]}
    [] outcome = "unknown_host" ->
         {[fds |-> [fds EXCEPT ![d] = "socket"], socket |-> h_errno] :
            d \in Lowest(fds), h_errno \in 1 .. 4}

\* Seeded bug: the controller is finalised when the connection fails.
ConnectFinalizes(outcome) ==
  {[fds |-> r.fds, socket |-> r.socket,
    state |-> IF r.socket = -1 THEN "FAILED" ELSE init_state,
    lock |-> IF r.socket = -1 THEN "destroyed" ELSE "ready",
    handlers |-> IF r.socket = -1 THEN handlers ELSE handlers + 1] : r \in SocketOpen(outcome)}

\* kieker_controller_connect.  Its own kieker_controller_finalize, when atexit() fails,
\* is part of this step.
Connect(outcome) ==
  {CASE r.socket = -1 ->
          [fds |-> r.fds, socket |-> -1, state |-> "FAILED", lock |-> "ready",
           handlers |-> handlers]
     [] r.socket # -1 /\ atexit_fails ->
          [fds |-> Closed(r.fds, r.socket), socket |-> r.socket, state |-> "FAILED",
           lock |-> "destroyed", handlers |-> handlers]
     [] r.socket # -1 /\ ~atexit_fails ->
          [fds |-> r.fds, socket |-> r.socket, state |-> init_state, lock |-> "ready",
           handlers |-> handlers + 1] :
     r \in SocketOpen(outcome), atexit_fails \in {f \in BOOLEAN : f => setting.may_lack_atexit}}

\* Seeded bug: the names enter the table and are not sent.
RegisterSilently(r) ==
  /\ fds' = r.fds /\ init_state' = r.state /\ known' = TRUE
  /\ UNCHANGED stray

\* kieker_controller_register_event_types: the names are written when the string
\* table does not have them yet.
Register(r) ==
  /\ fds' = IF known THEN r.fds ELSE Written(r.fds, r.socket, "types")
  /\ stray' = IF known THEN stray ELSE stray \cup Strays(r.fds, r.socket)
  /\ init_state' = IF ~known /\ WriteFails(r.fds, r.socket) THEN "FAILED" ELSE r.state
  /\ known' = TRUE

\* socket() fails when the process has no descriptor left.
Possible == IF Free(fds) = {} THEN {"no_socket"} ELSE setting.outcomes

\* Seeded bug: a controller that failed is initialised again.
InitializeAnyway ==
  \/ /\ init_state = "UNCONFIGURED" /\ setting.may_lack_name
     /\ init_state' = "FAILED"
     /\ UNCHANGED <<fds, socket, lock, known, stray, handlers>>
  \/ \E outcome \in Possible : \E r \in Connect(outcome) :
       /\ socket' = r.socket /\ lock' = r.lock /\ handlers' = r.handlers
       /\ Register(r)

\* kieker_controller_initialize.
Initialize ==
  \/ /\ init_state # "UNCONFIGURED"
     /\ UNCHANGED <<fds, socket, init_state, lock, known, stray, handlers>>
  \/ /\ init_state = "UNCONFIGURED" /\ setting.may_lack_name
     /\ init_state' = "FAILED"
     /\ UNCHANGED <<fds, socket, lock, known, stray, handlers>>
  \/ /\ init_state = "UNCONFIGURED"
     /\ \E outcome \in Possible : \E r \in Connect(outcome) :
          /\ socket' = r.socket /\ lock' = r.lock /\ handlers' = r.handlers
          /\ Register(r)

\* Seeded bug: the lock is destroyed before the socket is closed.
DestroyFirst ==
  /\ ~finalizing /\ finalizing' = TRUE
  /\ lock' = "destroyed"
  /\ UNCHANGED <<fds, socket, init_state, known, stray>>

\* Seeded bug: the socket stays open.
LeaveOpen ==
  /\ ~finalizing /\ finalizing' = TRUE
  /\ UNCHANGED <<fds, socket, init_state, lock, known, stray>>

\* kieker_controller_finalize begins with kieker_io_socket_close ...
Finalize ==
  /\ ~finalizing /\ finalizing' = TRUE
  /\ fds' = Closed(fds, socket)
  /\ UNCHANGED <<socket, init_state, lock, known, stray>>

\* ... and ends with kieker_trace_finalize; other threads may run in between.
FinalizeTrace ==
  /\ finalizing /\ finalizing' = FALSE
  /\ lock' = "destroyed" /\ init_state' = "UNCONFIGURED"
  /\ phase' = IF phase = "unloading" THEN "gone" ELSE phase
  /\ UNCHANGED <<fds, socket, known, stray, handlers>>

-----------------------------------------------------------------------------
(* The life of the process.                                                 *)

\* init, __attribute__((constructor)).
Constructor ==
  /\ phase = "loading" /\ phase' = "running"
  /\ Initialize
  /\ UNCHANGED finalizing

\* kieker_probe_aspect_event_initialize, _controlflow_initialize.  When the former
\* cannot load its exclude file it calls exit(-1), the step Exit.
AspectInitialize ==
  /\ setting.aspects /\ phase = "running" /\ ~finalizing
  /\ handlers < MaxHandlers
  /\ Initialize
  /\ UNCHANGED <<finalizing, phase>>

\* kieker_probe_aspect_event_finalize, _controlflow_finalize.
AspectFinalize ==
  /\ setting.aspects /\ phase = "running"
  /\ Finalize
  /\ UNCHANGED <<handlers, phase>>

\* A probe calls kieker_controller_send; instrumented code runs during exit too.
Send ==
  /\ phase \in {"running", "exiting", "unloading"}
  /\ fds' = Written(fds, socket, "record")
  /\ stray' = stray \cup Strays(fds, socket)
  /\ UNCHANGED <<socket, init_state, lock, known, handlers, finalizing, phase>>

\* A probe meets a new name: kieker_controller_send_string, whose failure, unlike
\* that of a record, is remembered.
SendString ==
  /\ phase \in {"running", "exiting", "unloading"}
  /\ init_state' = IF WriteFails(fds, socket) THEN "FAILED" ELSE init_state
  /\ stray' = stray \cup Strays(fds, socket)
  /\ UNCHANGED <<fds, socket, lock, known, handlers, finalizing, phase>>

\* The program, one of its threads or handlers, opens a file or closes it.
OpenFile ==
  /\ phase \notin {"loading", "gone"}
  /\ \E d \in Lowest(fds) : fds' = [fds EXCEPT ![d] = "file"]
  /\ UNCHANGED <<socket, init_state, lock, known, stray, handlers, finalizing, phase>>

CloseFile ==
  /\ phase \notin {"loading", "gone"}
  /\ \E d \in Fd : fds[d] = "file" /\ fds' = [fds EXCEPT ![d] = "free"]
  /\ UNCHANGED <<socket, init_state, lock, known, stray, handlers, finalizing, phase>>

\* The collector ends; the program is assumed to ignore SIGPIPE.
Break ==
  /\ setting.may_break
  /\ \E d \in Fd : fds[d] \in Connection /\ fds' = [fds EXCEPT ![d] = "broken"]
  /\ UNCHANGED <<socket, init_state, lock, known, stray, handlers, finalizing, phase>>

\* exit() begins to run the handlers.
Exit ==
  /\ phase = "running" /\ ~finalizing /\ phase' = "exiting"
  /\ UNCHANGED <<fds, socket, init_state, lock, known, stray, handlers, finalizing>>

RunHandler ==
  /\ phase = "exiting" /\ handlers > 0
  /\ Finalize
  /\ handlers' = handlers - 1
  /\ UNCHANGED phase

HandlersDone ==
  /\ phase = "exiting" /\ ~finalizing /\ handlers = 0 /\ phase' = "unloading"
  /\ UNCHANGED <<fds, socket, init_state, lock, known, stray, handlers, finalizing>>

\* fini, __attribute__((destructor)).
Destructor ==
  /\ phase = "unloading"
  /\ Finalize
  /\ UNCHANGED <<handlers, phase>>

Gone == phase = "gone" /\ UNCHANGED vars

Init ==
  /\ setting \in Settings
  /\ fds = [d \in Fd |-> IF d <= 2 THEN "standard" ELSE "free"]
  /\ socket = 0 /\ init_state = "UNCONFIGURED"
  /\ lock = "static" /\ known = FALSE /\ stray = {}
  /\ handlers = 0 /\ finalizing = FALSE /\ phase = "loading"

ProgramStep == Send \/ SendString \/ OpenFile \/ CloseFile \/ Exit

KiekerStep ==
  Constructor \/ AspectInitialize \/ AspectFinalize \/ RunHandler \/ Destructor \/ FinalizeTrace

Next == (KiekerStep \/ HandlersDone \/ ProgramStep \/ Break \/ Gone) /\ UNCHANGED setting

Spec == Init /\ [][Next]_vars

\* The C runtime finishes what exit() began, and a thread its kieker_controller_finalize.
AtExit == RunHandler \/ HandlersDone \/ Destructor \/ FinalizeTrace
LiveSpec == Spec /\ WF_vars(AtExit /\ UNCHANGED setting)

-----------------------------------------------------------------------------
(* Properties.                                                              *)

\* The variables hold what the code can put into them.
TypeOK ==
  /\ setting \in Settings
  /\ fds \in [Fd -> {"free"} \cup Foreign \cup Connection \cup Useless]
  /\ socket \in {-1} \cup Fd
  /\ init_state \in {"UNCONFIGURED", "FAILED"}
  /\ lock \in {"static", "ready", "destroyed"}
  /\ known \in BOOLEAN /\ stray \subseteq Foreign
  /\ handlers \in Nat /\ finalizing \in BOOLEAN
  /\ phase \in {"loading", "running", "exiting", "unloading", "gone"}

\* While the controller's socket is a connection the lock of the registry is
\* initialised: a record that arrives was never made behind a destroyed lock, not
\* even between two initialisations, inside kieker_controller_finalize or at exit.
LockOutlivesConnection ==
  socket \in Fd /\ fds[socket] \in Connection => lock = "ready"

\* A controller that failed keeps its socket and stays failed until the end of a
\* kieker_controller_finalize.
NoReconnectAfterFailure ==
  [][init_state = "FAILED" => socket' = socket /\ (init_state' = "FAILED" \/ finalizing)]_vars

\* The comment of kieker_io_socket_close: it closes a socket connection opened
\* before.  The descriptors of the program stay open until the program closes them.
ClosesOnlyConnections ==
  [][KiekerStep => \A d \in Fd : fds[d] \in Foreign => fds'[d] = fds[d]]_vars

\* When the program exits the collector sees the end of the connection, unless the
\* aspects opened a second one.
ConnectionEnds ==
  phase = "exiting" /\ ~setting.aspects ~> \A d \in Fd : fds[d] \notin Connection

\* In an ordinary program only the constructor initialises, and no call of the
\* system fails that is not about the connection.
Ordinary == ~setting.aspects /\ ~setting.may_lack_name /\ ~setting.may_lack_atexit

\* The name of the collector's host can be resolved.
Resolvable == "unknown_host" \notin setting.outcomes

\* The comment of kieker_io_client_socket_open: it returns the socket of the
\* connection, or a negative number.  So what an ordinary program writes to while it
\* runs is a connection, whole or broken, or nothing; whatever files it opens.
SocketOrError ==
  Ordinary /\ phase = "running" => socket < 0 \/ fds[socket] \in Connection \cup {"broken"}

\* That is so when the name of the host can be resolved.
ResolvedSocketOrError == Resolvable => SocketOrError

\* Up to exit no byte of the controller ends up in a file or terminal of an ordinary
\* program whose collector has a name that resolves, though both take their
\* descriptors from the same table.
NothingStrays == Ordinary /\ Resolvable /\ phase = "running" => stray = {}

\* The comment of kieker_controller_register_event_types: the record types are
\* registered.  Without the aspects no collector then gets a record before it knows
\* their names, whatever fails.
TypesComeFirst == ~setting.aspects => \A d \in Fd : fds[d] # "untyped"

\* While an ordinary program runs the lock is initialised, and a controller without a
\* socket stays failed: probes may be called in either state, the name of the host
\* resolved or not.
ReadyForProbes ==
  Ordinary /\ phase = "running" => lock = "ready" /\ (socket = -1 => init_state = "FAILED")

\* What makes them inductive: nothing of Kieker is there before the constructor, and
\* after it no connection waits for the names of the types; without the aspects
\* nothing is finalised before exit.
Untouched ==
  /\ init_state = "UNCONFIGURED" /\ ~known /\ stray = {} /\ handlers = 0
  /\ \A d \in Fd : fds[d] \notin Connection

ControllerInv ==
  /\ TypeOK /\ LockOutlivesConnection
  /\ ResolvedSocketOrError /\ NothingStrays /\ TypesComeFirst /\ ReadyForProbes
  /\ phase = "loading" => Untouched
  /\ ~setting.aspects /\ phase # "loading" => \A d \in Fd : fds[d] # "silent"
  /\ finalizing => phase # "loading" /\ (setting.aspects \/ phase # "running")
  /\ finalizing => ~(socket \in Fd /\ fds[socket] \in Connection)
===============================================================================
