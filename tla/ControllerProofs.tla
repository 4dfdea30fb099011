--------------------------- MODULE ControllerProofs ---------------------------
(***************************************************************************)
(* Proofs about Controller, for any number of descriptors a short can name *)
(* and any surroundings.  What holds only in some surroundings says so in  *)
(* the property itself: Ordinary and Resolvable of Controller.             *)
(***************************************************************************)
EXTENDS Controller, TLAPS

Kind == {"free"} \cup Foreign \cup Connection \cup Useless

LEMMA InitialState == Init => ControllerInv
<1>. SUFFICES ASSUME Init PROVE ControllerInv
  OBVIOUS
<1>1. TypeOK
  <2>1. fds \in [Fd -> {"free"} \cup Foreign \cup Connection \cup Useless]
    BY DEF Init, Foreign
  <2>2. socket \in Fd
    BY FdAssumption DEF Init, Fd
  <2>3. known \in BOOLEAN /\ finalizing \in BOOLEAN
    BY DEF Init
  <2>. QED
    BY <2>1, <2>2, <2>3 DEF Init, TypeOK
<1>2. \A d \in Fd : fds[d] \notin Connection /\ fds[d] # "silent" /\ fds[d] # "untyped"
  BY DEF Init, Fd, Connection
<1>. QED
  BY <1>1, <1>2 DEF Init, ControllerInv, LockOutlivesConnection, ResolvedSocketOrError,
     SocketOrError, NothingStrays, TypesComeFirst, ReadyForProbes, Untouched

-----------------------------------------------------------------------------
(* The system calls.                                                        *)

\* Opening the socket takes a free descriptor or none, and gives it a use; a host
\* whose name resolves yields a connection or -1.
LEMMA SocketOpened ==
  ASSUME TypeOK, NEW outcome \in Outcome, NEW r \in SocketOpen(outcome)
  PROVE  /\ r.fds \in [Fd -> Kind] /\ r.socket \in {-1} \cup Fd
         /\ outcome = "connected" =>
              r.socket \in Fd /\ r.fds = [fds EXCEPT ![r.socket] = "silent"]
         /\ outcome # "connected" =>
              \A d \in Fd : r.fds[d] = fds[d] \/ r.fds[d] = "socket"
         /\ outcome \in {"refused", "no_socket"} => r.socket = -1
<1>. USE DEF TypeOK, Kind, Useless, Connection
<1>0. \A d \in Lowest(fds) : d \in Fd
  BY DEF Lowest, Free
<1>1. CASE outcome = "connected"
  <2>1. PICK d \in Lowest(fds) : r = [fds |-> [fds EXCEPT ![d] = "silent"], socket |-> d]
    BY <1>1 DEF SocketOpen, Connected
  <2>. QED
    BY <1>0, <1>1, <2>1, FdAssumption DEF Fd
<1>2. CASE outcome = "refused"
  <2>1. PICK d \in Lowest(fds) : r = [fds |-> [fds EXCEPT ![d] = "socket"], socket |-> -1]
    BY <1>2 DEF SocketOpen
  <2>. QED
    BY <1>0, <1>2, <2>1, FdAssumption DEF Fd
<1>3. CASE outcome = "no_socket"
  <2>1. r = [fds |-> fds, socket |-> -1]
    BY <1>3 DEF SocketOpen
  <2>. QED
    BY <1>3, <2>1, FdAssumption DEF Fd
<1>4. CASE outcome = "unknown_host"
  <2>1. PICK d \in Lowest(fds), h_errno \in 1 .. 4 :
          r = [fds |-> [fds EXCEPT ![d] = "socket"], socket |-> h_errno]
    BY <1>4 DEF SocketOpen
  <2>. QED
    BY <1>0, <1>4, <2>1, FdAssumption DEF Fd
<1>. QED
  BY <1>1, <1>2, <1>3, <1>4 DEF Outcome

\* A successful kieker_io_socket_close is of the descriptor of the controller.
LEMMA SocketClosed ==
  ASSUME NEW f \in [Fd -> Kind], NEW s \in {-1} \cup Fd
  PROVE  /\ Closed(f, s) \in [Fd -> Kind]
         /\ \A d \in Fd : Closed(f, s)[d] = IF d = s THEN "free" ELSE f[d]
<1>1. \A d \in Fd : d = (s + 65536) % 65536 <=> d = s
  <2>1. s \in Int /\ -1 =< s /\ s < 65535 /\ (MaxFd \in Nat /\ MaxFd < 65535)
    BY FdAssumption DEF Fd
  <2>2. (s + 65536) % 65536 = IF s = -1 THEN 65535 ELSE s
    BY <2>1
  <2>. QED
    BY <2>1, <2>2 DEF Fd
<1>. QED
  BY <1>1 DEF Closed, Kind

\* A write changes what the collector knows of one connection, nothing else.
LEMMA WrittenFds ==
  ASSUME NEW f \in [Fd -> Kind], NEW s \in Int, NEW what \in {"types", "record"}
  PROVE  /\ Written(f, s, what) \in [Fd -> Kind]
         /\ \A d \in Fd :
              \/ Written(f, s, what)[d] = f[d]
              \/ /\ d = s /\ f[d] = "silent"
                 /\ Written(f, s, what)[d] = IF what = "types" THEN "typed" ELSE "untyped"
         /\ s \in Fd /\ f[s] = "silent" =>
              /\ ~WriteFails(f, s)
              /\ Written(f, s, what)[s] = IF what = "types" THEN "typed" ELSE "untyped"
         /\ Strays(f, s) \subseteq Foreign
         /\ (s \in Fd => f[s] \in Connection \cup {"broken"}) => Strays(f, s) = {}
<1>1. CASE WriteFails(f, s) \/ f[s] # "silent"
  <2>1. Written(f, s, what) = f
    BY <1>1 DEF Written
  <2>2. ~(s \in Fd /\ f[s] = "silent")
    BY <1>1 DEF WriteFails, Useless
  <2>3. Strays(f, s) \subseteq Foreign
    BY DEF Strays, WriteFails, Kind, Useless
  <2>4. (s \in Fd => f[s] \in Connection \cup {"broken"}) => Strays(f, s) = {}
    BY DEF Strays, WriteFails, Useless
  <2>. QED
    BY <2>1, <2>2, <2>3, <2>4
<1>2. CASE s \in Fd /\ f[s] = "silent"
  <2>1. ~WriteFails(f, s) /\ Strays(f, s) = {}
    BY <1>2 DEF WriteFails, Strays, Useless, Connection
  <2>2. Written(f, s, what) = [f EXCEPT ![s] = IF what = "types" THEN "typed" ELSE "untyped"]
    BY <1>2, <2>1 DEF Written
  <2>. QED
    BY <1>2, <2>1, <2>2 DEF Kind, Connection
<1>. QED
  BY <1>1, <1>2 DEF WriteFails

-----------------------------------------------------------------------------
(* Initialisation and finalisation.                                         *)

InitializedType ==
  /\ fds \in [Fd -> Kind] /\ socket \in {-1} \cup Fd
  /\ init_state \in {"UNCONFIGURED", "FAILED"} /\ lock \in {"static", "ready", "destroyed"}
  /\ known \in BOOLEAN /\ stray \subseteq Foreign /\ handlers \in Nat /\ finalizing \in BOOLEAN

LEMMA TypeParts == TypeOK <=> InitializedType /\ setting \in Settings
                     /\ phase \in {"loading", "running", "exiting", "unloading", "gone"}
  BY DEF TypeOK, InitializedType, Kind

\* One step of kieker_controller_connect: a connection is silent and has its lock, and
\* with an atexit() that works the lock stays whatever became of the socket.
LEMMA ConnectedOrNot ==
  ASSUME TypeOK, NEW outcome \in Outcome, NEW r \in Connect(outcome)
  PROVE  /\ r.fds \in [Fd -> Kind] /\ r.socket \in {-1} \cup Fd
         /\ r.state \in {"UNCONFIGURED", "FAILED"} /\ r.lock \in {"ready", "destroyed"}
         /\ r.handlers \in Nat
         /\ r.socket \in Fd /\ r.fds[r.socket] \in Connection => r.lock = "ready"
         /\ \A d \in Fd : \/ r.fds[d] \in {fds[d], "socket", "free"}
                         \/ (d = r.socket /\ r.fds[d] = "silent")
         /\ r.socket = -1 => r.state = "FAILED"
         /\ ~setting.may_lack_atexit => r.lock = "ready"
         /\ outcome \in {"refused", "no_socket"} => r.socket = -1
         /\ outcome = "connected" /\ ~setting.may_lack_atexit =>
              r.socket \in Fd /\ r.fds = [fds EXCEPT ![r.socket] = "silent"]
<1>1. PICK q \in SocketOpen(outcome), fails \in {f \in BOOLEAN : f => setting.may_lack_atexit} :
        r = CASE q.socket = -1 ->
                   [fds |-> q.fds, socket |-> -1, state |-> "FAILED", lock |-> "ready",
                    handlers |-> handlers]
              [] q.socket # -1 /\ fails ->
                   [fds |-> Closed(q.fds, q.socket), socket |-> q.socket, state |-> "FAILED",
                    lock |-> "destroyed", handlers |-> handlers]
              [] q.socket # -1 /\ ~fails ->
                   [fds |-> q.fds, socket |-> q.socket, state |-> init_state, lock |-> "ready",
                    handlers |-> handlers + 1]
  BY DEF Connect
<1>2. /\ q.fds \in [Fd -> Kind] /\ q.socket \in {-1} \cup Fd
      /\ outcome = "connected" =>
           q.socket \in Fd /\ q.fds = [fds EXCEPT ![q.socket] = "silent"]
      /\ outcome # "connected" =>
           \A d \in Fd : q.fds[d] = fds[d] \/ q.fds[d] = "socket"
      /\ outcome \in {"refused", "no_socket"} => q.socket = -1
  BY SocketOpened
<1>3. handlers \in Nat /\ init_state \in {"UNCONFIGURED", "FAILED"} /\ fds \in [Fd -> Kind]
  BY DEF TypeOK, Kind
<1>4. -1 \notin Fd
  BY DEF Fd
<1>0. \A d \in Fd : \/ q.fds[d] \in {fds[d], "socket"}
                   \/ (d = q.socket /\ q.fds[d] = "silent")
  <2>1. CASE outcome = "connected"
    BY <1>2, <1>3, <2>1
  <2>. QED
    BY <1>2, <2>1
<1>5. CASE q.socket = -1
  <2>1. r = [fds |-> q.fds, socket |-> -1, state |-> "FAILED", lock |-> "ready",
             handlers |-> handlers]
    BY <1>1, <1>5
  <2>. QED
    BY <1>0, <1>2, <1>3, <1>4, <1>5, <2>1
<1>6. CASE q.socket # -1 /\ fails
  <2>1. r = [fds |-> Closed(q.fds, q.socket), socket |-> q.socket, state |-> "FAILED",
             lock |-> "destroyed", handlers |-> handlers]
    BY <1>1, <1>6
  <2>2. /\ Closed(q.fds, q.socket) \in [Fd -> Kind]
        /\ \A d \in Fd : Closed(q.fds, q.socket)[d] = IF d = q.socket THEN "free" ELSE q.fds[d]
    BY <1>2, SocketClosed
  <2>3. setting.may_lack_atexit
    BY <1>6
  <2>4. q.socket \in Fd /\ r.fds[q.socket] = "free"
    BY <1>2, <1>6, <2>1, <2>2
  <2>5. \A d \in Fd : r.fds[d] \in {fds[d], "socket", "free"}
    BY <1>0, <2>1, <2>2
  <2>. QED
    BY <1>2, <1>3, <1>6, <2>1, <2>2, <2>3, <2>4, <2>5 DEF Connection
<1>7. CASE q.socket # -1 /\ ~fails
  <2>1. r = [fds |-> q.fds, socket |-> q.socket, state |-> init_state, lock |-> "ready",
             handlers |-> handlers + 1]
    BY <1>1, <1>7
  <2>. QED
    BY <1>0, <1>2, <1>3, <1>7, <2>1
<1>. QED
  BY <1>5, <1>6, <1>7

\* Every way through kieker_controller_initialize keeps the types and the lock.
LEMMA InitializeStep ==
  ASSUME TypeOK, LockOutlivesConnection, Initialize, UNCHANGED finalizing
  PROVE  InitializedType' /\ LockOutlivesConnection'
<1>1. CASE /\ UNCHANGED <<fds, socket, lock, known, stray, handlers>>
           /\ init_state' \in {init_state, "FAILED"}
  BY <1>1, TypeParts DEF InitializedType, LockOutlivesConnection
<1>2. ASSUME NEW outcome \in Possible, NEW r \in Connect(outcome),
             socket' = r.socket, lock' = r.lock, handlers' = r.handlers, Register(r)
      PROVE  InitializedType' /\ LockOutlivesConnection'
  <2>1. outcome \in Outcome
    BY SettingsAssumption DEF Possible, TypeOK, Setting, Outcome
  <2>2. /\ r.fds \in [Fd -> Kind] /\ r.socket \in {-1} \cup Fd
        /\ r.state \in {"UNCONFIGURED", "FAILED"} /\ r.lock \in {"ready", "destroyed"}
        /\ r.handlers \in Nat
        /\ r.socket \in Fd /\ r.fds[r.socket] \in Connection => r.lock = "ready"
    BY <2>1, ConnectedOrNot
  <2>3. /\ Written(r.fds, r.socket, "types") \in [Fd -> Kind]
        /\ \A d \in Fd :
             \/ Written(r.fds, r.socket, "types")[d] = r.fds[d]
             \/ (d = r.socket /\ r.fds[d] = "silent")
        /\ Strays(r.fds, r.socket) \subseteq Foreign
    <3>1. r.socket \in Int
      BY <2>2 DEF Fd
    <3>. QED
      BY <2>2, <3>1, WrittenFds
  <2>4. /\ fds' \in [Fd -> Kind]
        /\ \A d \in Fd : fds'[d] = r.fds[d] \/ (d = r.socket /\ r.fds[d] = "silent")
    BY <1>2, <2>2, <2>3 DEF Register
  <2>5. InitializedType'
    BY <1>2, <2>2, <2>3, <2>4 DEF Register, InitializedType, TypeOK
  <2>6. LockOutlivesConnection'
    BY <1>2, <2>2, <2>4 DEF LockOutlivesConnection, Connection
  <2>. QED
    BY <2>5, <2>6
<1>. QED
  BY <1>1, <1>2 DEF Initialize

\* kieker_controller_finalize first closes the descriptor of the controller ...
LEMMA FinalizeStep ==
  ASSUME TypeOK, Finalize, handlers' \in Nat
  PROVE  /\ InitializedType' /\ LockOutlivesConnection'
         /\ \A d \in Fd : fds'[d] = fds[d] \/ fds'[d] = "free"
         /\ ~(socket' \in Fd /\ fds'[socket'] \in Connection)
<1>1. /\ fds' \in [Fd -> Kind]
      /\ \A d \in Fd : fds'[d] = IF d = socket THEN "free" ELSE fds[d]
  BY SocketClosed, TypeParts DEF Finalize, InitializedType
<1>2. InitializedType'
  BY <1>1, TypeParts DEF Finalize, InitializedType
<1>3. ~(socket' \in Fd /\ fds'[socket'] \in Connection)
  BY <1>1 DEF Finalize, Connection
<1>. QED
  BY <1>1, <1>2, <1>3 DEF LockOutlivesConnection

\* ... and then, with no connection there, destroys the lock.
LEMMA FinalizeTraceStep ==
  ASSUME TypeOK, FinalizeTrace, UNCHANGED setting,
         ~(socket \in Fd /\ fds[socket] \in Connection)
  PROVE  /\ TypeOK' /\ LockOutlivesConnection' /\ fds' = fds
<1>1. ~(socket' \in Fd /\ fds'[socket'] \in Connection)
  BY DEF FinalizeTrace
<1>. QED
  BY <1>1 DEF FinalizeTrace, TypeOK, LockOutlivesConnection

\* The constructor of a program without aspects: no connection is left silent or
\* untyped, whatever fails, and an ordinary program is ready for probes.
LEMMA ConstructorStep ==
  ASSUME ControllerInv, ~setting.aspects, Constructor
  PROVE  /\ \A d \in Fd : fds'[d] # "silent" /\ fds'[d] # "untyped"
         /\ Ordinary => lock' = "ready" /\ (socket' = -1 => init_state' = "FAILED")
         /\ Ordinary /\ Resolvable =>
              /\ socket' < 0 \/ fds'[socket'] \in Connection \cup {"broken"}
              /\ stray' = {}
<1>1. TypeOK /\ init_state = "UNCONFIGURED" /\ ~known /\ stray = {} /\ phase' = "running"
      /\ (\A d \in Fd : fds[d] \notin Connection)
  BY DEF Constructor, ControllerInv, Untouched
<1>2. CASE setting.may_lack_name /\ UNCHANGED <<fds, socket, lock, known, stray, handlers>>
  BY <1>1, <1>2 DEF Connection, Ordinary
<1>3. ASSUME NEW outcome \in Possible, NEW r \in Connect(outcome),
             socket' = r.socket, lock' = r.lock, Register(r)
      PROVE  /\ \A d \in Fd : fds'[d] # "silent" /\ fds'[d] # "untyped"
             /\ Ordinary => lock' = "ready" /\ (socket' = -1 => init_state' = "FAILED")
             /\ Ordinary /\ Resolvable =>
                  /\ socket' < 0 \/ fds'[socket'] \in Connection \cup {"broken"}
                  /\ stray' = {}
  <2>1. outcome \in Outcome
    BY <1>1, SettingsAssumption DEF Possible, TypeOK, Setting, Outcome
  <2>2. /\ r.fds \in [Fd -> Kind] /\ r.socket \in {-1} \cup Fd
        /\ \A d \in Fd : \/ r.fds[d] \in {fds[d], "socket", "free"}
                        \/ (d = r.socket /\ r.fds[d] = "silent")
        /\ r.socket = -1 => r.state = "FAILED"
        /\ ~setting.may_lack_atexit => r.lock = "ready"
        /\ outcome \in {"refused", "no_socket"} => r.socket = -1
        /\ outcome = "connected" /\ ~setting.may_lack_atexit =>
             r.socket \in Fd /\ r.fds = [fds EXCEPT ![r.socket] = "silent"]
    BY <1>1, <2>1, ConnectedOrNot
  <2>3. r.socket \in Int /\ -1 \notin Fd
    BY <2>2 DEF Fd
  <2>4. /\ fds' = Written(r.fds, r.socket, "types") /\ stray' = Strays(r.fds, r.socket)
        /\ init_state' = IF WriteFails(r.fds, r.socket) THEN "FAILED" ELSE r.state
    BY <1>1, <1>3 DEF Register
  <2>5. \A d \in Fd : r.fds[d] \notin Connection \/ (d = r.socket /\ r.fds[d] = "silent")
    BY <1>1, <2>2 DEF Connection
  <2>6. \A d \in Fd : fds'[d] # "silent" /\ fds'[d] # "untyped"
    <3>1. \A d \in Fd : \/ fds'[d] = r.fds[d] /\ (d = r.socket => r.fds[d] # "silent")
                       \/ fds'[d] = "typed"
      BY <2>2, <2>3, <2>4, WrittenFds
    <3>. QED
      BY <2>5, <3>1 DEF Connection
  <2>7. ASSUME Ordinary PROVE lock' = "ready" /\ (socket' = -1 => init_state' = "FAILED")
    BY <1>3, <2>2, <2>4, <2>7 DEF Ordinary
  <2>8. ASSUME Ordinary, Resolvable
        PROVE  /\ socket' < 0 \/ fds'[socket'] \in Connection \cup {"broken"}
               /\ stray' = {}
    <3>1. CASE outcome = "connected"
      <4>1. r.socket \in Fd /\ r.fds[r.socket] = "silent"
        BY <1>1, <2>2, <2>8, <3>1 DEF Ordinary, TypeOK
      <4>2. fds'[r.socket] = "typed" /\ Strays(r.fds, r.socket) = {}
        <5>1. (r.socket \in Fd => r.fds[r.socket] \in Connection \cup {"broken"})
          BY <4>1 DEF Connection
        <5>2. Written(r.fds, r.socket, "types")[r.socket] = "typed"
          BY <2>2, <2>3, <4>1, WrittenFds
        <5>3. Strays(r.fds, r.socket) = {}
          BY <2>2, <2>3, <5>1, WrittenFds
        <5>. QED
          BY <2>4, <5>2, <5>3
      <4>. QED
        BY <1>3, <2>4, <4>2 DEF Connection
    <3>2. CASE outcome # "connected"
      <4>1. outcome \in {"refused", "no_socket"}
        BY <2>1, <2>8, <3>2 DEF Possible, Resolvable, Outcome
      <4>2. Strays(r.fds, r.socket) = {} /\ socket' = -1
        BY <1>3, <2>2, <2>3, <4>1 DEF Strays, WriteFails
      <4>. QED
        BY <2>4, <4>2
    <3>. QED
      BY <3>1, <3>2
  <2>. QED
    BY <2>6, <2>7, <2>8
<1>4. \/ setting.may_lack_name /\ UNCHANGED <<fds, socket, lock, known, stray, handlers>>
      \/ \E outcome \in Possible : \E r \in Connect(outcome) :
           socket' = r.socket /\ lock' = r.lock /\ Register(r)
  BY <1>1 DEF Constructor, Initialize
<1>. QED
  BY <1>2, <1>3, <1>4

-----------------------------------------------------------------------------
(* The invariant.                                                           *)

\* A step that begins to finalise leaves the running phases alone, or happens in a
\* program with aspects.
LEMMA FinalizeKeeps ==
  ASSUME ControllerInv, Finalize, handlers' \in Nat, UNCHANGED <<setting, phase>>,
         phase \in {"running", "exiting", "unloading"}, setting.aspects \/ phase # "running"
  PROVE  ControllerInv'
<1>1. /\ InitializedType' /\ LockOutlivesConnection'
      /\ \A d \in Fd : fds'[d] = fds[d] \/ fds'[d] = "free"
      /\ ~(socket' \in Fd /\ fds'[socket'] \in Connection)
  BY FinalizeStep DEF ControllerInv
<1>2. TypeOK'
  BY <1>1, TypeParts DEF ControllerInv, TypeOK, InitializedType, Kind
<1>3. TypesComeFirst' /\ (~setting.aspects /\ phase # "loading" => \A d \in Fd : fds[d] # "silent")'
  BY <1>1 DEF ControllerInv, TypesComeFirst
<1>4. ResolvedSocketOrError' /\ NothingStrays' /\ ReadyForProbes'
  BY DEF ResolvedSocketOrError, SocketOrError, NothingStrays, ReadyForProbes, Ordinary
<1>. QED
  BY <1>1, <1>2, <1>3, <1>4 DEF ControllerInv

LEMMA FinalizeTraceKeeps ==
  ASSUME ControllerInv, FinalizeTrace, UNCHANGED setting
  PROVE  ControllerInv'
<1>1. TypeOK' /\ LockOutlivesConnection' /\ fds' = fds
  BY FinalizeTraceStep DEF ControllerInv, FinalizeTrace
<1>2. /\ phase # "loading" /\ phase' # "loading" /\ ~finalizing'
      /\ (setting.aspects \/ phase' # "running")
  BY DEF ControllerInv, FinalizeTrace
<1>3. ResolvedSocketOrError' /\ NothingStrays' /\ ReadyForProbes'
  BY <1>2 DEF ResolvedSocketOrError, SocketOrError, NothingStrays, ReadyForProbes, Ordinary
<1>4. TypesComeFirst' /\ (~setting.aspects /\ phase # "loading" => \A d \in Fd : fds[d] # "silent")'
  BY <1>1, <1>2 DEF ControllerInv, TypesComeFirst
<1>. QED
  BY <1>1, <1>2, <1>3, <1>4 DEF ControllerInv

\* A step of the program or the collector that keeps the controller as it is, and a
\* connection a connection, whole or broken.
LEMMA ForeignStepKeeps ==
  ASSUME ControllerInv, fds' \in [Fd -> Kind],
         UNCHANGED <<setting, socket, init_state, lock, known, stray, handlers, finalizing>>,
         \A d \in Fd : fds'[d] # fds[d] =>
           /\ fds'[d] \notin Connection
           /\ fds[d] \in Connection \cup {"broken"} => fds'[d] = "broken",
         phase' = phase \/ (phase # "loading" /\ phase' \in {"exiting", "unloading"})
  PROVE  ControllerInv'
<1>1. TypeOK'
  BY DEF ControllerInv, TypeOK, Kind
<1>2. LockOutlivesConnection'
  BY DEF ControllerInv, LockOutlivesConnection
<1>3. ResolvedSocketOrError'
  <2>1. socket \in {-1} \cup Fd
    BY DEF ControllerInv, TypeOK
  <2>2. SUFFICES ASSUME Ordinary, Resolvable, phase = "running", ~(socket < 0)
                 PROVE  fds'[socket] \in Connection \cup {"broken"}
    BY DEF ResolvedSocketOrError, SocketOrError, Ordinary, Resolvable
  <2>3. fds[socket] \in Connection \cup {"broken"}
    BY <2>2 DEF ControllerInv, ResolvedSocketOrError, SocketOrError
  <2>4. CASE socket \in Fd
    BY <2>3, <2>4
  <2>. QED
    BY <2>1, <2>2, <2>4
<1>4. NothingStrays' /\ ReadyForProbes'
  BY DEF ControllerInv, NothingStrays, ReadyForProbes, Ordinary, Resolvable
<1>5. TypesComeFirst'
  BY DEF ControllerInv, TypesComeFirst, Connection
<1>6. (phase = "loading" => Untouched)'
  BY DEF ControllerInv, Untouched
<1>7. (~setting.aspects /\ phase # "loading" => \A d \in Fd : fds[d] # "silent")'
  BY DEF ControllerInv, Connection
<1>8. /\ (finalizing => phase # "loading" /\ (setting.aspects \/ phase # "running"))'
      /\ (finalizing => ~(socket \in Fd /\ fds[socket] \in Connection))'
  BY DEF ControllerInv
<1>. QED
  BY <1>1, <1>2, <1>3, <1>4, <1>5, <1>6, <1>7, <1>8 DEF ControllerInv

LEMMA SendStep ==
  ASSUME ControllerInv, Send, UNCHANGED setting
  PROVE  ControllerInv'
<1>0. TypeOK /\ fds \in [Fd -> Kind] /\ socket \in Int /\ -1 \notin Fd
  BY TypeParts DEF ControllerInv, InitializedType, Fd
<1>1. /\ fds' \in [Fd -> Kind] /\ stray' \subseteq Foreign
      /\ \A d \in Fd : fds'[d] = fds[d] \/ (d = socket /\ fds[d] = "silent" /\ fds'[d] = "untyped")
  BY <1>0, WrittenFds DEF Send, TypeOK
<1>2. TypeOK'
  BY <1>0, <1>1, TypeParts DEF Send, TypeOK, Kind
<1>3. LockOutlivesConnection'
  BY <1>1 DEF ControllerInv, LockOutlivesConnection, Send, Connection
<1>4. ASSUME ~setting.aspects PROVE \A d \in Fd : fds'[d] = fds[d]
  BY <1>1, <1>4 DEF ControllerInv, Send
<1>5. ASSUME Ordinary, Resolvable, phase = "running"
      PROVE  stray' = {} /\ (socket < 0 \/ fds'[socket] \in Connection \cup {"broken"})
  <2>1. socket < 0 \/ fds[socket] \in Connection \cup {"broken"}
    BY <1>5 DEF ControllerInv, ResolvedSocketOrError, SocketOrError
  <2>2. socket \in Fd => fds[socket] \in Connection \cup {"broken"}
    BY <2>1 DEF Fd
  <2>3. Strays(fds, socket) = {}
    BY <2>2 DEF Strays, WriteFails, Useless
  <2>4. socket < 0 \/ socket \in Fd
    BY <1>0 DEF TypeOK, Fd
  <2>. QED
    BY <1>4, <1>5, <2>1, <2>3, <2>4 DEF Send, ControllerInv, NothingStrays, Ordinary
<1>6. ResolvedSocketOrError' /\ NothingStrays' /\ ReadyForProbes'
  BY <1>5 DEF ResolvedSocketOrError, SocketOrError, NothingStrays, ReadyForProbes, Ordinary,
     Resolvable, Send, ControllerInv
<1>7. (finalizing => ~(socket \in Fd /\ fds[socket] \in Connection))'
  BY <1>1 DEF ControllerInv, Send, Connection
<1>. QED
  BY <1>2, <1>3, <1>4, <1>6, <1>7 DEF ControllerInv, TypesComeFirst, Send

LEMMA SendStringStep ==
  ASSUME ControllerInv, SendString, UNCHANGED setting
  PROVE  ControllerInv'
<1>1. fds' = fds /\ fds \in [Fd -> Kind] /\ Strays(fds, socket) \subseteq Foreign
  BY TypeParts DEF SendString, ControllerInv, InitializedType, Strays, WriteFails, Kind, Connection,
     Useless, Foreign
<1>2. TypeOK'
  BY <1>1 DEF SendString, ControllerInv, TypeOK
<1>3. NothingStrays'
  <2>. SUFFICES ASSUME Ordinary, Resolvable, phase = "running" PROVE stray' = {}
    BY DEF NothingStrays, SendString, Ordinary, Resolvable
  <2>1. socket \in Fd => fds[socket] \in Connection \cup {"broken"}
    BY DEF ControllerInv, ResolvedSocketOrError, SocketOrError, Fd
  <2>2. Strays(fds, socket) = {}
    BY <2>1 DEF Strays, WriteFails, Useless
  <2>. QED
    BY <2>2 DEF SendString, ControllerInv, NothingStrays
<1>4. ReadyForProbes' /\ ResolvedSocketOrError' /\ TypesComeFirst' /\ LockOutlivesConnection'
  BY DEF SendString, ControllerInv, ReadyForProbes, ResolvedSocketOrError, SocketOrError,
     TypesComeFirst, LockOutlivesConnection, Ordinary, Resolvable
<1>. QED
  BY <1>2, <1>3, <1>4 DEF ControllerInv, SendString

LEMMA InductiveStep ==
  ASSUME ControllerInv, [Next]_vars
  PROVE  ControllerInv'
<1>1. ASSUME Constructor, UNCHANGED setting PROVE ControllerInv'
  <2>1. InitializedType' /\ LockOutlivesConnection'
    BY <1>1, InitializeStep DEF Constructor, ControllerInv
  <2>2. TypeOK'
    BY <1>1, <2>1, TypeParts DEF Constructor, ControllerInv, TypeOK, InitializedType, Kind
  <2>3. phase' = "running" /\ ~finalizing /\ ~finalizing'
    BY <1>1 DEF Constructor, ControllerInv
  <2>4. CASE setting.aspects
    BY <1>1, <2>1, <2>2, <2>3, <2>4 DEF Constructor, ControllerInv, ResolvedSocketOrError,
       SocketOrError, NothingStrays, TypesComeFirst, ReadyForProbes, Ordinary
  <2>5. CASE ~setting.aspects
    <3>1. /\ \A d \in Fd : fds'[d] # "silent" /\ fds'[d] # "untyped"
          /\ Ordinary => lock' = "ready" /\ (socket' = -1 => init_state' = "FAILED")
          /\ Ordinary /\ Resolvable =>
               /\ socket' < 0 \/ fds'[socket'] \in Connection \cup {"broken"}
               /\ stray' = {}
      BY <1>1, <2>5, ConstructorStep
    <3>2. (Ordinary' <=> Ordinary) /\ (Resolvable' <=> Resolvable)
      BY <1>1 DEF Ordinary, Resolvable
    <3>3. ResolvedSocketOrError' /\ NothingStrays' /\ ReadyForProbes'
      BY <3>1, <3>2 DEF ResolvedSocketOrError, SocketOrError, NothingStrays, ReadyForProbes
    <3>. QED
      BY <2>1, <2>2, <2>3, <3>1, <3>3 DEF ControllerInv, TypesComeFirst
  <2>. QED
    BY <2>4, <2>5
<1>2. ASSUME AspectInitialize, UNCHANGED setting PROVE ControllerInv'
  <2>1. InitializedType' /\ LockOutlivesConnection'
    BY <1>2, InitializeStep DEF AspectInitialize, ControllerInv
  <2>2. TypeOK'
    BY <1>2, <2>1, TypeParts DEF AspectInitialize, ControllerInv, TypeOK, InitializedType, Kind
  <2>. QED
    BY <1>2, <2>1, <2>2 DEF AspectInitialize, ControllerInv, ResolvedSocketOrError, SocketOrError,
       NothingStrays, TypesComeFirst, ReadyForProbes, Ordinary
<1>3. ASSUME AspectFinalize, UNCHANGED setting PROVE ControllerInv'
  BY <1>3, FinalizeKeeps DEF AspectFinalize, ControllerInv, TypeOK
<1>4. ASSUME RunHandler, UNCHANGED setting PROVE ControllerInv'
  <2>1. handlers' \in Nat
    BY <1>4 DEF RunHandler, ControllerInv, TypeOK
  <2>. QED
    BY <1>4, <2>1, FinalizeKeeps DEF RunHandler
<1>5. ASSUME Destructor, UNCHANGED setting PROVE ControllerInv'
  BY <1>5, FinalizeKeeps DEF Destructor, ControllerInv, TypeOK
<1>6. ASSUME HandlersDone \/ Exit, UNCHANGED setting PROVE ControllerInv'
  <2>1. fds' \in [Fd -> Kind] /\ fds' = fds
    BY <1>6, TypeParts DEF HandlersDone, Exit, ControllerInv, InitializedType
  <2>. QED
    BY <1>6, <2>1, ForeignStepKeeps DEF HandlersDone, Exit
<1>7. ASSUME OpenFile \/ CloseFile \/ Break, UNCHANGED setting PROVE ControllerInv'
  <2>1. fds \in [Fd -> Kind]
    BY TypeParts DEF ControllerInv, InitializedType
  <2>2. PICK d \in Fd : \/ fds[d] = "free" /\ fds' = [fds EXCEPT ![d] = "file"]
                        \/ fds[d] = "file" /\ fds' = [fds EXCEPT ![d] = "free"]
                        \/ fds[d] \in Connection /\ fds' = [fds EXCEPT ![d] = "broken"]
    BY <1>7 DEF OpenFile, CloseFile, Break, Lowest, Free
  <2>3. /\ fds' \in [Fd -> Kind]
        /\ \A e \in Fd : fds'[e] # fds[e] =>
             /\ fds'[e] \notin Connection
             /\ fds[e] \in Connection \cup {"broken"} => fds'[e] = "broken"
    BY <2>1, <2>2 DEF Kind, Connection, Foreign, Useless
  <2>4. UNCHANGED <<socket, init_state, lock, known, stray, handlers, finalizing, phase>>
    BY <1>7 DEF OpenFile, CloseFile, Break
  <2>. QED
    BY <1>7, <2>3, <2>4, ForeignStepKeeps
<1>8. ASSUME UNCHANGED vars PROVE ControllerInv'
  <2>1. fds' \in [Fd -> Kind] /\ fds' = fds
    BY <1>8, TypeParts DEF vars, ControllerInv, InitializedType
  <2>. QED
    BY <1>8, <2>1, ForeignStepKeeps DEF vars
<1>. QED
  BY <1>1, <1>2, <1>3, <1>4, <1>5, <1>6, <1>7, <1>8, SendStep, SendStringStep, FinalizeTraceKeeps
     DEF Next, KiekerStep, ProgramStep, Gone

\* Initialisation, probes, aspects, finalisation and exit keep the invariant, in
\* every setting.
THEOREM ControllerCorrect == Spec => []ControllerInv
<1>1. Init => ControllerInv
  BY InitialState
<1>2. ControllerInv /\ [Next]_vars => ControllerInv'
  BY InductiveStep
<1>. QED
  BY <1>1, <1>2, PTL DEF Spec

\* If the name of the host resolves, what an ordinary program writes to while it runs
\* is a connection or nothing (kieker_io.c).
THEOREM SocketIsConnection == Spec => []ResolvedSocketOrError
  BY ControllerCorrect, PTL DEF ControllerInv

\* No byte of the controller reaches a file or terminal of an ordinary program before
\* exit, if the name of the host resolves.
THEOREM NoStrayBytes == Spec => []NothingStrays
  BY ControllerCorrect, PTL DEF ControllerInv

\* Without the aspects no collector gets a record before the names of the record types.
THEOREM TypesBeforeRecords == Spec => []TypesComeFirst
  BY ControllerCorrect, PTL DEF ControllerInv

\* Probes of an ordinary program find an initialised lock, and a failed controller when
\* there is no socket.
THEOREM ProbesMayRun == Spec => []ReadyForProbes
  BY ControllerCorrect, PTL DEF ControllerInv

-----------------------------------------------------------------------------
(* Whatever the surroundings.                                               *)

\* Aspects, failing system calls and repeated initialisation included, a connection
\* never survives the lock of the registry.
THEOREM LockProtectsRecords == Spec => []LockOutlivesConnection
  BY ControllerCorrect, PTL DEF ControllerInv

\* Only kieker_controller_finalize leads out of a failure.
THEOREM FailureIsFinal == Spec => NoReconnectAfterFailure
<1>1. [Next]_vars =>
        [init_state = "FAILED" =>
           socket' = socket /\ (init_state' = "FAILED" \/ finalizing)]_vars
  <2>. SUFFICES ASSUME Next, init_state = "FAILED"
                PROVE  socket' = socket /\ (init_state' = "FAILED" \/ finalizing)
    OBVIOUS
  <2>. QED
    BY DEF Next, KiekerStep, ProgramStep, Constructor, AspectInitialize, AspectFinalize,
       RunHandler, Destructor, Initialize, Finalize, FinalizeTrace, Send, SendString, OpenFile, CloseFile,
       Break, Exit, HandlersDone, Gone, vars
<1>. QED
  BY <1>1, PTL DEF Spec, NoReconnectAfterFailure
===============================================================================
