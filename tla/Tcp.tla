---------------------------------- MODULE Tcp ----------------------------------
(***************************************************************************)
(* tcp_server, tcp_client and tcp_connector over the fixed descriptors of  *)
(* the engines, run by the echo programs of the examples: a server submits *)
(* a session for every connection it accepts, a client connects, and both  *)
(* echo until their peer is through and then close.                        *)
(*                                                                         *)
(* What is at stake is which open file an operation acts on.  A plain      *)
(* descriptor is looked up in the process's table, whose numbers the       *)
(* kernel gives out again, lowest first; an operation with                 *)
(* IOSQE_FIXED_FILE names a place of the table registered with the ring of *)
(* its engine, which holds the file itself, whatever becomes of the        *)
(* number.  Both are looked up when the ring is submitted, after the       *)
(* coroutine has prepared the operation and other coroutines have run.     *)
(*                                                                         *)
(* What a coroutine does from one suspension to the next is one step: it   *)
(* touches its own engine only, except for one look into the process's     *)
(* table.  The /dev/null descriptors of an engine, open all the time, are  *)
(* one value.  How much a peer sends is left open, data is not modelled.   *)
(*                                                                         *)
(* A build with NDEBUG, as the default Release build, has no asserts: a    *)
(* client whose connect() was refused then goes on with the error number   *)
(* as its descriptor.                                                      *)
(***************************************************************************)
EXTENDS Integers, Sequences, FiniteSets, SequencesExt

CONSTANTS Server,          \* the coroutine server(), and its listening socket
          Accepted,        \* connections from outside, each with its session()
          Clients,         \* coroutines client(), each with its socket
          Engines,
          kFixFdArraySize, \* places of an engine's table
          kEnableFixfd,
          PrepKeepsFlags,  \* io_uring_prep_* leaves the flags set before it
          MaxFd,           \* descriptors the process may have
          None, NullFd     \* no file; the descriptors of /dev/null

EPERM        == 1    \* two errors of connect()
ECONNREFUSED == 111

Sockets == Accepted \cup Clients
Actors  == Sockets \cup {Server}
Fds     == 1 .. MaxFd
Index   == 0 .. kFixFdArraySize - 1

ASSUME TcpAssumption ==
  /\ Accepted \cap Clients = {} /\ Server \notin Sockets
  /\ {None, NullFd} \cap (Actors \cup Int) = {} /\ None # NullFd
  /\ kFixFdArraySize \in Nat /\ MaxFd \in Nat
  /\ kEnableFixfd \in BOOLEAN /\ PrepKeepsFlags \in BOOLEAN

VARIABLES
  NDEBUG,          \* the build has no asserts
  fdtab,           \* the process's descriptors: the file behind each number
  que, data,       \* per engine: m_fds, its free places and the numbers in it
  table,           \* per engine: the files registered with its ring
  pc,              \* per coroutine: "none", "start", "io", "done"
  ctx,             \* per coroutine: the engine it runs on
  item,            \* per coroutine: the place it has borrowed, or -1
  m_sockfd,        \* per coroutine: what its operations use (m_listenfd)
  m_original_fd,   \* per coroutine: the socket's number
  m_sqe_flag,      \* per coroutine: IOSQE_FIXED_FILE
  op,              \* per coroutine: its operation
  peer,            \* per socket: the other end
  dead             \* why the process has exited, or "no"

fixVars  == <<que, data, table, item, m_sockfd, m_sqe_flag>>
vars == <<NDEBUG, fdtab, fixVars, pc, ctx, m_original_fd, op, peer, dead>>

\* An operation: the submission entry, then the file the kernel acts on,
\* then the result.
Prepared(kind, fd, flag) ==
  [kind |-> kind, st |-> "prepared", fd |-> fd, fixed |-> flag /\ PrepKeepsFlags,
   file |-> None, res |-> 0]

NoOp == [Prepared("none", 0, FALSE) EXCEPT !.st = "none"]

\* marked_buffer::set_data: all places are free.
set_data(values) ==
  /\ que = [e \in Engines |-> [i \in 1 .. kFixFdArraySize |-> i - 1]]
  /\ data = [e \in Engines |-> values]

\* uring_proxy::init: every place is registered as /dev/null.
Init ==
  /\ NDEBUG \in BOOLEAN
  /\ fdtab = [fd \in Fds |-> None]
  /\ set_data([i \in Index |-> NullFd])
  /\ table = [e \in Engines |-> [i \in Index |-> NullFd]]
  /\ pc = [x \in Actors |-> IF x \in Accepted THEN "none" ELSE "start"]
  /\ ctx \in [Actors -> Engines]
  /\ item = [x \in Actors |-> -1]
  /\ m_sockfd = [x \in Actors |-> 0]
  /\ m_original_fd = [x \in Actors |-> 0]
  /\ m_sqe_flag = [x \in Actors |-> FALSE]
  /\ op = [x \in Actors |-> NoOp]
  /\ peer = [s \in Sockets |-> "absent"]
  /\ dead = "no"

-----------------------------------------------------------------------------
(***************************************************************************)
(* Fixed descriptors.                                                      *)
(***************************************************************************)

\* io_uring_register_files_update over the whole array d: every number is
\* looked up in the process's table; -1 stands for an empty place, another
\* number that is not open makes it fail, and update_register_fixed_fds exits.
UpdateRegister(e, d, files) ==
  IF \A i \in Index : d[i] \in {NullFd, -1} \/ (d[i] \in Fds /\ files[d[i]] # None)
  THEN /\ table' = [table EXCEPT ![e] =
                      [i \in Index |-> CASE d[i] = NullFd -> NullFd
                                         [] d[i] = -1     -> None
                                         [] d[i] \in Fds  -> files[d[i]]]]
       /\ UNCHANGED dead
  ELSE /\ dead' = "update" /\ UNCHANGED table

\* marked_buffer: the oldest free place, or none; and what is left to lend,
\* after a place was lent and after one came back.
borrow(e) == IF que[e] # <<>> THEN Head(que[e]) ELSE -1
Lent(e)   == Tail(que[e])
return_back(e, i) == Append(que[e], i)

get_fixed_fd(e) == IF kEnableFixfd THEN borrow(e) ELSE -1

Bug_Assign(x, fd, files) ==  \* forgets that no place may be free
  LET e == ctx[x]
      i == IF get_fixed_fd(e) = -1 THEN 0 ELSE get_fixed_fd(e)
      d == [data[e] EXCEPT ![i] = fd] IN
  /\ que' = [que EXCEPT ![e] = IF @ = <<>> THEN @ ELSE Tail(@)]
  /\ item' = [item EXCEPT ![x] = i]
  /\ data' = [data EXCEPT ![e] = d]
  /\ m_sockfd' = [m_sockfd EXCEPT ![x] = i]
  /\ m_sqe_flag' = [m_sqe_flag EXCEPT ![x] = TRUE]
  /\ UpdateRegister(e, d, files)

\* fixed_fds() and assign(fd, flag), for coroutine x.
Assign(x, fd, files) ==
  LET e == ctx[x]
      i == get_fixed_fd(e)
      d == [data[e] EXCEPT ![i] = fd] IN
  \/ /\ i = -1
     /\ m_sockfd' = [m_sockfd EXCEPT ![x] = fd]
     /\ UNCHANGED <<que, data, table, item, m_sqe_flag, dead>>
  \/ /\ i # -1
     /\ que' = [que EXCEPT ![e] = Lent(e)]
     /\ item' = [item EXCEPT ![x] = i]
     /\ data' = [data EXCEPT ![e] = d]
     /\ m_sockfd' = [m_sockfd EXCEPT ![x] = i]
     /\ m_sqe_flag' = [m_sqe_flag EXCEPT ![x] = TRUE]
     /\ UpdateRegister(e, d, files)

Bug_KeepsNumber(x) ==        \* the free place keeps the socket's number
  LET e == ctx[x] IN
  \/ item[x] = -1 /\ UNCHANGED <<fixVars, dead>>
  \/ /\ item[x] # -1
     /\ UpdateRegister(e, data[e], fdtab)
     /\ que' = [que EXCEPT ![e] = return_back(e, item[x])]
     /\ item' = [item EXCEPT ![x] = -1]
     /\ UNCHANGED <<data, m_sockfd, m_sqe_flag>>

\* back_fixed_fd: null descriptor, update, free the place.
back_fixed_fd(e, i) ==
  LET d == [data[e] EXCEPT ![i] = NullFd] IN
  /\ data' = [data EXCEPT ![e] = d]
  /\ UpdateRegister(e, d, fdtab)
  /\ que' = [que EXCEPT ![e] = return_back(e, i)]

\* fixed_fds::return_back, also in the destructor.
ReturnBack(x) ==
  \/ item[x] = -1 /\ UNCHANGED <<fixVars, dead>>
  \/ /\ item[x] # -1
     /\ back_fixed_fd(ctx[x], item[x])
     /\ item' = [item EXCEPT ![x] = -1]
     /\ UNCHANGED <<m_sockfd, m_sqe_flag>>

-----------------------------------------------------------------------------
(***************************************************************************)
(* The coroutines.                                                         *)
(***************************************************************************)
Free == {fd \in Fds : fdtab[fd] = None}

\* The constructors of tcp_server and tcp_client end the process without a
\* free descriptor for socket(), the server's also when bind or listen fails.
ConstructorExits(x) ==
  /\ x \in Clients \cup {Server} /\ pc[x] = "start"
  /\ Free = {} \/ x = Server
  /\ dead' = "constructor"
  /\ UNCHANGED <<fdtab, fixVars, pc, ctx, m_original_fd, op, peer>>

\* tcp_server(port) and the first accept(); socket() gives the lowest free
\* number.
StartServer ==
  /\ pc[Server] = "start" /\ Free # {}
  /\ LET files == [fdtab EXCEPT ![Min(Free)] = Server] IN
     /\ fdtab' = files
     /\ Assign(Server, Min(Free), files)
  /\ pc' = [pc EXCEPT ![Server] = "io"]
  /\ op' = [op EXCEPT ![Server] = Prepared("accept", m_sockfd'[Server], m_sqe_flag'[Server])]
  /\ UNCHANGED <<ctx, m_original_fd, peer>>

Completed(x, kind) == pc[x] = "io" /\ op[x].kind = kind /\ op[x].st = "completed"

\* A connection: submit its session to the scheduler and accept again.
ServeNext ==
  /\ Completed(Server, "accept") /\ op[Server].res > 0
  /\ \E c \in Accepted, e \in Engines :
       /\ fdtab[op[Server].res] = c
       /\ pc' = [pc EXCEPT ![c] = "start"]
       /\ ctx' = [ctx EXCEPT ![c] = e]
       /\ m_original_fd' = [m_original_fd EXCEPT ![c] = op[Server].res]
  /\ op' = [op EXCEPT ![Server] = Prepared("accept", m_sockfd[Server], m_sqe_flag[Server])]
  /\ UNCHANGED <<fdtab, fixVars, peer, dead>>

\* accept failed: server() ends and the tcp_server is destroyed.
ServerEnd ==
  /\ Completed(Server, "accept") /\ op[Server].res <= 0
  /\ ReturnBack(Server)
  /\ pc' = [pc EXCEPT ![Server] = "done"]
  /\ op' = [op EXCEPT ![Server] = NoOp]
  /\ UNCHANGED <<fdtab, ctx, m_original_fd, peer>>

\* tcp_client(addr, port) and connect().
StartClient(x) ==
  /\ x \in Clients /\ pc[x] = "start" /\ Free # {}
  /\ fdtab' = [fdtab EXCEPT ![Min(Free)] = x]
  /\ m_original_fd' = [m_original_fd EXCEPT ![x] = Min(Free)]
  /\ pc' = [pc EXCEPT ![x] = "io"]
  /\ op' = [op EXCEPT ![x] = Prepared("connect", Min(Free), FALSE)]
  /\ UNCHANGED <<fixVars, ctx, peer, dead>>

\* connect() failed: client()'s assert ends the process, if it is there.
ConnectFailed(x) ==
  /\ Completed(x, "connect") /\ op[x].res <= 0
  /\ ~NDEBUG
  /\ dead' = "connect"
  /\ UNCHANGED <<fdtab, fixVars, pc, ctx, m_original_fd, op, peer>>

\* tcp_connector(sockfd) and the first read().  A client's sockfd is what
\* connect() returned: its socket, or, without the assert, an error.
MakeConnector(x) ==
  LET fd == IF x \in Accepted THEN m_original_fd[x] ELSE op[x].res IN
  /\ x \in Sockets
  /\ IF x \in Accepted THEN pc[x] = "start"
     ELSE Completed(x, "connect") /\ (op[x].res > 0 \/ NDEBUG)
  /\ m_original_fd' = [m_original_fd EXCEPT ![x] = fd]
  /\ Assign(x, fd, fdtab)
  /\ pc' = [pc EXCEPT ![x] = "io"]
  /\ op' = [op EXCEPT ![x] = Prepared("read", m_sockfd'[x], m_sqe_flag'[x])]
  /\ UNCHANGED <<fdtab, ctx, peer>>

Bug_Echo(x) ==               \* takes the end of the stream for a message
  /\ \/ Completed(x, "read") /\ op[x].res >= 0
     \/ Completed(x, "write")
  /\ op' = [op EXCEPT ![x] = Prepared(IF @.kind = "read" THEN "write" ELSE "read",
                                      m_sockfd[x], m_sqe_flag[x])]
  /\ UNCHANGED <<fdtab, fixVars, pc, ctx, m_original_fd, peer, dead>>

\* The loop: what was read is written; then, whatever write returned, read.
Echo(x) ==
  /\ \/ Completed(x, "read") /\ op[x].res > 0
     \/ Completed(x, "write")
  /\ op' = [op EXCEPT ![x] = Prepared(IF @.kind = "read" THEN "write" ELSE "read",
                                      m_sockfd[x], m_sqe_flag[x])]
  /\ UNCHANGED <<fdtab, fixVars, pc, ctx, m_original_fd, peer, dead>>

Bug_Close(x) ==              \* closes m_sockfd, which may be an index
  /\ Completed(x, "read") /\ op[x].res <= 0
  /\ ReturnBack(x)
  /\ op' = [op EXCEPT ![x] = Prepared("close", m_sockfd[x], FALSE)]
  /\ UNCHANGED <<fdtab, pc, ctx, m_original_fd, peer>>

\* close(): return the place, then close the socket by its number.
Close(x) ==
  /\ Completed(x, "read") /\ op[x].res <= 0
  /\ ReturnBack(x)
  /\ op' = [op EXCEPT ![x] = Prepared("close", m_original_fd[x], FALSE)]
  /\ UNCHANGED <<fdtab, pc, ctx, m_original_fd, peer>>

\* assert(ret == 0); the connector is destroyed, its item is invalid.
Closed(x) ==
  /\ Completed(x, "close")
  /\ dead' = IF op[x].res = 0 \/ NDEBUG THEN dead ELSE "close"
  /\ pc' = [pc EXCEPT ![x] = "done"]
  /\ op' = [op EXCEPT ![x] = NoOp]
  /\ UNCHANGED <<fdtab, fixVars, ctx, m_original_fd, peer>>

Run(x) == \/ ConstructorExits(x) \/ StartClient(x) \/ ConnectFailed(x)
          \/ MakeConnector(x) \/ Echo(x) \/ Close(x) \/ Closed(x)
          \/ x = Server /\ (StartServer \/ ServeNext \/ ServerEnd)

-----------------------------------------------------------------------------
(***************************************************************************)
(* The kernel and the peers.                                               *)
(***************************************************************************)

\* The completion's callback stores the result; connect's turns 0 into the
\* socket's number.
Result(x, r) == IF op[x].kind = "connect" /\ r = 0 THEN op[x].fd ELSE r

Post(x, r) == op' = [op EXCEPT ![x].st = "completed", ![x].res = Result(x, r)]

Running(x, kind) == op[x].kind = kind /\ op[x].st = "running"

\* io_uring_submit reaches the operation of x: which file is it about?
TakeSqe(x) ==
  LET o == op[x] IN
  /\ o.st = "prepared" /\ o.kind # "close"
  /\ op' = [op EXCEPT ![x].st = "running",
                      ![x].file = CASE o.fixed          -> table[ctx[x]][o.fd]
                                    [] ~o.fixed /\ o.fd \in Fds    -> fdtab[o.fd]
                                    [] ~o.fixed /\ o.fd \notin Fds -> None]
  /\ UNCHANGED <<fdtab, fixVars, pc, ctx, m_original_fd, peer, dead>>

\* close takes the number out of the process's table.
DoClose(x) ==
  /\ op[x].st = "prepared" /\ op[x].kind = "close"
  /\ IF op[x].fd \in Fds \ Free
     THEN fdtab' = [fdtab EXCEPT ![op[x].fd] = None] /\ Post(x, 0)
     ELSE UNCHANGED fdtab /\ Post(x, -1)
  /\ UNCHANGED <<fixVars, pc, ctx, m_original_fd, peer, dead>>

\* accept: a new descriptor for a connection that waits; none is left, or
\* what it acts on is not the listening socket: an error.
DoAccept ==
  LET f == op[Server].file IN
  /\ Running(Server, "accept")
  /\ \/ /\ f = Server /\ Free # {}
        /\ \E c \in Accepted : /\ peer[c] = "waiting"
                               /\ peer' = [peer EXCEPT ![c] = "open"]
                               /\ fdtab' = [fdtab EXCEPT ![Min(Free)] = c]
        /\ Post(Server, Min(Free))
     \/ /\ f # Server \/ (Free = {} /\ \E c \in Accepted : peer[c] = "waiting")
        /\ Post(Server, -1)
        /\ UNCHANGED <<peer, fdtab>>
  /\ UNCHANGED <<fixVars, pc, ctx, m_original_fd, dead>>

\* connect succeeds or is refused.
DoConnect(x) ==
  /\ Running(x, "connect")
  /\ \/ peer' = [peer EXCEPT ![x] = "open"] /\ Post(x, 0)
     \/ UNCHANGED peer /\ \E errno \in {EPERM, ECONNREFUSED} : Post(x, -errno)
  /\ UNCHANGED <<fdtab, fixVars, pc, ctx, m_original_fd, dead>>

\* recv: a message that has arrived; the end of the stream or a reset once
\* the peer has gone and its last message was read or lost.
DoRead(x) ==
  LET f == op[x].file IN
  /\ Running(x, "read")
  /\ \/ f \in Sockets /\ peer[f] = "open" /\ Post(x, 1)
     \/ f \in Sockets /\ peer[f] = "gone" /\ \E r \in {0, -1} : Post(x, r)
     \/ f \notin Sockets /\ Post(x, -1)
  /\ UNCHANGED <<fdtab, fixVars, pc, ctx, m_original_fd, peer, dead>>

\* send: succeeds, or fails once the peer has gone.
DoWrite(x) ==
  LET f == op[x].file IN
  /\ Running(x, "write")
  /\ \/ f \in Sockets /\ Post(x, 1)
     \/ f \in Sockets /\ peer[f] = "gone" /\ Post(x, -1)
     \/ f \notin Sockets /\ Post(x, -1)
  /\ UNCHANGED <<fdtab, fixVars, pc, ctx, m_original_fd, peer, dead>>

Kernel(x) == \/ TakeSqe(x) \/ DoClose(x) \/ DoConnect(x) \/ DoRead(x) \/ DoWrite(x)
             \/ x = Server /\ DoAccept

\* The other end connects, and goes.
PeerStep(s) ==
  /\ \/ s \in Accepted /\ peer[s] = "absent" /\ peer' = [peer EXCEPT ![s] = "waiting"]
     \/ peer[s] = "open" /\ peer' = [peer EXCEPT ![s] = "gone"]
  /\ UNCHANGED <<fdtab, fixVars, pc, ctx, m_original_fd, op, dead>>

\* The process has exited, or only a server that waits for connections is left.
Terminated ==
  /\ \/ dead # "no"
     \/ \A x \in Actors : pc[x] \in {"none", "done"} \/ Running(x, "accept")
  /\ UNCHANGED vars

\* A coroutine runs to its next suspension, or the kernel goes on with its
\* operation.
Step(x) == dead = "no" /\ (Run(x) \/ Kernel(x)) /\ UNCHANGED NDEBUG

Next == \/ \E x \in Actors : Step(x)
        \/ \E s \in Sockets : dead = "no" /\ PeerStep(s) /\ UNCHANGED NDEBUG
        \/ Terminated

Spec == Init /\ [][Next]_vars

\* Engines run what is ready and submit what is prepared, and the kernel
\* completes what it can.  Nothing is assumed of the peers.
FairSpec == Spec /\ \A x \in Actors : WF_vars(Step(x))

-----------------------------------------------------------------------------
(***************************************************************************)
(* Properties.                                                             *)
(***************************************************************************)

\* A client that went on after a refused connect(), in a build without asserts.
Refused(x) == NDEBUG /\ m_original_fd[x] < 0

\* The file that the operations of x are to act on.
FileOf(x) == IF Refused(x) THEN None ELSE x

Lessees(e) == {x \in Actors : ctx[x] = e /\ item[x] # -1}

\* The places of an engine's table are each free once or lent to one
\* coroutine of that engine, to which no other place is lent, and the ring
\* holds a free place's null descriptor and the borrower's own file, if it
\* has one (marked_buffer.hpp 56-77, uring_proxy.hpp 246-285).
LeaseExclusive == dead = "no" => \A e \in Engines :
  /\ IsInjective(que[e])
  /\ \A i \in ToSet(que[e]) : table[e][i] = NullFd
  /\ \A i \in Index \ ToSet(que[e]) : \E x \in Lessees(e) : item[x] = i
  /\ \A x \in Lessees(e) : /\ item[x] \notin ToSet(que[e])
                           /\ table[e][item[x]] = FileOf(x)
                           /\ \A y \in Lessees(e) : item[y] = item[x] => y = x

\* An operation acts on the socket of the coroutine that awaits it, although
\* descriptors and places are used again by others between its preparation
\* and its submission, or while it runs; the one of a client whose connect()
\* was refused acts on no file.
OpOnOwnFile == \A x \in Actors :
  op[x].st = "running" => op[x].file = FileOf(x)

\* A connection whose session is over is referred to by no descriptor and by no
\* ring: the kernel ends it and the peer is told.  Only the socket of a
\* refused connect() keeps its descriptor, which nobody closes.
ClosedIsReleased == dead = "no" => \A s \in Sockets : pc[s] = "done" =>
  /\ \A fd \in Fds : fdtab[fd] = s => Refused(s)
  /\ \A e \in Engines, i \in Index : table[e][i] # s

\* Nobody uses a closed number: no close() fails, so the assert on its result
\* is not reached, and no update of the registered descriptors ends the
\* process, except by a client that went on after a refused connect(): its
\* close() fails, and its number ends the process in
\* update_register_fixed_fds unless it is -1, an empty place to the ring.
NoBadDescriptor ==
  /\ dead # "close"
  /\ dead = "update" => \E x \in Clients : Refused(x) /\ m_original_fd[x] # -1
  /\ dead = "no" => \A x \in Sockets : Completed(x, "close") /\ op[x].res # 0 => Refused(x)

\* A session whose peer has gone, or never was there, closes its socket and
\* ends: there comes a time from which on none is left.
SessionsEnd ==
  <>[](\/ dead # "no"
       \/ \A s \in Sockets : peer[s] = "gone" \/ Refused(s) => pc[s] = "done")
=============================================================================
