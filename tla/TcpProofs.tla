------------------------------- MODULE TcpProofs -------------------------------
(***************************************************************************)
(* Theorems about Tcp, for every number of engines, of places in their     *)
(* tables, of descriptors, connections and clients.                        *)
(***************************************************************************)
EXTENDS Tcp, ListLemmas, TLAPS

\* The values of the variables.
Kinds  == {"none", "accept", "connect", "read", "write", "close"}
OpType == [kind : Kinds, st : {"none", "prepared", "running", "completed"}, fd : Int, fixed : BOOLEAN,
           file : Actors \cup {None, NullFd}, res : Int]
FileTables == [Fds -> Actors \cup {None}]

Types ==
  /\ fdtab \in FileTables
  /\ que \in [Engines -> Seq(Index)] /\ data \in [Engines -> [Index -> Fds \cup {NullFd, -1}]]
  /\ table \in [Engines -> [Index -> Actors \cup {None, NullFd}]]
  /\ pc \in [Actors -> {"none", "start", "io", "done"}] /\ ctx \in [Actors -> Engines]
  /\ item \in [Actors -> Index \cup {-1}] /\ m_sockfd \in [Actors -> Int] /\ m_original_fd \in [Actors -> Int]
  /\ m_sqe_flag \in [Actors -> BOOLEAN] /\ op \in [Actors -> OpType]
  /\ peer \in [Sockets -> {"absent", "waiting", "open", "gone"}]

\* A client goes on with an error for a descriptor; what is a number of x, and
\* what file its operations act on.
Astray(x) == m_original_fd[x] < 0
OwnNumber(x, n, files) == IF Astray(x) THEN n < 0 ELSE n \in Fds /\ files[n] = x
OwnFile(x) == IF Astray(x) THEN None ELSE x

\* What a coroutine is about.
Connected(x) == pc[x] = "io" /\ op[x].kind \in {"accept", "read", "write"}
IsOpen(s)  == /\ ~Astray(s)
              /\ \/ s \in Accepted /\ pc[s] = "start"
                 \/ pc[s] = "io" /\ ~(op[s].kind = "close" /\ op[s].st = "completed")
Pending(c) == c \in Accepted /\ pc[c] = "none" /\ Completed(Server, "accept")
PhaseInv ==
  /\ \A x \in Actors : pc[x] # "io" => op[x].kind = "none" /\ op[x].st = "none"
  /\ pc[Server] = "io" => op[Server].kind = "accept"
  /\ \A s \in Sockets : pc[s] = "io" => op[s].kind \in {"connect", "read", "write", "close"}
  /\ \A x \in Actors : Astray(x) => x \in Clients /\ pc[x] # "start" /\ op[x].kind # "connect"

\* A number of the process's table belongs to the socket it was opened for,
\* until that is closed.
OpenInv == \A s \in Sockets : IsOpen(s) => m_original_fd[s] \in Fds /\ fdtab[m_original_fd[s]] = s
OwnerInv == \A fd \in Fds : \A s \in Sockets : fdtab[fd] = s =>
              Astray(s) \/ (IsOpen(s) /\ m_original_fd[s] = fd) \/ (Pending(s) /\ op[Server].res = fd)
AcceptInv == Completed(Server, "accept") /\ op[Server].res > 0 =>
               op[Server].res \in Fds /\ Pending(fdtab[op[Server].res])
PeerInv == \A c \in Accepted : peer[c] \in {"absent", "waiting"} =>
             pc[c] = "none" /\ \A fd \in Fds : fdtab[fd] # c
FdInv == OpenInv /\ OwnerInv /\ AcceptInv /\ PeerInv

\* A place of an engine's table is free or lent, and holds nothing or the
\* number and the file of the borrower, and of no other.
FreeInv == \A e \in Engines : IsInjective(que[e]) /\ \A i \in Index :
             IF i \in ToSet(que[e]) THEN data[e][i] = NullFd /\ table[e][i] = NullFd
             ELSE \E x \in Actors : ctx[x] = e /\ item[x] = i
LentInv == \A x \in Actors : item[x] # -1 =>
             /\ Connected(x) /\ item[x] \notin ToSet(que[ctx[x]])
             /\ data[ctx[x]][item[x]] \in Fds \cup {-1} /\ OwnNumber(x, data[ctx[x]][item[x]], fdtab)
             /\ table[ctx[x]][item[x]] = OwnFile(x)
             /\ \A y \in Actors : ctx[y] = ctx[x] /\ item[y] = item[x] => y = x
LeaseInv == FreeInv /\ LentInv

\* What the operations of a coroutine use is its own.
UseInv == \A x \in Actors :
  /\ Connected(x) => IF m_sqe_flag[x] THEN item[x] # -1 /\ m_sockfd[x] = item[x]
                     ELSE OwnNumber(x, m_sockfd[x], fdtab)
  /\ pc[x] \in {"none", "start"} \/ op[x].kind = "connect" => ~m_sqe_flag[x]
  /\ m_sqe_flag[x] => kEnableFixfd
OpInv == \A x \in Actors :
  /\ op[x].kind \in {"accept", "read", "write"} => op[x].fd = m_sockfd[x] /\ (op[x].fixed <=> m_sqe_flag[x] /\ PrepKeepsFlags)
  /\ op[x].kind \in {"connect", "close"} => op[x].fd = m_original_fd[x] /\ ~op[x].fixed
  /\ op[x].kind = "close" /\ op[x].st = "completed" => op[x].res = 0 \/ Astray(x)
  /\ op[x].kind = "connect" /\ op[x].st = "completed" => op[x].res = op[x].fd \/ op[x].res < 0

\* While the process lives.
TcpInv == Types /\ PhaseInv /\ FdInv /\ LeaseInv /\ UseInv /\ OpInv

-----------------------------------------------------------------------------
(***************************************************************************)
(* Facts that the steps use.                                               *)
(***************************************************************************)

\* Who is who.
LEMMA Cast ==
  /\ Server \in Actors /\ Server \notin Sockets /\ Actors = Sockets \cup {Server}
  /\ Accepted \subseteq Sockets /\ Clients \subseteq Sockets /\ Accepted \cap Clients = {}
  /\ None \notin Actors /\ NullFd \notin Actors /\ NullFd \notin Fds
  /\ Index \subseteq Nat /\ -1 \notin Index /\ Fds \subseteq Nat \ {0} /\ -1 \notin Fds
  /\ NullFd \notin Int /\ None # NullFd
BY TcpAssumption DEF Sockets, Actors, Fds, Index

\* A new entry of the submission queue, and none.
LEMMA NewOp ==
  ASSUME NEW kind \in Kinds, NEW fd \in Int, NEW flag \in BOOLEAN
  PROVE  \E o \in OpType : /\ o = Prepared(kind, fd, flag) /\ o.kind = kind /\ o.st = "prepared" /\ o.fd = fd
                           /\ (o.fixed <=> flag /\ PrepKeepsFlags)
<1>. DEFINE b == flag /\ PrepKeepsFlags
            o == [kind |-> kind, st |-> "prepared", fd |-> fd, fixed |-> b, file |-> None, res |-> 0]
<1>1. b \in BOOLEAN /\ b = (flag /\ PrepKeepsFlags)
  OBVIOUS
<1>2. Prepared(kind, fd, flag) = o
  BY DEF Prepared
<1>. HIDE DEF b
<1>3. o \in OpType /\ o.kind = kind /\ o.st = "prepared" /\ o.fd = fd /\ o.fixed = b
  BY <1>1 DEF OpType
<1>. HIDE DEF o
<1>. QED BY <1>1, <1>2, <1>3, Zenon

Plain(kind, fd) == Prepared(kind, fd, FALSE)
LEMMA PlainOp ==
  ASSUME NEW kind \in Kinds, NEW fd \in Int
  PROVE  \E o \in OpType : o = Plain(kind, fd) /\ o.kind = kind /\ o.st = "prepared" /\ o.fd = fd /\ ~o.fixed
<1>. DEFINE b == FALSE /\ PrepKeepsFlags
            o == [kind |-> kind, st |-> "prepared", fd |-> fd, fixed |-> b, file |-> None, res |-> 0]
<1>1. b \in BOOLEAN /\ ~b
  OBVIOUS
<1>2. Plain(kind, fd) = o
  BY DEF Plain, Prepared
<1>. HIDE DEF b
<1>3. o \in OpType /\ o.kind = kind /\ o.st = "prepared" /\ o.fd = fd /\ ~o.fixed
  BY <1>1 DEF OpType
<1>. HIDE DEF o
<1>. QED BY <1>2, <1>3

LEMMA NoOpType == NoOp \in OpType /\ NoOp.kind = "none" /\ NoOp.st = "none"
<1>1. PICK o \in OpType : o = Plain("none", 0) /\ o.kind = "none"
  BY PlainOp DEF Kinds
<1>2. NoOp = [Plain("none", 0) EXCEPT !.st = "none"]
  BY DEF NoOp, Plain
<1>. QED BY <1>1, <1>2 DEF OpType

\* The completion of an operation, and its submission.
LEMMA PostEffect ==
  ASSUME op \in [Actors -> OpType], NEW x \in Actors, NEW r \in Int, Post(x, r)
  PROVE  \E o \in OpType : /\ op' = [op EXCEPT ![x] = o] /\ o.st = "completed" /\ o.res = Result(x, r)
                           /\ o.kind = op[x].kind /\ o.fd = op[x].fd /\ o.fixed = op[x].fixed /\ o.file = op[x].file
<1>. DEFINE o == [op[x] EXCEPT !.st = "completed", !.res = Result(x, r)]
<1>1. op[x] \in OpType /\ Result(x, r) \in Int
  BY DEF Result, OpType
<1>2. o \in OpType /\ o.st = "completed" /\ o.res = Result(x, r) /\ o.kind = op[x].kind
      /\ o.fd = op[x].fd /\ o.fixed = op[x].fixed /\ o.file = op[x].file
  BY <1>1 DEF OpType
<1>3. op' = [op EXCEPT ![x] = o]
  BY DEF Post
<1>. QED BY <1>2, <1>3

LEMMA MinInSet ==
  ASSUME NEW S, S \subseteq Nat, S # {}
  PROVE  Min(S) \in S
BY LeastElement DEF Min

\* The descriptor a new socket gets.
LEMMA LowestFree ==
  ASSUME Free # {}
  PROVE  Min(Free) \in Fds /\ fdtab[Min(Free)] = None
<1>1. Free \subseteq Nat
  BY Cast DEF Free
<1>2. Min(Free) \in Free
  BY <1>1, MinInSet
<1>. QED BY <1>2 DEF Free

-----------------------------------------------------------------------------
(***************************************************************************)
(* Parts of the invariant that a step leaves alone.                        *)
(***************************************************************************)
LEMMA LeaseKept ==
  ASSUME Types, LeaseInv, UNCHANGED <<que, data, table, item, ctx>>,
         \A x \in Actors : item[x] # -1 => /\ Connected(x) => Connected(x)'
                                           /\ m_original_fd'[x] = m_original_fd[x]
                                           /\ \A fd \in Fds : fdtab[fd] = x => fdtab'[fd] = x
  PROVE  LeaseInv'
<1>1. FreeInv'
  BY DEF LeaseInv, FreeInv
<1>2. LentInv'
  <2>1. SUFFICES ASSUME NEW x \in Actors, item[x] # -1
                 PROVE  /\ Connected(x)' /\ item[x] \notin ToSet(que[ctx[x]])
                        /\ data[ctx[x]][item[x]] \in Fds \cup {-1} /\ OwnNumber(x, data[ctx[x]][item[x]], fdtab)'
                        /\ table[ctx[x]][item[x]] = OwnFile(x)'
                        /\ \A y \in Actors : ctx[y] = ctx[x] /\ item[y] = item[x] => y = x
    BY DEF LentInv, OwnNumber, OwnFile
  <2>2. OwnFile(x)' = OwnFile(x)
    BY <2>1 DEF OwnFile, Astray
  <2>3. ASSUME NEW n \in Fds \cup {-1}, OwnNumber(x, n, fdtab) PROVE OwnNumber(x, n, fdtab)'
    BY <2>1, <2>3 DEF OwnNumber, Astray
  <2>. QED BY <2>1, <2>2, <2>3 DEF LeaseInv, LentInv
<1>. QED BY <1>1, <1>2 DEF LeaseInv

LEMMA UseKept ==
  ASSUME UseInv, UNCHANGED <<m_sockfd, m_sqe_flag, item>>,
         \A x \in Actors : /\ Connected(x)' => /\ Connected(x) /\ m_original_fd'[x] = m_original_fd[x]
                                               /\ \A fd \in Fds : fdtab[fd] = x => fdtab'[fd] = x
                           /\ pc'[x] \in {"none", "start"} \/ op'[x].kind = "connect" =>
                                pc[x] \in {"none", "start"} \/ op[x].kind = "connect"
  PROVE  UseInv'
BY DEF UseInv, OwnNumber, Astray

LEMMA FdKept ==
  ASSUME FdInv, UNCHANGED <<fdtab, m_original_fd>>, PeerInv',
         \A s \in Sockets : (IsOpen(s)' <=> IsOpen(s)) /\ (pc'[s] = "none" <=> pc[s] = "none"),
         Completed(Server, "accept") => Completed(Server, "accept")' /\ op'[Server].res = op[Server].res,
         Completed(Server, "accept")' => Completed(Server, "accept") \/ op'[Server].res <= 0,
         op'[Server].res \in Int
  PROVE  FdInv'
<1> USE Cast
<1>1. OpenInv'
  BY DEF FdInv, OpenInv
<1>2. OwnerInv'
  BY DEF FdInv, OwnerInv, Pending, Astray
<1>3. AcceptInv'
  BY DEF FdInv, AcceptInv, Pending
<1>. QED BY <1>1, <1>2, <1>3 DEF FdInv

-----------------------------------------------------------------------------
(***************************************************************************)
(* The kernel.                                                             *)
(***************************************************************************)

\* An operation other than close goes on or completes, an accept without a
\* connection.
LEMMA OpMoves ==
  ASSUME TcpInv, NEW x \in Actors, NEW o \in OpType, op' = [op EXCEPT ![x] = o],
         op[x].st \notin {"none", "completed"}, o.st # "none", op[x].kind = "close" => Astray(x),
         o.kind = op[x].kind, o.fd = op[x].fd, o.fixed = op[x].fixed,
         x = Server => o.res <= 0 \/ o.st # "completed",
         o.kind = "connect" /\ o.st = "completed" => o.res = o.fd \/ o.res < 0,
         peer' \in [Sockets -> {"absent", "waiting", "open", "gone"}], PeerInv',
         UNCHANGED <<fdtab, fixVars, pc, ctx, m_original_fd, dead>>
  PROVE  TcpInv'
<1> USE Cast
<1>1. UNCHANGED <<que, data, table, item, m_sockfd, m_sqe_flag>>
  BY DEF fixVars
<1>2. op'[x] = o /\ \A y \in Actors : y # x => op'[y] = op[y]
  BY DEF TcpInv, Types
<1>3. Types'
  BY <1>1 DEF TcpInv, Types
<1>4. pc[x] = "io" /\ \A y \in Actors : op'[y].kind = op[y].kind
  BY <1>2 DEF TcpInv, PhaseInv, Astray
<1>5. PhaseInv'
  BY <1>2, <1>4 DEF TcpInv, PhaseInv, Astray
<1>6. \A y \in Actors : Connected(y)' <=> Connected(y)
  BY <1>4 DEF Connected
<1>7. LeaseInv'
  BY <1>1, <1>6, LeaseKept DEF TcpInv
<1>8. UseInv'
  BY <1>1, <1>4, <1>6, UseKept DEF TcpInv
<1>9. FdInv'
  <2>1. \A s \in Sockets : IsOpen(s)' <=> IsOpen(s)
    BY <1>2, <1>4 DEF IsOpen, Astray
  <2>2. Completed(Server, "accept") => Completed(Server, "accept")' /\ op'[Server].res = op[Server].res
    BY <1>2, <1>4 DEF Completed
  <2>3. Completed(Server, "accept")' => Completed(Server, "accept") \/ op'[Server].res <= 0
    BY <1>2, <1>4 DEF Completed
  <2>4. op'[Server].res \in Int
    BY <1>3 DEF Types, OpType
  <2>. QED BY <2>1, <2>2, <2>3, <2>4, FdKept DEF TcpInv
<1>10. OpInv'
  BY <1>1, <1>2, <1>4 DEF TcpInv, OpInv, Astray
<1>. QED BY <1>3, <1>5, <1>7, <1>8, <1>9, <1>10 DEF TcpInv

\* io_uring_submit.
LEMMA TakeSqeKeeps ==
  ASSUME TcpInv, NEW x \in Actors, TakeSqe(x)
  PROVE  TcpInv'
<1> USE Cast
<1>. DEFINE file == CASE op[x].fixed -> table[ctx[x]][op[x].fd]
                      [] ~op[x].fixed /\ op[x].fd \in Fds    -> fdtab[op[x].fd]
                      [] ~op[x].fixed /\ op[x].fd \notin Fds -> None
            o == [op[x] EXCEPT !.st = "running", !.file = file]
<1>1. /\ op[x].st = "prepared" /\ op[x].kind # "close" /\ op' = [op EXCEPT ![x] = o]
      /\ UNCHANGED <<fdtab, fixVars, pc, ctx, m_original_fd, peer, dead>>
  BY DEF TakeSqe
<1>2. op[x] \in OpType /\ op[x].fixed \in BOOLEAN /\ pc[x] = "io"
  BY <1>1 DEF TcpInv, Types, OpType, PhaseInv, Astray
<1>3. file \in Actors \cup {None, NullFd}
  <2>1. CASE op[x].fixed
    <3>1. Connected(x) /\ m_sqe_flag[x] /\ op[x].fd = m_sockfd[x]
      BY <1>1, <1>2, <2>1 DEF TcpInv, OpInv, PhaseInv, Connected, Astray
    <3>2. op[x].fd \in Index /\ ctx[x] \in Engines
      BY <3>1 DEF TcpInv, UseInv, Types
    <3>3. table[ctx[x]] \in [Index -> Actors \cup {None, NullFd}]
      BY <3>2 DEF TcpInv, Types
    <3>4. table[ctx[x]][op[x].fd] \in Actors \cup {None, NullFd}
      BY <3>2, <3>3
    <3>. QED BY <2>1, <3>4
  <2>2. CASE ~op[x].fixed /\ op[x].fd \in Fds
    <3>1. fdtab[op[x].fd] \in Actors \cup {None}
      BY <2>2 DEF TcpInv, Types, FileTables
    <3>. QED BY <2>2, <3>1
  <2>3. CASE ~op[x].fixed /\ op[x].fd \notin Fds
    BY <2>3
  <2>. QED BY <2>1, <2>2, <2>3
<1>. HIDE DEF file
<1>4. /\ o \in OpType /\ o.st = "running" /\ o.kind = op[x].kind /\ o.fd = op[x].fd /\ o.fixed = op[x].fixed
  BY <1>2, <1>3 DEF OpType
<1>. HIDE DEF o
<1>5. peer' \in [Sockets -> {"absent", "waiting", "open", "gone"}] /\ PeerInv'
  BY <1>1 DEF TcpInv, Types, FdInv, PeerInv
<1>. QED BY <1>1, <1>4, <1>5, OpMoves

\* A completion without a new file.
LEMMA PostKeeps ==
  ASSUME TcpInv, NEW x \in Actors, NEW r \in Int, Post(x, r), op[x].st = "running",
         op[x].kind # "close", x = Server \/ op[x].kind = "connect" => r <= 0,
         peer' \in [Sockets -> {"absent", "waiting", "open", "gone"}], PeerInv',
         UNCHANGED <<fdtab, fixVars, pc, ctx, m_original_fd, dead>>
  PROVE  TcpInv'
<1> USE Cast
<1>1. PICK o \in OpType : /\ op' = [op EXCEPT ![x] = o] /\ o.st = "completed" /\ o.res = Result(x, r)
                          /\ o.kind = op[x].kind /\ o.fd = op[x].fd /\ o.fixed = op[x].fixed /\ o.file = op[x].file
  BY PostEffect DEF TcpInv, Types
<1>2. x = Server => o.res <= 0
  <2>1. x = Server => op[x].kind = "accept"
    BY DEF TcpInv, PhaseInv, Astray
  <2>. QED BY <1>1, <2>1 DEF Result
<1>3. o.kind = "connect" => o.res = o.fd \/ o.res < 0
  BY <1>1 DEF Result
<1>. QED BY <1>1, <1>2, <1>3, OpMoves

LEMMA DoConnectKeeps ==
  ASSUME TcpInv, NEW x \in Actors, DoConnect(x)
  PROVE  TcpInv'
<1> USE Cast
<1>1. /\ op[x].kind = "connect" /\ op[x].st = "running"
      /\ UNCHANGED <<fdtab, fixVars, pc, ctx, m_original_fd, dead>>
  BY DEF DoConnect, Running
<1>2. x \in Sockets /\ pc[x] = "io"
  BY <1>1 DEF TcpInv, PhaseInv, Astray
<1>3. peer' \in [Sockets -> {"absent", "waiting", "open", "gone"}] /\ PeerInv'
  <2>1. CASE peer' = [peer EXCEPT ![x] = "open"]
    BY <1>1, <1>2, <2>1 DEF TcpInv, Types, FdInv, PeerInv
  <2>2. CASE UNCHANGED peer
    BY <1>1, <2>2 DEF TcpInv, Types, FdInv, PeerInv
  <2>. QED BY <2>1, <2>2 DEF DoConnect
<1>4. \E r \in Int : Post(x, r) /\ r <= 0
  BY DEF DoConnect, EPERM, ECONNREFUSED
<1>. QED BY <1>1, <1>2, <1>3, <1>4, PostKeeps

LEMMA DoTransferKeeps ==
  ASSUME TcpInv, NEW x \in Actors, DoRead(x) \/ DoWrite(x)
  PROVE  TcpInv'
<1> USE Cast
<1>1. /\ op[x].kind \in {"read", "write"} /\ op[x].st = "running"
      /\ UNCHANGED <<fdtab, fixVars, pc, ctx, m_original_fd, peer, dead>>
  BY DEF DoRead, DoWrite, Running
<1>2. x # Server
  BY <1>1 DEF TcpInv, PhaseInv, Astray
<1>3. peer' \in [Sockets -> {"absent", "waiting", "open", "gone"}] /\ PeerInv'
  BY <1>1 DEF TcpInv, Types, FdInv, PeerInv
<1>4. \E r \in Int : Post(x, r)
  BY DEF DoRead, DoWrite
<1>. QED BY <1>1, <1>2, <1>3, <1>4, PostKeeps

\* accept: a number for a connection, or an error.
LEMMA DoAcceptKeeps ==
  ASSUME TcpInv, DoAccept
  PROVE  TcpInv'
<1> USE Cast
<1>1. /\ op[Server].kind = "accept" /\ op[Server].st = "running"
      /\ UNCHANGED <<fixVars, pc, ctx, m_original_fd, dead>>
  BY DEF DoAccept, Running
<1>2. CASE Post(Server, -1) /\ UNCHANGED <<peer, fdtab>>
  <2>1. peer' \in [Sockets -> {"absent", "waiting", "open", "gone"}] /\ PeerInv'
    BY <1>1, <1>2 DEF TcpInv, Types, FdInv, PeerInv
  <2>. QED BY <1>1, <1>2, <2>1, PostKeeps
<1>3. ASSUME NEW c \in Accepted, Free # {}, peer[c] = "waiting", peer' = [peer EXCEPT ![c] = "open"],
             fdtab' = [fdtab EXCEPT ![Min(Free)] = c], Post(Server, Min(Free))
      PROVE  TcpInv'
  <2>1. PICK fd \in Fds : fd = Min(Free) /\ fdtab[fd] = None
    BY <1>3, LowestFree
  <2>2. PICK o \in OpType : /\ op' = [op EXCEPT ![Server] = o] /\ o.st = "completed" /\ o.res = fd
                            /\ o.kind = "accept" /\ o.fd = op[Server].fd /\ o.fixed = op[Server].fixed
    <3>1. Result(Server, fd) = fd
      BY <1>1 DEF Result
    <3>. QED BY <1>1, <1>3, <2>1, <3>1, PostEffect DEF TcpInv, Types
  <2>3. /\ fdtab'[fd] = c /\ \A g \in Fds : g # fd => fdtab'[g] = fdtab[g]
        /\ op'[Server] = o /\ \A y \in Sockets : op'[y] = op[y]
        /\ peer'[c] = "open" /\ \A y \in Sockets : y # c => peer'[y] = peer[y]
    BY <1>3, <2>1, <2>2 DEF TcpInv, Types, FileTables
  <2>4. UNCHANGED <<que, data, table, item, m_sockfd, m_sqe_flag>>
    BY <1>1 DEF fixVars
  <2>5. Types'
    <3>1. fdtab' \in FileTables /\ peer' \in [Sockets -> {"absent", "waiting", "open", "gone"}]
      BY <1>3, <2>1 DEF TcpInv, Types, FileTables
    <3>. QED BY <1>1, <2>2, <2>4, <3>1 DEF TcpInv, Types
  <2>6. \A y \in Actors : op'[y].kind = op[y].kind /\ (Connected(y)' <=> Connected(y))
    BY <1>1, <2>2, <2>3 DEF Connected
  <2>7. PhaseInv'
    BY <1>1, <2>2, <2>3 DEF TcpInv, PhaseInv, Astray
  <2>8. pc[c] = "none" /\ pc[Server] = "io" /\ \A g \in Fds : fdtab[g] # c
    BY <1>1, <1>3 DEF TcpInv, PhaseInv, FdInv, PeerInv, Astray
  <2>9. \A y \in Actors : \A g \in Fds : fdtab[g] = y => fdtab'[g] = y
    BY <2>1, <2>3
  <2>10. LeaseInv'
    BY <1>1, <2>4, <2>6, <2>9, LeaseKept DEF TcpInv
  <2>11. UseInv'
    BY <1>1, <2>4, <2>6, <2>9, UseKept DEF TcpInv
  <2>12. OpInv'
    BY <1>1, <2>2, <2>3, <2>4 DEF TcpInv, OpInv, Astray
  <2>13. FdInv'
    <3>1. \A s \in Sockets : IsOpen(s)' <=> IsOpen(s)
      BY <1>1, <2>3 DEF IsOpen, Astray
    <3>2. ~Completed(Server, "accept") /\ Completed(Server, "accept")'
      BY <1>1, <2>2, <2>3, <2>8 DEF Completed
    <3>3. OpenInv'
      BY <1>1, <2>9, <3>1 DEF TcpInv, FdInv, OpenInv
    <3>4. OwnerInv'
      <4>1. ASSUME NEW g \in Fds, NEW s \in Sockets, fdtab'[g] = s, g # fd
            PROVE  Astray(s)' \/ (IsOpen(s)' /\ m_original_fd'[s] = g)
        BY <1>1, <2>3, <3>1, <3>2, <4>1 DEF TcpInv, FdInv, OwnerInv, Pending, Astray
      <4>2. Pending(c)' /\ op'[Server].res = fd
        BY <1>1, <2>2, <2>3, <2>8, <3>2 DEF Pending
      <4>. QED BY <2>3, <4>1, <4>2 DEF OwnerInv, Astray
    <3>5. AcceptInv'
      <4>1. Pending(c)' /\ op'[Server].res = fd
        BY <1>1, <2>2, <2>3, <2>8, <3>2 DEF Pending
      <4>. QED BY <2>3, <4>1 DEF AcceptInv
    <3>6. PeerInv'
      BY <1>1, <2>1, <2>3 DEF TcpInv, FdInv, PeerInv
    <3>. QED BY <3>3, <3>4, <3>5, <3>6 DEF FdInv
  <2>. QED BY <2>5, <2>7, <2>10, <2>11, <2>12, <2>13 DEF TcpInv
<1>. QED BY <1>2, <1>3 DEF DoAccept

\* close: the number is free again.
LEMMA DoCloseKeeps ==
  ASSUME TcpInv, NEW x \in Actors, DoClose(x)
  PROVE  TcpInv'
<1> USE Cast
<1>1. /\ op[x].kind = "close" /\ op[x].st = "prepared"
      /\ UNCHANGED <<fixVars, pc, ctx, m_original_fd, peer, dead>>
  BY DEF DoClose
<1>2. pc[x] = "io" /\ x \in Sockets /\ item[x] = -1
  BY <1>1 DEF TcpInv, PhaseInv, LeaseInv, LentInv, Connected, Astray
<1>0. CASE Astray(x)
  <2>1. op[x].fd \notin Fds
    <3>1. op[x].fd < 0
      BY <1>0, <1>1 DEF TcpInv, OpInv, Astray
    <3>2. \A n \in Fds : ~(n < 0)
      BY DEF Fds
    <3>. QED BY <3>1, <3>2
  <2>2. UNCHANGED fdtab /\ Post(x, -1)
    BY <2>1 DEF DoClose
  <2>3. PICK o \in OpType : /\ op' = [op EXCEPT ![x] = o] /\ o.st = "completed"
                            /\ o.kind = op[x].kind /\ o.fd = op[x].fd /\ o.fixed = op[x].fixed
    <3>1. op \in [Actors -> OpType] /\ x \in Actors /\ -1 \in Int
      BY DEF TcpInv, Types
    <3>. HIDE Cast
    <3>. QED BY <2>2, <3>1, PostEffect
  <2>4. x # Server /\ peer' \in [Sockets -> {"absent", "waiting", "open", "gone"}] /\ PeerInv'
    BY <1>1, <1>2, <2>2 DEF TcpInv, Types, FdInv, PeerInv
  <2>. QED BY <1>0, <1>1, <2>2, <2>3, <2>4, OpMoves
<1>. SUFFICES ASSUME ~Astray(x) PROVE TcpInv'
  BY <1>0
<1>3. PICK fd \in Fds : fd = op[x].fd /\ fd = m_original_fd[x] /\ fdtab[fd] = x
  <2>1. IsOpen(x)
    BY <1>1, <1>2 DEF IsOpen
  <2>. QED BY <1>1, <1>2, <2>1 DEF TcpInv, OpInv, FdInv, OpenInv, Astray
<1>4. fdtab' = [fdtab EXCEPT ![fd] = None] /\ Post(x, 0)
  BY <1>3 DEF DoClose, Free
<1>5. PICK o \in OpType : /\ op' = [op EXCEPT ![x] = o] /\ o.st = "completed" /\ o.res = 0
                          /\ o.kind = "close" /\ o.fd = op[x].fd /\ o.fixed = op[x].fixed
  <2>1. Result(x, 0) = 0
    BY <1>1 DEF Result
  <2>2. op \in [Actors -> OpType] /\ x \in Actors /\ 0 \in Int
    BY DEF TcpInv, Types
  <2>3. PICK o \in OpType : /\ op' = [op EXCEPT ![x] = o] /\ o.st = "completed" /\ o.res = Result(x, 0)
                            /\ o.kind = op[x].kind /\ o.fd = op[x].fd /\ o.fixed = op[x].fixed
    <3>. HIDE Cast
    <3>. QED BY <1>4, <2>2, PostEffect
  <2>. QED BY <1>1, <2>1, <2>3
<1>6. /\ fdtab'[fd] = None /\ \A g \in Fds : g # fd => fdtab'[g] = fdtab[g]
      /\ op'[x] = o /\ \A y \in Actors : y # x => op'[y] = op[y]
  BY <1>4, <1>5 DEF TcpInv, Types, FileTables
<1>7. UNCHANGED <<que, data, table, item, m_sockfd, m_sqe_flag>>
  BY <1>1 DEF fixVars
<1>8. Types'
  <2>1. fdtab' \in FileTables
    BY <1>4 DEF TcpInv, Types, FileTables
  <2>. QED BY <1>1, <1>5, <1>7, <2>1 DEF TcpInv, Types
<1>9. PhaseInv'
  BY <1>1, <1>2, <1>5, <1>6 DEF TcpInv, PhaseInv, Astray
<1>10. \A y \in Actors : (Connected(y)' <=> Connected(y)) /\ (Connected(y) => y # x) /\ op'[y].kind = op[y].kind
  BY <1>1, <1>5, <1>6 DEF Connected
<1>11. \A y \in Actors : y # x => \A g \in Fds : fdtab[g] = y => fdtab'[g] = y
  BY <1>3, <1>6
<1>12. LeaseInv'
  BY <1>1, <1>2, <1>7, <1>10, <1>11, LeaseKept DEF TcpInv
<1>13. UseInv'
  <2>1. \A y \in Actors : Connected(y)' => Connected(y) /\ \A g \in Fds : fdtab[g] = y => fdtab'[g] = y
    BY <1>10, <1>11
  <2>2. \A y \in Actors : pc'[y] \in {"none", "start"} \/ op'[y].kind = "connect" =>
                            pc[y] \in {"none", "start"} \/ op[y].kind = "connect"
    BY <1>1, <1>10
  <2>. QED BY <1>1, <1>7, <2>1, <2>2, UseKept DEF TcpInv
<1>14. OpInv'
  BY <1>1, <1>5, <1>6, <1>7 DEF TcpInv, OpInv, Astray
<1>15. FdInv'
  <2>1. ~IsOpen(x)' /\ \A s \in Sockets : s # x => (IsOpen(s)' <=> IsOpen(s))
    BY <1>1, <1>2, <1>5, <1>6 DEF IsOpen, Astray
  <2>2. \A s \in Sockets : Pending(s)' <=> Pending(s)
    BY <1>1, <1>2, <1>6 DEF Pending, Completed
  <2>3. OpenInv'
    BY <1>1, <1>11, <2>1 DEF TcpInv, FdInv, OpenInv
  <2>4. \A g \in Fds : fdtab'[g] # x
    <3>1. ~Pending(x)
      BY <1>2 DEF Pending
    <3>. QED BY <1>2, <1>3, <1>6, <3>1 DEF TcpInv, FdInv, OwnerInv, Astray
  <2>5. OwnerInv'
    <3>1. ASSUME NEW g \in Fds, NEW s \in Sockets, fdtab'[g] = s
          PROVE  Astray(s)' \/ (IsOpen(s)' /\ m_original_fd'[s] = g) \/ (Pending(s)' /\ op'[Server].res = g)
      <4>1. s # x /\ g # fd /\ fdtab[g] = s
        BY <1>6, <2>4, <3>1
      <4>2. Astray(s) \/ (IsOpen(s) /\ m_original_fd[s] = g) \/ (Pending(s) /\ op[Server].res = g)
        BY <4>1 DEF TcpInv, FdInv, OwnerInv, Astray
      <4>3. op'[Server] = op[Server]
        BY <1>2, <1>6
      <4>. QED BY <1>1, <2>1, <2>2, <4>1, <4>2, <4>3 DEF Astray
    <3>. QED BY <3>1 DEF OwnerInv, Astray
  <2>6. AcceptInv'
    <3>1. op'[Server] = op[Server] /\ pc' = pc
      BY <1>1, <1>2, <1>6
    <3>2. ASSUME Completed(Server, "accept")', op'[Server].res > 0
          PROVE  \E r \in Fds, c \in Accepted : op'[Server].res = r /\ fdtab'[r] = c /\ Pending(c)'
      <4>1. PICK r \in Fds, c \in Accepted : op[Server].res = r /\ fdtab[r] = c /\ Pending(c)
        BY <3>1, <3>2 DEF TcpInv, FdInv, AcceptInv, Completed, Pending
      <4>2. r # fd
        BY <1>2, <1>3, <4>1 DEF Pending
      <4>. QED BY <1>6, <2>2, <3>1, <4>1, <4>2
    <3>. QED BY <3>2 DEF AcceptInv
  <2>7. PeerInv'
    BY <1>1, <1>6 DEF TcpInv, FdInv, PeerInv
  <2>. QED BY <2>3, <2>5, <2>6, <2>7 DEF FdInv
<1>. QED BY <1>8, <1>9, <1>12, <1>13, <1>14, <1>15 DEF TcpInv

\* A peer connects, or goes; nothing happens.
LEMMA PeerStepKeeps ==
  ASSUME TcpInv, NEW s \in Sockets, PeerStep(s)
  PROVE  TcpInv'
<1> USE Cast
<1>1. UNCHANGED <<fdtab, que, data, table, item, m_sockfd, m_sqe_flag, pc, ctx, m_original_fd, op, dead>>
  BY DEF PeerStep, fixVars
<1>2. \/ s \in Accepted /\ peer[s] = "absent" /\ peer' = [peer EXCEPT ![s] = "waiting"]
      \/ peer[s] = "open" /\ peer' = [peer EXCEPT ![s] = "gone"]
  BY DEF PeerStep
<1>3. Types'
  BY <1>1, <1>2 DEF TcpInv, Types
<1>4. PeerInv'
  BY <1>1, <1>2 DEF TcpInv, Types, FdInv, PeerInv
<1>5. PhaseInv' /\ OpInv'
  BY <1>1 DEF TcpInv, PhaseInv, OpInv, Astray
<1>6. \A y \in Actors : Connected(y)' <=> Connected(y)
  BY <1>1 DEF Connected
<1>7. LeaseInv'
  BY <1>1, <1>6, LeaseKept DEF TcpInv
<1>8. UseInv'
  BY <1>1, <1>6, UseKept DEF TcpInv
<1>9. FdInv'
  BY <1>1, <1>4 DEF TcpInv, FdInv, OpenInv, OwnerInv, AcceptInv, Pending, Completed, IsOpen, Astray
<1>. QED BY <1>3, <1>5, <1>7, <1>8, <1>9 DEF TcpInv

LEMMA StutterKeeps ==
  ASSUME TcpInv, UNCHANGED <<fdtab, fixVars, pc, ctx, m_original_fd, op, peer>>
  PROVE  TcpInv'
<1> USE Cast
<1>1. UNCHANGED <<que, data, table, item, m_sockfd, m_sqe_flag>>
  BY DEF fixVars
<1>2. Types'
  BY <1>1 DEF TcpInv, Types
<1>3. PhaseInv' /\ OpInv'
  BY <1>1 DEF TcpInv, PhaseInv, OpInv, Astray
<1>4. \A y \in Actors : Connected(y)' <=> Connected(y)
  BY DEF Connected
<1>5. LeaseInv'
  BY <1>1, <1>4, LeaseKept DEF TcpInv
<1>6. UseInv'
  BY <1>1, <1>4, UseKept DEF TcpInv
<1>7. FdInv'
  BY DEF TcpInv, FdInv, OpenInv, OwnerInv, AcceptInv, PeerInv, Pending, Completed, IsOpen, Astray
<1>. QED BY <1>2, <1>3, <1>5, <1>6, <1>7 DEF TcpInv

-----------------------------------------------------------------------------
(***************************************************************************)
(* The coroutines, without the fixed descriptors.                          *)
(***************************************************************************)
LEMMA EchoKeeps ==
  ASSUME TcpInv, NEW x \in Actors, Echo(x)
  PROVE  TcpInv'
<1> USE Cast
<1>1. /\ pc[x] = "io" /\ op[x].kind \in {"read", "write"} /\ op[x].st = "completed"
      /\ UNCHANGED <<fdtab, fixVars, pc, ctx, m_original_fd, peer, dead>>
  BY DEF Echo, Completed
<1>2. PICK o \in OpType : /\ op' = [op EXCEPT ![x] = o] /\ o.kind \in {"read", "write"} /\ o.st = "prepared"
                          /\ o.fd = m_sockfd[x] /\ (o.fixed <=> m_sqe_flag[x] /\ PrepKeepsFlags)
  <2>. DEFINE k == IF op[x].kind = "read" THEN "write" ELSE "read"
  <2>1. op' = [op EXCEPT ![x] = Prepared(k, m_sockfd[x], m_sqe_flag[x])]
    BY DEF Echo, TcpInv, Types
  <2>2. k \in Kinds /\ k \in {"read", "write"} /\ m_sockfd[x] \in Int /\ m_sqe_flag[x] \in BOOLEAN
    BY DEF Kinds, TcpInv, Types
  <2>. HIDE DEF k
  <2>3. PICK o \in OpType : /\ o = Prepared(k, m_sockfd[x], m_sqe_flag[x]) /\ o.kind = k /\ o.st = "prepared"
                            /\ o.fd = m_sockfd[x] /\ (o.fixed <=> m_sqe_flag[x] /\ PrepKeepsFlags)
    BY <2>2, NewOp
  <2>. QED BY <2>1, <2>2, <2>3, Zenon
<1>3. x \in Sockets
  BY <1>1 DEF TcpInv, PhaseInv, Astray
<1>4. op'[x] = o /\ \A y \in Actors : y # x => op'[y] = op[y]
  BY <1>2 DEF TcpInv, Types
<1>5. UNCHANGED <<que, data, table, item, m_sockfd, m_sqe_flag>>
  BY <1>1 DEF fixVars
<1>6. Types'
  BY <1>1, <1>2, <1>5 DEF TcpInv, Types
<1>7. PhaseInv'
  BY <1>1, <1>2, <1>3, <1>4 DEF TcpInv, PhaseInv, Astray
<1>8. \A y \in Actors : Connected(y)' <=> Connected(y)
  BY <1>1, <1>2, <1>4 DEF Connected
<1>9. LeaseInv'
  BY <1>1, <1>5, <1>8, LeaseKept DEF TcpInv
<1>10. UseInv'
  <2>1. \A y \in Actors : pc'[y] \in {"none", "start"} \/ op'[y].kind = "connect" =>
                            pc[y] \in {"none", "start"} \/ op[y].kind = "connect"
    BY <1>1, <1>2, <1>4
  <2>. QED BY <1>1, <1>5, <1>8, <2>1, UseKept DEF TcpInv
<1>11. OpInv'
  BY <1>1, <1>2, <1>4, <1>5 DEF TcpInv, OpInv, Astray
<1>12. FdInv'
  <2>1. \A s \in Sockets : IsOpen(s)' <=> IsOpen(s)
    BY <1>1, <1>2, <1>4 DEF IsOpen, Astray
  <2>2. op'[Server] = op[Server]
    BY <1>3, <1>4
  <2>3. PeerInv'
    BY <1>1 DEF TcpInv, FdInv, PeerInv
  <2>4. op'[Server].res \in Int
    BY <2>2 DEF TcpInv, Types, OpType
  <2>. QED BY <1>1, <2>1, <2>2, <2>3, <2>4, FdKept DEF TcpInv, Completed
<1>. QED BY <1>6, <1>7, <1>9, <1>10, <1>11, <1>12 DEF TcpInv

\* The assert on the result of close() holds.
LEMMA ClosedKeeps ==
  ASSUME TcpInv, NEW x \in Actors, Closed(x), Astray(x) => NDEBUG
  PROVE  TcpInv' /\ dead' = dead
<1> USE Cast
<1>1. /\ pc[x] = "io" /\ op[x].kind = "close" /\ op[x].st = "completed"
      /\ pc' = [pc EXCEPT ![x] = "done"] /\ op' = [op EXCEPT ![x] = NoOp]
      /\ UNCHANGED <<fdtab, fixVars, ctx, m_original_fd, peer>>
  BY DEF Closed, Completed
<1>2. UNCHANGED dead
  BY <1>1 DEF Closed, TcpInv, OpInv, Astray
<1>3. x \in Sockets
  BY <1>1 DEF TcpInv, PhaseInv, Astray
<1>4. /\ op'[x] = NoOp /\ pc'[x] = "done"
      /\ \A y \in Actors : y # x => op'[y] = op[y] /\ pc'[y] = pc[y]
  BY <1>1 DEF TcpInv, Types
<1>5. UNCHANGED <<que, data, table, item, m_sockfd, m_sqe_flag>>
  BY <1>1 DEF fixVars
<1>6. Types'
  <2>1. pc' \in [Actors -> {"none", "start", "io", "done"}] /\ op' \in [Actors -> OpType]
    BY <1>1, NoOpType DEF TcpInv, Types
  <2>. QED BY <1>1, <1>2, <1>5, <2>1 DEF TcpInv, Types
<1>7. PhaseInv'
  BY <1>1, <1>3, <1>4, NoOpType DEF TcpInv, PhaseInv, Astray
<1>8. \A y \in Actors : Connected(y)' <=> Connected(y)
  BY <1>1, <1>4 DEF Connected
<1>9. LeaseInv'
  BY <1>1, <1>5, <1>8, LeaseKept DEF TcpInv
<1>10. UseInv'
  <2>1. \A y \in Actors : pc'[y] \in {"none", "start"} \/ op'[y].kind = "connect" =>
                            pc[y] \in {"none", "start"} \/ op[y].kind = "connect"
    BY <1>1, <1>4, NoOpType
  <2>. QED BY <1>1, <1>5, <1>8, <2>1, UseKept DEF TcpInv
<1>11. OpInv'
  BY <1>1, <1>4, <1>5, NoOpType DEF TcpInv, OpInv, Astray
<1>12. FdInv'
  <2>1. \A s \in Sockets : (IsOpen(s)' <=> IsOpen(s)) /\ (pc'[s] = "none" <=> pc[s] = "none")
    BY <1>1, <1>4 DEF IsOpen, Astray
  <2>2. op'[Server] = op[Server] /\ pc'[Server] = pc[Server]
    BY <1>3, <1>4
  <2>3. PeerInv'
    BY <1>1, <2>1 DEF TcpInv, FdInv, PeerInv
  <2>4. op'[Server].res \in Int
    BY <2>2 DEF TcpInv, Types, OpType
  <2>. QED BY <1>1, <2>1, <2>2, <2>3, <2>4, FdKept DEF TcpInv, Completed
<1>. QED BY <1>2, <1>6, <1>7, <1>9, <1>10, <1>11, <1>12 DEF TcpInv

\* A client's socket.
LEMMA StartClientKeeps ==
  ASSUME TcpInv, NEW x \in Actors, StartClient(x)
  PROVE  TcpInv'
<1> USE Cast
<1>1. PICK fd \in Fds : fd = Min(Free) /\ fdtab[fd] = None
  BY LowestFree DEF StartClient
<1>2. /\ x \in Clients /\ x \in Sockets /\ pc[x] = "start"
      /\ fdtab' = [fdtab EXCEPT ![fd] = x] /\ m_original_fd' = [m_original_fd EXCEPT ![x] = fd]
      /\ pc' = [pc EXCEPT ![x] = "io"]
      /\ UNCHANGED <<fixVars, ctx, peer, dead>>
  BY <1>1 DEF StartClient
<1>3. PICK o \in OpType : op' = [op EXCEPT ![x] = o] /\ o.kind = "connect" /\ o.st = "prepared" /\ o.fd = fd /\ ~o.fixed
  <2>1. PICK o \in OpType : o = Plain("connect", fd) /\ o.kind = "connect" /\ o.st = "prepared" /\ o.fd = fd /\ ~o.fixed
    BY PlainOp DEF Kinds
  <2>2. op' = [op EXCEPT ![x] = Plain("connect", fd)]
    BY <1>1 DEF StartClient, Plain
  <2>. QED BY <2>1, <2>2
<1>4. /\ op'[x] = o /\ pc'[x] = "io" /\ m_original_fd'[x] = fd /\ fdtab'[fd] = x
      /\ \A y \in Actors : y # x => op'[y] = op[y] /\ pc'[y] = pc[y] /\ m_original_fd'[y] = m_original_fd[y]
      /\ \A g \in Fds : g # fd => fdtab'[g] = fdtab[g]
  BY <1>2, <1>3 DEF TcpInv, Types, FileTables
<1>5. UNCHANGED <<que, data, table, item, m_sockfd, m_sqe_flag>>
  BY <1>2 DEF fixVars
<1>6. Types'
  <2>1. pc' \in [Actors -> {"none", "start", "io", "done"}] /\ op' \in [Actors -> OpType]
    BY <1>2, <1>3 DEF TcpInv, Types
  <2>2. m_original_fd' \in [Actors -> Int] /\ fdtab' \in FileTables
    BY <1>2 DEF TcpInv, Types, FileTables
  <2>. QED BY <1>2, <1>5, <2>1, <2>2 DEF TcpInv, Types
<1>7. PhaseInv'
  BY <1>2, <1>3, <1>4 DEF TcpInv, PhaseInv, Astray
<1>8. \A y \in Actors : Connected(y)' <=> Connected(y)
  BY <1>2, <1>3, <1>4 DEF Connected
<1>9. \A y \in Actors : \A g \in Fds : fdtab[g] = y => fdtab'[g] = y
  BY <1>1, <1>4
<1>0. item[x] = -1 /\ ~Connected(x) /\ ~Astray(x)
  BY <1>2 DEF TcpInv, PhaseInv, LeaseInv, LentInv, Connected
<1>10. LeaseInv'
  BY <1>0, <1>2, <1>4, <1>5, <1>8, <1>9, LeaseKept DEF TcpInv
<1>11. UseInv'
  <2>1. \A y \in Actors : pc'[y] \in {"none", "start"} \/ op'[y].kind = "connect" =>
                            pc[y] \in {"none", "start"} \/ op[y].kind = "connect"
    BY <1>2, <1>4
  <2>. QED BY <1>0, <1>4, <1>5, <1>8, <1>9, <2>1, UseKept DEF TcpInv
<1>12. OpInv'
  BY <1>2, <1>3, <1>4, <1>5 DEF TcpInv, OpInv, Astray
<1>13. FdInv'
  <2>1. ~IsOpen(x) /\ IsOpen(x)' /\ \A s \in Sockets : s # x => (IsOpen(s)' <=> IsOpen(s))
    BY <1>2, <1>3, <1>4 DEF IsOpen, Astray
  <2>2. op'[Server] = op[Server] /\ \A s \in Sockets : Pending(s)' <=> Pending(s)
    BY <1>2, <1>4 DEF Pending, Completed
  <2>3. OpenInv'
    <3>1. ASSUME NEW s \in Sockets, s # x, IsOpen(s)' PROVE m_original_fd'[s] \in Fds /\ fdtab'[m_original_fd'[s]] = s
      <4>1. m_original_fd'[s] = m_original_fd[s] /\ m_original_fd[s] \in Fds /\ fdtab[m_original_fd[s]] = s
        BY <1>4, <2>1, <3>1 DEF TcpInv, FdInv, OpenInv
      <4>. QED BY <1>9, <4>1
    <3>. QED BY <1>4, <3>1 DEF OpenInv
  <2>4. OwnerInv'
    <3>1. ASSUME NEW g \in Fds, NEW s \in Sockets, fdtab'[g] = s
          PROVE  Astray(s)' \/ (IsOpen(s)' /\ m_original_fd'[s] = g) \/ (Pending(s)' /\ op'[Server].res = g)
      <4>1. CASE g = fd
        BY <1>4, <2>1, <3>1, <4>1
      <4>2. CASE g # fd
        <5>1. Astray(s) \/ (IsOpen(s) /\ m_original_fd[s] = g) \/ (Pending(s) /\ op[Server].res = g)
          BY <1>4, <3>1, <4>2 DEF TcpInv, FdInv, OwnerInv, Astray
        <5>2. s # x
          BY <1>0, <1>2, <2>1, <5>1 DEF Pending
        <5>. QED BY <1>4, <2>1, <2>2, <5>1, <5>2 DEF Astray
      <4>. QED BY <4>1, <4>2
    <3>. QED BY <3>1 DEF OwnerInv, Astray
  <2>5. AcceptInv'
    <3>1. ASSUME Completed(Server, "accept")', op'[Server].res > 0
          PROVE  \E r \in Fds, c \in Accepted : op'[Server].res = r /\ fdtab'[r] = c /\ Pending(c)'
      <4>1. PICK r \in Fds, c \in Accepted : op[Server].res = r /\ fdtab[r] = c /\ Pending(c)
        BY <1>2, <1>4, <2>2, <3>1 DEF TcpInv, FdInv, AcceptInv, Completed, Pending
      <4>. QED BY <1>9, <2>2, <4>1
    <3>. QED BY <3>1 DEF AcceptInv
  <2>6. PeerInv'
    BY <1>2, <1>4 DEF TcpInv, FdInv, PeerInv
  <2>. QED BY <2>3, <2>4, <2>5, <2>6 DEF FdInv
<1>. QED BY <1>6, <1>7, <1>10, <1>11, <1>12, <1>13 DEF TcpInv

\* The server hands a connection to its session.
LEMMA ServeNextKeeps ==
  ASSUME TcpInv, ServeNext
  PROVE  TcpInv'
<1> USE Cast
<1>1. PICK c \in Accepted, e \in Engines :
        /\ fdtab[op[Server].res] = c /\ pc' = [pc EXCEPT ![c] = "start"] /\ ctx' = [ctx EXCEPT ![c] = e]
        /\ m_original_fd' = [m_original_fd EXCEPT ![c] = op[Server].res]
  BY DEF ServeNext
<1>2. /\ pc[Server] = "io" /\ op[Server].kind = "accept" /\ op[Server].st = "completed" /\ op[Server].res > 0
      /\ UNCHANGED <<fdtab, fixVars, peer, dead>>
  BY DEF ServeNext, Completed
<1>3. PICK fd \in Fds : fd = op[Server].res /\ fdtab[fd] = c /\ pc[c] = "none" /\ c \in Sockets
  BY <1>1, <1>2 DEF TcpInv, FdInv, AcceptInv, Completed, Pending
<1>4. PICK o \in OpType : /\ op' = [op EXCEPT ![Server] = o] /\ o.kind = "accept" /\ o.st = "prepared"
                          /\ o.fd = m_sockfd[Server] /\ (o.fixed <=> m_sqe_flag[Server] /\ PrepKeepsFlags)
  <2>1. "accept" \in Kinds /\ m_sockfd[Server] \in Int /\ m_sqe_flag[Server] \in BOOLEAN
    BY DEF Kinds, TcpInv, Types
  <2>2. PICK o \in OpType : /\ o = Prepared("accept", m_sockfd[Server], m_sqe_flag[Server]) /\ o.kind = "accept"
                            /\ o.st = "prepared" /\ o.fd = m_sockfd[Server]
                            /\ (o.fixed <=> m_sqe_flag[Server] /\ PrepKeepsFlags)
    BY <2>1, NewOp
  <2>3. op' = [op EXCEPT ![Server] = o]
    BY <2>2, Zenon DEF ServeNext
  <2>. QED BY <2>2, <2>3, Zenon
<1>5. /\ op'[Server] = o /\ \A y \in Sockets : op'[y] = op[y]
      /\ pc'[c] = "start" /\ m_original_fd'[c] = fd
      /\ \A y \in Actors : y # c => pc'[y] = pc[y] /\ ctx'[y] = ctx[y] /\ m_original_fd'[y] = m_original_fd[y]
  BY <1>1, <1>3, <1>4 DEF TcpInv, Types
<1>6. UNCHANGED <<que, data, table, item, m_sockfd, m_sqe_flag>>
  BY <1>2 DEF fixVars
<1>7. Types'
  <2>1. pc' \in [Actors -> {"none", "start", "io", "done"}] /\ op' \in [Actors -> OpType] /\ ctx' \in [Actors -> Engines]
    BY <1>1, <1>4 DEF TcpInv, Types
  <2>2. m_original_fd' \in [Actors -> Int]
    BY <1>1, <1>3 DEF TcpInv, Types
  <2>. QED BY <1>2, <1>6, <2>1, <2>2 DEF TcpInv, Types
<1>8. PhaseInv'
  <2>0. ~(fd < 0)
    BY <1>3 DEF Fds
  <2>1. \A y \in Actors : Astray(y)' => y # c /\ Astray(y)
    BY <1>5, <2>0, ZenonT(60) DEF Astray
  <2>2. \A y \in Actors : Astray(y)' => y \in Clients /\ pc'[y] # "start" /\ op'[y].kind # "connect"
    BY <1>5, <2>1 DEF TcpInv, PhaseInv
  <2>3. \A y \in Actors : pc'[y] # "io" => op'[y].kind = "none" /\ op'[y].st = "none"
    BY <1>2, <1>3, <1>5 DEF TcpInv, PhaseInv
  <2>4. \A s \in Sockets : pc'[s] = "io" => op'[s].kind \in {"connect", "read", "write", "close"}
    BY <1>5 DEF TcpInv, PhaseInv
  <2>. QED BY <1>4, <1>5, <2>2, <2>3, <2>4 DEF PhaseInv
<1>9. \A y \in Actors : Connected(y)' <=> Connected(y)
  BY <1>2, <1>3, <1>4, <1>5 DEF Connected
<1>10. item[c] = -1 /\ ~Connected(c) /\ ~Astray(c)
  BY <1>3 DEF TcpInv, PhaseInv, LeaseInv, LentInv, Connected
<1>11. LeaseInv'
  <2>1. FreeInv'
    <3>1. \A y \in Actors : item[y] # -1 => ctx'[y] = ctx[y] /\ item'[y] = item[y]
      BY <1>5, <1>6, <1>10
    <3>2. ASSUME NEW f \in Engines, NEW i \in Index, i \notin ToSet(que[f])
          PROVE  \E y \in Actors : ctx'[y] = f /\ item'[y] = i
      <4>1. PICK y \in Actors : ctx[y] = f /\ item[y] = i
        BY <3>2, ZenonT(60) DEF TcpInv, LeaseInv, FreeInv
      <4>2. item[y] # -1
        BY <4>1
      <4>. QED BY <3>1, <4>1, <4>2
    <3>3. \A f \in Engines : IsInjective(que[f]) /\ \A i \in ToSet(que[f]) \cap Index : data[f][i] = NullFd /\ table[f][i] = NullFd
      BY DEF TcpInv, LeaseInv, FreeInv
    <3>. QED BY <1>6, <3>2, <3>3 DEF FreeInv
  <2>2. LentInv'
    <3>1. \A y \in Actors : item'[y] # -1 => item[y] # -1 /\ ctx'[y] = ctx[y]
      BY <1>5, <1>6, <1>10
    <3>2. SUFFICES ASSUME NEW y \in Actors, item[y] # -1
                   PROVE  /\ Connected(y)' /\ item[y] \notin ToSet(que[ctx[y]])
                          /\ data[ctx[y]][item[y]] \in Fds \cup {-1} /\ OwnNumber(y, data[ctx[y]][item[y]], fdtab)
                          /\ table[ctx[y]][item[y]] = OwnFile(y)
                          /\ \A z \in Actors : ctx[z] = ctx[y] /\ item[z] = item[y] => z = y
      <4>1. SUFFICES ASSUME NEW y \in Actors, item'[y] # -1
                     PROVE  /\ Connected(y)' /\ item'[y] \notin ToSet(que'[ctx'[y]])
                            /\ data'[ctx'[y]][item'[y]] \in Fds \cup {-1} /\ OwnNumber(y, data[ctx[y]][item[y]], fdtab)'
                            /\ table'[ctx'[y]][item'[y]] = OwnFile(y)'
                            /\ \A z \in Actors : ctx'[z] = ctx'[y] /\ item'[z] = item'[y] => z = y
        BY DEF LentInv
      <4>2. item[y] # -1 /\ ctx'[y] = ctx[y] /\ m_original_fd'[y] = m_original_fd[y]
        BY <1>5, <1>10, <3>1, <4>1
      <4>3. OwnFile(y)' = OwnFile(y) /\ \A n \in Fds \cup {-1} : OwnNumber(y, n, fdtab) => OwnNumber(y, n, fdtab)'
        BY <1>2, <4>2 DEF OwnFile, OwnNumber, Astray
      <4>4. \A z \in Actors : item'[z] = item'[y] => ctx'[z] = ctx[z]
        BY <3>1, <4>1
      <4>. QED BY <1>2, <1>6, <3>2, <4>1, <4>2, <4>3, <4>4
    <3>. QED BY <1>9, <3>2 DEF TcpInv, LeaseInv, LentInv
  <2>. QED BY <2>1, <2>2 DEF LeaseInv
<1>12. UseInv'
  <2>1. \A y \in Actors : pc'[y] \in {"none", "start"} \/ op'[y].kind = "connect" =>
                            pc[y] \in {"none", "start"} \/ op[y].kind = "connect"
    BY <1>3, <1>4, <1>5
  <2>. QED BY <1>2, <1>5, <1>6, <1>9, <1>10, <2>1, UseKept DEF TcpInv
<1>13. OpInv'
  <2>1. op[c].kind = "none"
    BY <1>3 DEF TcpInv, PhaseInv, Astray
  <2>. QED BY <1>3, <1>4, <1>5, <1>6, <2>1 DEF TcpInv, OpInv, Astray
<1>14. FdInv'
  <2>1. ~IsOpen(c) /\ IsOpen(c)' /\ \A s \in Sockets : s # c => (IsOpen(s)' <=> IsOpen(s))
    <3>1. ~(fd < 0)
      BY DEF Fds
    <3>. QED BY <1>3, <1>5, <3>1 DEF IsOpen, Astray
  <2>2. ~Completed(Server, "accept")'
    BY <1>4, <1>5 DEF Completed
  <2>3. OpenInv'
    BY <1>2, <1>3, <1>5, <2>1 DEF TcpInv, FdInv, OpenInv
  <2>4. OwnerInv'
    <3>1. ASSUME NEW g \in Fds, NEW s \in Sockets, fdtab[g] = s
          PROVE  Astray(s)' \/ (IsOpen(s)' /\ m_original_fd'[s] = g)
      <4>1. Astray(s) \/ (IsOpen(s) /\ m_original_fd[s] = g) \/ (Pending(s) /\ op[Server].res = g)
        BY <3>1 DEF TcpInv, FdInv, OwnerInv, Astray
      <4>2. CASE s = c
        BY <1>3, <1>5, <1>10, <2>1, <4>1, <4>2
      <4>3. CASE s # c
        BY <1>3, <1>5, <2>1, <3>1, <4>1, <4>3 DEF Astray
      <4>. QED BY <4>2, <4>3
    <3>. QED BY <1>2, <3>1 DEF OwnerInv, Astray
  <2>5. AcceptInv'
    BY <2>2 DEF AcceptInv
  <2>6. PeerInv'
    BY <1>2, <1>3, <1>5 DEF TcpInv, FdInv, PeerInv
  <2>. QED BY <2>3, <2>4, <2>5, <2>6 DEF FdInv
<1>. QED BY <1>7, <1>8, <1>11, <1>12, <1>13, <1>14 DEF TcpInv

-----------------------------------------------------------------------------
(***************************************************************************)
(* Fixed descriptors.                                                      *)
(***************************************************************************)

\* A place holds the null descriptor, a number that is open, or -1.
LEMMA Registered ==
  ASSUME TcpInv, NEW e \in Engines, NEW i \in Index
  PROVE  \/ data[e][i] = NullFd /\ table[e][i] = NullFd
         \/ data[e][i] = -1 /\ table[e][i] = None
         \/ data[e][i] \in Fds /\ fdtab[data[e][i]] = table[e][i] /\ table[e][i] \in Actors
<1>1. CASE i \in ToSet(que[e])
  BY <1>1 DEF TcpInv, LeaseInv, FreeInv
<1>2. CASE i \notin ToSet(que[e])
  <2>1. PICK x \in Actors : ctx[x] = e /\ item[x] = i
    BY <1>2 DEF TcpInv, LeaseInv, FreeInv
  <2>2. item[x] # -1
    BY <2>1, Cast
  <2>3. /\ data[e][i] \in Fds \cup {-1} /\ OwnNumber(x, data[e][i], fdtab) /\ table[e][i] = OwnFile(x)
    BY <2>1, <2>2 DEF TcpInv, LeaseInv, LentInv
  <2>4. \A n \in Fds : ~(n < 0)
    BY DEF Fds
  <2>. QED BY <2>3, <2>4 DEF OwnNumber, OwnFile
<1>. QED BY <1>1, <1>2

\* io_uring_register_files_update after place i was given to number fd, or
\* made null, changes the file of that place only, and does not fail.
LEMMA UpdateEffect ==
  ASSUME TcpInv, NEW e \in Engines, NEW i \in Index, NEW fd \in Fds \cup {NullFd, -1},
         NEW files \in FileTables, NEW f \in Actors \cup {None, NullFd},
         \/ fd = NullFd /\ f = NullFd
         \/ fd = -1 /\ f = None
         \/ fd \in Fds /\ f \in Actors /\ files[fd] = f,
         \A g \in Fds : fdtab[g] # None => files[g] = fdtab[g],
         UpdateRegister(e, [data[e] EXCEPT ![i] = fd], files)
  PROVE  /\ dead' = dead /\ table' \in [Engines -> [Index -> Actors \cup {None, NullFd}]]
         /\ table'[e][i] = f /\ \A j \in Index : j # i => table'[e][j] = table[e][j]
         /\ \A h \in Engines : h # e => table'[h] = table[h]
<1> USE Cast
<1>. DEFINE d == [data[e] EXCEPT ![i] = fd]
            Names(n, t) == \/ n = NullFd /\ t = NullFd
                           \/ n = -1 /\ t = None
                           \/ n \in Fds /\ t \in Actors /\ files[n] = t
            file(n) == CASE n = NullFd -> NullFd [] n = -1 -> None [] n \in Fds -> files[n]
            row == [j \in Index |-> file(d[j])]
<1>1. d[i] = fd /\ \A j \in Index : j # i => d[j] = data[e][j]
  <2>1. data[e] \in [Index -> Fds \cup {NullFd, -1}]
    BY DEF TcpInv, Types
  <2>. QED BY <2>1
<1>2. ASSUME NEW n, NEW t, Names(n, t)
      PROVE  file(n) = t /\ t \in Actors \cup {None, NullFd} /\ (n \in {NullFd, -1} \/ (n \in Fds /\ files[n] # None))
  <2>1. n = NullFd => n # -1 /\ n \notin Fds
    BY <1>2
  <2>2. n = -1 => n # NullFd /\ n \notin Fds
    BY <1>2
  <2>. QED BY <1>2, <2>1, <2>2
<1>3. UpdateRegister(e, d, files)
  OBVIOUS
<1>. HIDE DEF d
<1>4. ASSUME NEW j \in Index, j # i PROVE Names(d[j], table[e][j])
  <2>1. \/ data[e][j] = NullFd /\ table[e][j] = NullFd
        \/ data[e][j] = -1 /\ table[e][j] = None
        \/ data[e][j] \in Fds /\ fdtab[data[e][j]] = table[e][j] /\ table[e][j] \in Actors
    BY Registered
  <2>. QED BY <1>1, <1>4, <2>1
<1>5. Names(d[i], f)
  BY <1>1
<1>. HIDE DEF Names
<1>6. \A j \in Index : d[j] \in {NullFd, -1} \/ (d[j] \in Fds /\ files[d[j]] # None)
  BY <1>2, <1>4, <1>5
<1>7. dead' = dead /\ table' = [table EXCEPT ![e] = row]
  BY <1>3, <1>6 DEF UpdateRegister
<1>. HIDE DEF file
<1>8. row[i] = f /\ \A j \in Index : j # i => row[j] = table[e][j]
  BY <1>2, <1>4, <1>5
<1>9. row \in [Index -> Actors \cup {None, NullFd}]
  BY <1>2, <1>4, <1>5
<1>. HIDE DEF row
<1>10. table \in [Engines -> [Index -> Actors \cup {None, NullFd}]]
  BY DEF TcpInv, Types
<1>11. table'[e] = row /\ \A h \in Engines : h # e => table'[h] = table[h]
  BY <1>7, <1>10
<1>12. table' \in [Engines -> [Index -> Actors \cup {None, NullFd}]]
  BY <1>7, <1>9, <1>10
<1>. QED BY <1>7, <1>8, <1>11, <1>12

\* A number that is not open ends the process.
LEMMA UpdateFails ==
  ASSUME TcpInv, NEW e \in Engines, NEW i \in Index, NEW fd \in Int, fd < -1, NEW files,
         UpdateRegister(e, [data[e] EXCEPT ![i] = fd], files)
  PROVE  dead' = "update"
<1> USE Cast
<1>1. data[e] \in [Index -> Fds \cup {NullFd, -1}]
  BY DEF TcpInv, Types
<1>. DEFINE d == [data[e] EXCEPT ![i] = fd]
<1>2. d[i] = fd
  BY <1>1
<1>. HIDE DEF d
<1>3. fd \notin Fds /\ fd # -1 /\ fd # NullFd
  BY DEF Fds
<1>4. UpdateRegister(e, d, files)
  BY DEF d
<1>. QED BY <1>2, <1>3, <1>4 DEF UpdateRegister

\* fixed_fds() and assign(), unless the number ends the process.
LEMMA AssignEffect ==
  ASSUME TcpInv, NEW x \in Actors, item[x] = -1, ~m_sqe_flag[x], NEW fd \in Int,
         NEW files \in FileTables, \A g \in Fds : fdtab[g] # None => files[g] = fdtab[g],
         IF Astray(x)' THEN fd < 0 ELSE fd \in Fds /\ files[fd] = x,
         \A y \in Actors : y # x => m_original_fd'[y] = m_original_fd[y],
         Assign(x, fd, files), fdtab' = files, UNCHANGED ctx, Connected(x)',
         \A y \in Actors : y # x => (Connected(y)' <=> Connected(y)),
         ~(fd < -1 /\ dead' = "update")
  PROVE  /\ dead' = dead /\ que' \in [Engines -> Seq(Index)] /\ data' \in [Engines -> [Index -> Fds \cup {NullFd, -1}]]
         /\ table' \in [Engines -> [Index -> Actors \cup {None, NullFd}]]
         /\ item' \in [Actors -> Index \cup {-1}] /\ m_sockfd' \in [Actors -> Int] /\ m_sqe_flag' \in [Actors -> BOOLEAN]
         /\ LeaseInv'
         /\ \A y \in Actors : y # x => m_sockfd'[y] = m_sockfd[y] /\ m_sqe_flag'[y] = m_sqe_flag[y] /\ item'[y] = item[y]
         /\ IF m_sqe_flag'[x] THEN item'[x] # -1 /\ m_sockfd'[x] = item'[x] /\ kEnableFixfd
            ELSE m_sockfd'[x] = fd
<1> USE Cast
<1>0. PICK e \in Engines : e = ctx[x]
  BY DEF TcpInv, Types
<1>1. CASE get_fixed_fd(e) = -1
  <2>1. m_sockfd' = [m_sockfd EXCEPT ![x] = fd] /\ UNCHANGED <<que, data, table, item, m_sqe_flag, dead>>
    BY <1>0, <1>1 DEF Assign
  <2>2. LeaseInv'
    <3>1. \A y \in Actors : item[y] # -1 => /\ Connected(y) => Connected(y)'
                                            /\ m_original_fd'[y] = m_original_fd[y]
                                            /\ \A g \in Fds : fdtab[g] = y => fdtab'[g] = y
      OBVIOUS
    <3>. QED BY <2>1, <3>1, LeaseKept DEF TcpInv
  <2>3. /\ que' \in [Engines -> Seq(Index)] /\ data' \in [Engines -> [Index -> Fds \cup {NullFd, -1}]]
        /\ table' \in [Engines -> [Index -> Actors \cup {None, NullFd}]]
        /\ item' \in [Actors -> Index \cup {-1}] /\ m_sockfd' \in [Actors -> Int] /\ m_sqe_flag' \in [Actors -> BOOLEAN]
    BY <2>1 DEF TcpInv, Types
  <2>4. m_sockfd'[x] = fd /\ \A y \in Actors : y # x => m_sockfd'[y] = m_sockfd[y]
    BY <2>1 DEF TcpInv, Types
  <2>. QED BY <2>1, <2>2, <2>3, <2>4
<1>2. CASE get_fixed_fd(e) # -1
  <2>1. kEnableFixfd /\ que[e] # <<>> /\ get_fixed_fd(e) = Head(que[e])
    BY <1>2, TcpAssumption DEF get_fixed_fd, borrow
  <2>2. que[e] \in Seq(Index) /\ IsInjective(que[e])
    BY DEF TcpInv, Types, LeaseInv, FreeInv
  <2>3. PICK i \in Index : /\ i = get_fixed_fd(e) /\ Tail(que[e]) \in Seq(Index) /\ IsInjective(Tail(que[e]))
                           /\ i \notin ToSet(Tail(que[e])) /\ ToSet(que[e]) = ToSet(Tail(que[e])) \cup {i}
    BY <2>1, <2>2, TailSet
  <2>4. /\ que' = [que EXCEPT ![e] = Tail(que[e])] /\ item' = [item EXCEPT ![x] = i]
        /\ data' = [data EXCEPT ![e] = [data[e] EXCEPT ![i] = fd]]
        /\ m_sockfd' = [m_sockfd EXCEPT ![x] = i] /\ m_sqe_flag' = [m_sqe_flag EXCEPT ![x] = TRUE]
        /\ UpdateRegister(e, [data[e] EXCEPT ![i] = fd], files)
    BY <1>0, <1>2, <2>3 DEF Assign, Lent
  <2>5. /\ dead' = dead /\ table' \in [Engines -> [Index -> Actors \cup {None, NullFd}]]
        /\ table'[e][i] = OwnFile(x)' /\ \A j \in Index : j # i => table'[e][j] = table[e][j]
        /\ \A h \in Engines : h # e => table'[h] = table[h]
    <3>1. fd \in Fds \cup {NullFd, -1}
      BY <2>4, UpdateFails
    <3>2. PICK f \in Actors \cup {None, NullFd} : f = OwnFile(x)'
      BY DEF OwnFile
    <3>3. (fd = -1 /\ f = None) \/ (fd \in Fds /\ f \in Actors /\ files[fd] = f)
      <4>1. \A n \in Fds : ~(n < 0)
        BY DEF Fds
      <4>. QED BY <3>1, <3>2, <4>1 DEF OwnFile
    <3>. HIDE Cast
    <3>. QED BY <2>4, <3>1, <3>2, <3>3, UpdateEffect, ZenonT(60)
  <2>13. fd \in Fds \cup {-1}
    BY <2>4, UpdateFails
  <2>6. /\ que' \in [Engines -> Seq(Index)] /\ que'[e] = Tail(que[e]) /\ \A h \in Engines : h # e => que'[h] = que[h]
    BY <2>3, <2>4 DEF TcpInv, Types
  <2>7. /\ data' \in [Engines -> [Index -> Fds \cup {NullFd, -1}]]
        /\ data'[e][i] = fd /\ \A j \in Index : j # i => data'[e][j] = data[e][j]
        /\ \A h \in Engines : h # e => data'[h] = data[h]
    <3>1. data[e] \in [Index -> Fds \cup {NullFd, -1}] /\ data \in [Engines -> [Index -> Fds \cup {NullFd, -1}]]
      BY DEF TcpInv, Types
    <3>2. data'[e] = [data[e] EXCEPT ![i] = fd] /\ \A h \in Engines : h # e => data'[h] = data[h]
      BY <2>4, <3>1
    <3>. QED BY <2>4, <2>13, <3>1, <3>2
  <2>8. /\ item' \in [Actors -> Index \cup {-1}] /\ item'[x] = i /\ \A y \in Actors : y # x => item'[y] = item[y]
        /\ m_sockfd' \in [Actors -> Int] /\ m_sockfd'[x] = i /\ \A y \in Actors : y # x => m_sockfd'[y] = m_sockfd[y]
    BY <2>4 DEF TcpInv, Types
  <2>9. /\ m_sqe_flag' \in [Actors -> BOOLEAN] /\ m_sqe_flag'[x] /\ \A y \in Actors : y # x => m_sqe_flag'[y] = m_sqe_flag[y]
    BY <2>4 DEF TcpInv, Types
  <2>10. FreeInv'
    <3>1. ASSUME NEW h \in Engines, NEW j \in Index, j \in ToSet(que'[h])
          PROVE  data'[h][j] = NullFd /\ table'[h][j] = NullFd
      <4>1. j \in ToSet(que[h]) /\ (h = e => j # i)
        BY <2>3, <2>6, <3>1
      <4>2. data[h][j] = NullFd /\ table[h][j] = NullFd
        BY <4>1 DEF TcpInv, LeaseInv, FreeInv
      <4>. QED BY <2>5, <2>7, <4>1, <4>2
    <3>2. ASSUME NEW h \in Engines, NEW j \in Index, j \notin ToSet(que'[h])
          PROVE  \E y \in Actors : ctx'[y] = h /\ item'[y] = j
      <4>1. CASE h = e /\ j = i
        BY <1>0, <2>8, <4>1
      <4>2. CASE ~(h = e /\ j = i)
        <5>1. j \notin ToSet(que[h])
          BY <2>3, <2>6, <3>2, <4>2
        <5>2. PICK y \in Actors : ctx[y] = h /\ item[y] = j
          BY <5>1 DEF TcpInv, LeaseInv, FreeInv
        <5>. QED BY <2>8, <5>2
      <4>. QED BY <4>1, <4>2
    <3>3. ASSUME NEW h \in Engines PROVE IsInjective(que'[h])
      <4>1. IsInjective(que[h])
        BY DEF TcpInv, LeaseInv, FreeInv
      <4>. QED BY <2>3, <2>6, <4>1
    <3>. HIDE Cast
    <3>. QED BY <3>1, <3>2, <3>3 DEF FreeInv
  <2>11. LentInv'
    <3>1. ASSUME NEW y \in Actors, item'[y] # -1, y # x
          PROVE  /\ Connected(y)' /\ item'[y] \notin ToSet(que'[ctx'[y]])
                 /\ data'[ctx'[y]][item'[y]] \in Fds \cup {-1} /\ OwnNumber(y, data[ctx[y]][item[y]], fdtab)'
                 /\ table'[ctx'[y]][item'[y]] = OwnFile(y)'
                 /\ \A z \in Actors : ctx'[z] = ctx'[y] /\ item'[z] = item'[y] => z = y
      <4>0. item[y] \in Index \cup {-1} /\ ctx[y] \in Engines /\ item[y] = item'[y]
        BY <2>8, <3>1 DEF TcpInv, Types
      <4>1. PICK h \in Engines, j \in Index : h = ctx[y] /\ j = item[y] /\ j # -1
        BY <3>1, <4>0
      <4>2. /\ Connected(y) /\ j \notin ToSet(que[h]) /\ data[h][j] \in Fds \cup {-1} /\ OwnNumber(y, data[h][j], fdtab)
            /\ table[h][j] = OwnFile(y) /\ \A z \in Actors : ctx[z] = h /\ item[z] = j => z = y
        BY <4>1 DEF TcpInv, LeaseInv, LentInv
      <4>3. h = e => j # i
        BY <2>3, <4>2
      <4>4. data'[h][j] = data[h][j] /\ table'[h][j] = OwnFile(y) /\ j \notin ToSet(que'[h])
        BY <2>3, <2>5, <2>6, <2>7, <4>2, <4>3, ZenonT(60)
      <4>5. OwnFile(y)' = OwnFile(y) /\ \A n \in Fds \cup {-1} : OwnNumber(y, n, fdtab) => OwnNumber(y, n, fdtab)'
        BY <3>1 DEF OwnFile, OwnNumber, Astray
      <4>6. ASSUME NEW z \in Actors, ctx[z] = h, item'[z] = j PROVE z = y
        BY <1>0, <2>8, <4>2, <4>3, <4>6
      <4>7. OwnNumber(y, data[ctx[y]][item[y]], fdtab)'
        BY <4>0, <4>1, <4>2, <4>4, <4>5
      <4>. QED BY <4>0, <3>1, <4>1, <4>2, <4>4, <4>5, <4>6, <4>7
    <3>2. /\ Connected(x)' /\ item'[x] \notin ToSet(que'[ctx'[x]])
          /\ data'[ctx'[x]][item'[x]] \in Fds \cup {-1} /\ OwnNumber(x, data[ctx[x]][item[x]], fdtab)'
          /\ table'[ctx'[x]][item'[x]] = OwnFile(x)'
          /\ \A z \in Actors : ctx'[z] = ctx'[x] /\ item'[z] = item'[x] => z = x
      <4>1. ASSUME NEW z \in Actors, ctx[z] = e, z # x, item[z] = i PROVE FALSE
        BY <2>3, <4>1 DEF TcpInv, LeaseInv, LentInv
      <4>2. OwnNumber(x, fd, files)'
        BY DEF OwnNumber
      <4>3. data'[ctx'[x]][item'[x]] = fd
        BY <1>0, <2>7, <2>8
      <4>4. OwnNumber(x, data[ctx[x]][item[x]], fdtab)'
        BY <4>3 DEF OwnNumber
      <4>. QED BY <1>0, <2>3, <2>5, <2>6, <2>8, <2>13, <4>1, <4>3, <4>4
    <3>. QED BY <3>1, <3>2 DEF LentInv
  <2>12. LeaseInv'
    BY <2>10, <2>11 DEF LeaseInv
  <2>. QED BY <2>1, <2>5, <2>6, <2>7, <2>8, <2>9, <2>12
<1>. QED BY <1>1, <1>2

\* return_back().
LEMMA ReturnEffect ==
  ASSUME TcpInv, NEW x \in Actors, ReturnBack(x), UNCHANGED <<fdtab, ctx>>,
         \A y \in Actors : y # x => (Connected(y)' <=> Connected(y)) /\ m_original_fd'[y] = m_original_fd[y]
  PROVE  /\ dead' = dead /\ que' \in [Engines -> Seq(Index)] /\ data' \in [Engines -> [Index -> Fds \cup {NullFd, -1}]]
         /\ table' \in [Engines -> [Index -> Actors \cup {None, NullFd}]] /\ item' \in [Actors -> Index \cup {-1}]
         /\ item'[x] = -1 /\ \A y \in Actors : y # x => item'[y] = item[y]
         /\ UNCHANGED <<m_sockfd, m_sqe_flag>>
         /\ LeaseInv'
<1> USE Cast
<1>0. PICK e \in Engines : e = ctx[x]
  BY DEF TcpInv, Types
<1>1. CASE item[x] = -1
  <2>1. UNCHANGED <<que, data, table, item, m_sockfd, m_sqe_flag, dead>>
    BY <1>1 DEF ReturnBack, fixVars
  <2>2. LeaseInv'
    <3>1. \A y \in Actors : item[y] # -1 => /\ Connected(y) => Connected(y)'
                                            /\ m_original_fd'[y] = m_original_fd[y]
                                            /\ \A g \in Fds : fdtab[g] = y => fdtab'[g] = y
      BY <1>1
    <3>2. Types /\ LeaseInv /\ UNCHANGED <<que, data, table, item, ctx>>
      BY <2>1 DEF TcpInv
    <3>. HIDE Cast
    <3>. QED BY <3>1, <3>2, LeaseKept
  <2>. QED BY <1>1, <2>1, <2>2 DEF TcpInv, Types
<1>2. CASE item[x] # -1
  <2>0. item[x] \in Index \cup {-1} /\ item[x] \notin ToSet(que[e])
    BY <1>0, <1>2 DEF TcpInv, Types, LeaseInv, LentInv
  <2>1. PICK i \in Index : i = item[x] /\ i \notin ToSet(que[e])
    BY <1>2, <2>0
  <2>2. que[e] \in Seq(Index) /\ IsInjective(que[e])
    BY DEF TcpInv, Types, LeaseInv, FreeInv
  <2>3. /\ Append(que[e], i) \in Seq(Index) /\ IsInjective(Append(que[e], i))
        /\ ToSet(Append(que[e], i)) = ToSet(que[e]) \cup {i}
    BY <2>1, <2>2, AppendSet
  <2>4. /\ que' = [que EXCEPT ![e] = Append(que[e], i)] /\ item' = [item EXCEPT ![x] = -1]
        /\ data' = [data EXCEPT ![e] = [data[e] EXCEPT ![i] = NullFd]]
        /\ UpdateRegister(e, [data[e] EXCEPT ![i] = NullFd], fdtab)
        /\ UNCHANGED <<m_sockfd, m_sqe_flag>>
    BY <1>0, <1>2, <2>1 DEF ReturnBack, back_fixed_fd, return_back
  <2>5. /\ dead' = dead /\ table' \in [Engines -> [Index -> Actors \cup {None, NullFd}]]
        /\ table'[e][i] = NullFd /\ \A j \in Index : j # i => table'[e][j] = table[e][j]
        /\ \A h \in Engines : h # e => table'[h] = table[h]
    <3>1. fdtab \in FileTables /\ NullFd \in Fds \cup {NullFd, -1} /\ NullFd \in Actors \cup {None, NullFd}
      BY DEF TcpInv, Types
    <3>. QED BY <2>4, <3>1, UpdateEffect
  <2>6. /\ que' \in [Engines -> Seq(Index)] /\ que'[e] = Append(que[e], i) /\ \A h \in Engines : h # e => que'[h] = que[h]
    BY <2>3, <2>4 DEF TcpInv, Types
  <2>7. /\ data' \in [Engines -> [Index -> Fds \cup {NullFd, -1}]]
        /\ data'[e][i] = NullFd /\ \A j \in Index : j # i => data'[e][j] = data[e][j]
        /\ \A h \in Engines : h # e => data'[h] = data[h]
    <3>1. data[e] \in [Index -> Fds \cup {NullFd, -1}] /\ data \in [Engines -> [Index -> Fds \cup {NullFd, -1}]]
      BY DEF TcpInv, Types
    <3>2. data'[e] = [data[e] EXCEPT ![i] = NullFd] /\ \A h \in Engines : h # e => data'[h] = data[h]
      BY <2>4, <3>1
    <3>. QED BY <2>4, <3>1, <3>2
  <2>8. item' \in [Actors -> Index \cup {-1}] /\ item'[x] = -1 /\ \A y \in Actors : y # x => item'[y] = item[y]
    BY <2>4 DEF TcpInv, Types
  <2>9. ASSUME NEW y \in Actors, y # x, NEW j \in Index, item[y] = j, ctx[y] = e PROVE j # i
    <3>. QED BY <1>0, <1>2, <2>1, <2>9 DEF TcpInv, LeaseInv, LentInv
  <2>10. FreeInv'
    <3>1. ASSUME NEW h \in Engines, NEW j \in Index, j \in ToSet(que'[h])
          PROVE  data'[h][j] = NullFd /\ table'[h][j] = NullFd
      <4>1. CASE h = e /\ j = i
        BY <2>5, <2>7, <4>1
      <4>2. CASE ~(h = e /\ j = i)
        <5>1. j \in ToSet(que[h])
          BY <2>3, <2>6, <3>1, <4>2
        <5>2. data[h][j] = NullFd /\ table[h][j] = NullFd
          BY <5>1 DEF TcpInv, LeaseInv, FreeInv
        <5>. QED BY <2>5, <2>7, <4>2, <5>2
      <4>. QED BY <4>1, <4>2
    <3>2. ASSUME NEW h \in Engines, NEW j \in Index, j \notin ToSet(que'[h])
          PROVE  \E y \in Actors : ctx'[y] = h /\ item'[y] = j
      <4>1. j \notin ToSet(que[h]) /\ (h = e => j # i)
        BY <2>3, <2>6, <3>2
      <4>2. PICK y \in Actors : ctx[y] = h /\ item[y] = j
        BY <4>1 DEF TcpInv, LeaseInv, FreeInv
      <4>3. y # x
        BY <1>0, <2>1, <4>1, <4>2
      <4>. QED BY <2>8, <4>2, <4>3
    <3>3. ASSUME NEW h \in Engines PROVE IsInjective(que'[h])
      <4>1. IsInjective(que[h])
        BY DEF TcpInv, LeaseInv, FreeInv
      <4>. QED BY <2>3, <2>6, <4>1
    <3>. HIDE Cast
    <3>. QED BY <3>1, <3>2, <3>3 DEF FreeInv
  <2>11. LentInv'
    <3>1. ASSUME NEW y \in Actors, item'[y] # -1
          PROVE  /\ Connected(y)' /\ item'[y] \notin ToSet(que'[ctx'[y]])
                 /\ data'[ctx'[y]][item'[y]] \in Fds \cup {-1} /\ OwnNumber(y, data[ctx[y]][item[y]], fdtab)'
                 /\ table'[ctx'[y]][item'[y]] = OwnFile(y)'
                 /\ \A z \in Actors : ctx'[z] = ctx'[y] /\ item'[z] = item'[y] => z = y
      <4>0. y # x
        BY <2>8, <3>1
      <4>5. item[y] \in Index \cup {-1} /\ ctx[y] \in Engines /\ item[y] = item'[y]
        BY <2>8, <4>0 DEF TcpInv, Types
      <4>1. PICK h \in Engines, j \in Index : h = ctx[y] /\ j = item[y] /\ j # -1
        BY <3>1, <4>5
      <4>2. /\ Connected(y) /\ j \notin ToSet(que[h]) /\ data[h][j] \in Fds \cup {-1} /\ OwnNumber(y, data[h][j], fdtab)
            /\ table[h][j] = OwnFile(y) /\ \A z \in Actors : ctx[z] = h /\ item[z] = j => z = y
        BY <4>1 DEF TcpInv, LeaseInv, LentInv
      <4>3. h = e => j # i
        BY <2>9, <4>0, <4>1
      <4>4. data'[h][j] = data[h][j] /\ table'[h][j] = OwnFile(y) /\ j \notin ToSet(que'[h])
        <5>1. data'[h][j] = data[h][j] /\ table'[h][j] = table[h][j]
          BY <2>5, <2>7, <4>3
        <5>. QED BY <2>3, <2>6, <4>2, <4>3, <5>1
      <4>6. OwnFile(y)' = OwnFile(y) /\ \A n \in Fds \cup {-1} : OwnNumber(y, n, fdtab) => OwnNumber(y, n, fdtab)'
        BY <4>0 DEF OwnFile, OwnNumber, Astray
      <4>7. OwnNumber(y, data[ctx[y]][item[y]], fdtab)'
        BY <4>1, <4>2, <4>4, <4>5, <4>6
      <4>8. \A z \in Actors : item'[z] = j => item[z] = j
        BY <2>8, <4>1
      <4>. QED BY <4>0, <4>1, <4>2, <4>4, <4>5, <4>6, <4>7, <4>8
    <3>. QED BY <3>1 DEF LentInv
  <2>12. LeaseInv'
    BY <2>10, <2>11 DEF LeaseInv
  <2>. QED BY <2>4, <2>5, <2>6, <2>7, <2>8, <2>12
<1>. QED BY <1>1, <1>2

\* The constructors that borrow a place.
LEMMA OpKind ==
  ASSUME NEW kind, NEW fd, NEW flag
  PROVE  Prepared(kind, fd, flag).kind = kind /\ Prepared(kind, fd, flag).st = "prepared"
BY DEF Prepared

LEMMA StartServerKeeps ==
  ASSUME TcpInv, StartServer
  PROVE  TcpInv' /\ dead' = dead
<1> USE Cast
<1>1. PICK fd \in Fds : fd = Min(Free) /\ fdtab[fd] = None
  BY LowestFree DEF StartServer
<1>2. /\ pc[Server] = "start" /\ pc' = [pc EXCEPT ![Server] = "io"] /\ UNCHANGED <<ctx, m_original_fd, peer>>
  BY <1>1 DEF StartServer
<1>3. PICK files \in FileTables : /\ fdtab' = files /\ Assign(Server, fd, files) /\ files[fd] = Server
                                  /\ \A g \in Fds : g # fd => files[g] = fdtab[g]
  <2>. DEFINE f == [fdtab EXCEPT ![fd] = Server]
  <2>1. f \in FileTables /\ f[fd] = Server /\ \A g \in Fds : g # fd => f[g] = fdtab[g]
    BY DEF TcpInv, Types, FileTables
  <2>2. fdtab' = f /\ Assign(Server, fd, f)
    BY <1>1 DEF StartServer
  <2>. HIDE DEF f
  <2>. QED BY <2>1, <2>2
<1>4. op' = [op EXCEPT ![Server] = Prepared("accept", m_sockfd'[Server], m_sqe_flag'[Server])]
  BY DEF StartServer
<1>5. /\ op'[Server].kind = "accept" /\ op'[Server].st = "prepared" /\ pc'[Server] = "io"
      /\ \A y \in Sockets : op'[y] = op[y] /\ pc'[y] = pc[y]
  BY <1>2, <1>4, OpKind DEF TcpInv, Types
<1>6. item[Server] = -1 /\ ~m_sqe_flag[Server] /\ ~Astray(Server) /\ ~Astray(Server)'
  BY <1>2 DEF TcpInv, PhaseInv, LeaseInv, LentInv, Connected, UseInv, Astray
<1>7. \A y \in Actors : IF y = Server THEN Connected(y)' ELSE Connected(y)' <=> Connected(y)
  BY <1>5 DEF Connected
<1>8. /\ dead' = dead /\ que' \in [Engines -> Seq(Index)] /\ data' \in [Engines -> [Index -> Fds \cup {NullFd, -1}]]
      /\ table' \in [Engines -> [Index -> Actors \cup {None, NullFd}]]
      /\ item' \in [Actors -> Index \cup {-1}] /\ m_sockfd' \in [Actors -> Int] /\ m_sqe_flag' \in [Actors -> BOOLEAN]
      /\ LeaseInv'
      /\ \A y \in Actors : y # Server => m_sockfd'[y] = m_sockfd[y] /\ m_sqe_flag'[y] = m_sqe_flag[y] /\ item'[y] = item[y]
      /\ IF m_sqe_flag'[Server] THEN item'[Server] # -1 /\ m_sockfd'[Server] = item'[Server] /\ kEnableFixfd
         ELSE m_sockfd'[Server] = fd
  <2>1. \A g \in Fds : fdtab[g] # None => files[g] = fdtab[g]
    BY <1>1, <1>3
  <2>2. PICK x \in Actors : x = Server
    OBVIOUS
  <2>3. /\ Assign(x, fd, files) /\ fdtab' = files /\ UNCHANGED ctx /\ item[x] = -1 /\ ~m_sqe_flag[x]
        /\ IF Astray(x)' THEN fd < 0 ELSE fd \in Fds /\ files[fd] = x
        /\ \A y \in Actors : y # x => m_original_fd'[y] = m_original_fd[y]
    BY <1>2, <1>3, <1>6, <2>2
  <2>4. Connected(x)' /\ \A y \in Actors : y # x => (Connected(y)' <=> Connected(y))
    BY <1>7, <2>2
  <2>5. /\ dead' = dead /\ que' \in [Engines -> Seq(Index)] /\ data' \in [Engines -> [Index -> Fds \cup {NullFd, -1}]]
        /\ table' \in [Engines -> [Index -> Actors \cup {None, NullFd}]]
        /\ item' \in [Actors -> Index \cup {-1}] /\ m_sockfd' \in [Actors -> Int] /\ m_sqe_flag' \in [Actors -> BOOLEAN]
        /\ LeaseInv'
        /\ \A y \in Actors : y # x => m_sockfd'[y] = m_sockfd[y] /\ m_sqe_flag'[y] = m_sqe_flag[y] /\ item'[y] = item[y]
        /\ IF m_sqe_flag'[x] THEN item'[x] # -1 /\ m_sockfd'[x] = item'[x] /\ kEnableFixfd
           ELSE m_sockfd'[x] = fd
    <3>1. files \in FileTables /\ fd \in Int /\ ~(fd < -1) /\ x \in Actors /\ TcpInv
      BY <1>3 DEF Fds
    <3>. HIDE Cast
    <3>. QED BY <2>1, <2>3, <2>4, <3>1, AssignEffect
  <2>. QED BY <2>2, <2>5
<1>9. PICK o \in OpType : /\ op' = [op EXCEPT ![Server] = o] /\ o.kind = "accept" /\ o.st = "prepared"
                          /\ o.fd = m_sockfd'[Server] /\ (o.fixed <=> m_sqe_flag'[Server] /\ PrepKeepsFlags)
  <2>1. m_sockfd'[Server] \in Int /\ m_sqe_flag'[Server] \in BOOLEAN /\ "accept" \in Kinds
    BY <1>8 DEF Kinds
  <2>2. PICK o \in OpType : /\ o = Prepared("accept", m_sockfd'[Server], m_sqe_flag'[Server]) /\ o.kind = "accept"
                            /\ o.st = "prepared" /\ o.fd = m_sockfd'[Server]
                            /\ (o.fixed <=> m_sqe_flag'[Server] /\ PrepKeepsFlags)
    BY <2>1, NewOp
  <2>. QED BY <1>4, <2>2, Zenon
<1>10. op'[Server] = o
  BY <1>9 DEF TcpInv, Types
<1>11. Types'
  <2>1. pc' \in [Actors -> {"none", "start", "io", "done"}] /\ op' \in [Actors -> OpType]
    BY <1>2, <1>9 DEF TcpInv, Types
  <2>. QED BY <1>2, <1>3, <1>8, <2>1 DEF TcpInv, Types
<1>12. PhaseInv'
  BY <1>2, <1>5 DEF TcpInv, PhaseInv, Astray
<1>13. UseInv'
  <2>1. ASSUME NEW y \in Actors
        PROVE  /\ Connected(y)' => IF m_sqe_flag'[y] THEN item'[y] # -1 /\ m_sockfd'[y] = item'[y]
                                   ELSE OwnNumber(y, m_sockfd[y], fdtab)'
               /\ pc'[y] \in {"none", "start"} \/ op'[y].kind = "connect" => ~m_sqe_flag'[y]
               /\ m_sqe_flag'[y] => kEnableFixfd
    <3>1. CASE y = Server
      <4>1. pc'[y] = "io" /\ op'[y].kind # "connect"
        BY <1>5, <3>1
      <4>2. CASE m_sqe_flag'[Server]
        BY <1>8, <3>1, <4>1, <4>2
      <4>3. CASE ~m_sqe_flag'[Server]
        <5>1. m_sockfd'[Server] = fd
          BY <1>8, <4>3
        <5>. QED BY <1>1, <1>2, <1>3, <1>6, <3>1, <4>1, <4>3, <5>1 DEF OwnNumber
      <4>. QED BY <4>2, <4>3
    <3>2. CASE y # Server
      <4>1. /\ m_sockfd'[y] = m_sockfd[y] /\ m_sqe_flag'[y] = m_sqe_flag[y] /\ item'[y] = item[y]
            /\ op'[y] = op[y] /\ pc'[y] = pc[y] /\ (Connected(y)' <=> Connected(y))
        BY <1>5, <1>7, <1>8, <3>2
      <4>2. \A g \in Fds : fdtab[g] = y => fdtab'[g] = y
        BY <1>1, <1>2, <1>3
      <4>3. Astray(y)' <=> Astray(y)
        BY <1>2 DEF Astray
      <4>. QED BY <4>1, <4>2, <4>3 DEF TcpInv, UseInv, OwnNumber
    <3>. QED BY <3>1, <3>2
  <2>. QED BY <2>1 DEF UseInv
<1>14. OpInv'
  <2>1. ASSUME NEW y \in Actors
        PROVE  /\ op'[y].kind \in {"accept", "read", "write"} =>
                    op'[y].fd = m_sockfd'[y] /\ (op'[y].fixed <=> m_sqe_flag'[y] /\ PrepKeepsFlags)
               /\ op'[y].kind \in {"connect", "close"} => op'[y].fd = m_original_fd'[y] /\ ~op'[y].fixed
               /\ op'[y].kind = "close" /\ op'[y].st = "completed" => op'[y].res = 0 \/ Astray(y)'
               /\ op'[y].kind = "connect" /\ op'[y].st = "completed" => op'[y].res = op'[y].fd \/ op'[y].res < 0
    <3>1. CASE y = Server
      BY <1>9, <1>10, <3>1
    <3>2. CASE y # Server
      <4>1. /\ m_sockfd'[y] = m_sockfd[y] /\ m_sqe_flag'[y] = m_sqe_flag[y]
            /\ op'[y] = op[y] /\ m_original_fd'[y] = m_original_fd[y]
        BY <1>1, <1>2, <1>5, <1>8, <3>2
      <4>. QED BY <4>1 DEF TcpInv, OpInv, Astray
    <3>. QED BY <3>1, <3>2
  <2>. QED BY <2>1 DEF OpInv, Astray
<1>15. FdInv'
  <2>1. \A s \in Sockets : IsOpen(s)' <=> IsOpen(s)
    BY <1>2, <1>5 DEF IsOpen, Astray
  <2>2. ~Completed(Server, "accept") /\ ~Completed(Server, "accept")'
    BY <1>2, <1>5 DEF Completed
  <2>3. \A s \in Sockets : \A g \in Fds : fdtab'[g] = s <=> fdtab[g] = s
    BY <1>1, <1>2, <1>3
  <2>4. OpenInv'
    BY <1>2, <2>1, <2>3 DEF TcpInv, FdInv, OpenInv
  <2>5. OwnerInv'
    <3>1. ASSUME NEW g \in Fds, NEW s \in Sockets, fdtab'[g] = s
          PROVE  Astray(s)' \/ (IsOpen(s)' /\ m_original_fd'[s] = g)
      <4>1. fdtab[g] = s /\ ~Pending(s)
        BY <2>2, <2>3, <3>1 DEF Pending
      <4>2. Astray(s) \/ (IsOpen(s) /\ m_original_fd[s] = g)
        BY <4>1 DEF TcpInv, FdInv, OwnerInv, Astray
      <4>. QED BY <1>2, <2>1, <4>2 DEF Astray
    <3>. QED BY <3>1 DEF OwnerInv, Astray
  <2>6. AcceptInv'
    BY <2>2 DEF AcceptInv
  <2>7. PeerInv'
    BY <1>2, <1>5, <2>3 DEF TcpInv, FdInv, PeerInv
  <2>. QED BY <2>4, <2>5, <2>6, <2>7 DEF FdInv
<1>. QED BY <1>8, <1>11, <1>12, <1>13, <1>14, <1>15 DEF TcpInv

\* tcp_connector(): it goes well, or the error of a refused connect() ends the
\* process.
LEMMA MakeConnectorKeeps ==
  ASSUME TcpInv, NEW x \in Actors, MakeConnector(x)
  PROVE  (TcpInv' /\ dead' = dead) \/ (dead' = "update" /\ x \in Clients /\ m_original_fd'[x] \in Int /\ m_original_fd'[x] < -1)
<1> USE Cast
<1>. DEFINE fd == IF x \in Accepted THEN m_original_fd[x] ELSE op[x].res
<1>1. /\ x \in Sockets /\ Assign(x, fd, fdtab) /\ pc' = [pc EXCEPT ![x] = "io"]
      /\ (x \in Accepted /\ pc[x] = "start") \/ (x \notin Accepted /\ Completed(x, "connect"))
      /\ m_original_fd' = [m_original_fd EXCEPT ![x] = fd]
      /\ UNCHANGED <<fdtab, ctx, peer>>
  BY DEF MakeConnector
<1>2. ~Astray(x) /\ IsOpen(x) /\ ~Connected(x) /\ item[x] = -1 /\ ~m_sqe_flag[x]
  BY <1>1 DEF Completed, IsOpen, Connected, TcpInv, PhaseInv, LeaseInv, LentInv, UseInv
<1>3. /\ fd \in Int /\ (fd < 0 \/ (fd \in Fds /\ fdtab[fd] = x /\ fd = m_original_fd[x] /\ ~(fd < 0)))
      /\ (x \in Accepted => ~(fd < 0))
  <2>1. op[x].res \in Int /\ m_original_fd[x] \in Int
    BY DEF TcpInv, Types, OpType
  <2>2. m_original_fd[x] \in Fds /\ fdtab[m_original_fd[x]] = x
    BY <1>1, <1>2 DEF TcpInv, FdInv, OpenInv
  <2>3. x \notin Accepted => op[x].res = m_original_fd[x] \/ op[x].res < 0
    BY <1>1 DEF TcpInv, OpInv, Completed
  <2>. QED BY <1>2, <2>1, <2>2, <2>3 DEF Astray
<1>. HIDE DEF fd
<1>0. m_original_fd'[x] = fd /\ \A y \in Actors : y # x => m_original_fd'[y] = m_original_fd[y]
  BY <1>1 DEF TcpInv, Types
<1>. SUFFICES ASSUME ~(dead' = "update" /\ x \in Clients /\ m_original_fd'[x] \in Int /\ m_original_fd'[x] < -1) PROVE TcpInv' /\ dead' = dead
  OBVIOUS
<1>6. /\ Astray(x)' <=> fd < 0
      /\ ~(fd < -1 /\ dead' = "update")
  BY <1>0, <1>1, <1>3 DEF Astray, Sockets
<1>4. op' = [op EXCEPT ![x] = Prepared("read", m_sockfd'[x], m_sqe_flag'[x])]
  BY DEF MakeConnector
<1>5. /\ op'[x].kind = "read" /\ op'[x].st = "prepared" /\ pc'[x] = "io"
      /\ \A y \in Actors : y # x => op'[y] = op[y] /\ pc'[y] = pc[y]
  BY <1>1, <1>4, OpKind DEF TcpInv, Types
<1>7. Connected(x)' /\ \A y \in Actors : y # x => (Connected(y)' <=> Connected(y))
  BY <1>5 DEF Connected
<1>8. /\ dead' = dead /\ que' \in [Engines -> Seq(Index)] /\ data' \in [Engines -> [Index -> Fds \cup {NullFd, -1}]]
      /\ table' \in [Engines -> [Index -> Actors \cup {None, NullFd}]]
      /\ item' \in [Actors -> Index \cup {-1}] /\ m_sockfd' \in [Actors -> Int] /\ m_sqe_flag' \in [Actors -> BOOLEAN]
      /\ LeaseInv'
      /\ \A y \in Actors : y # x => m_sockfd'[y] = m_sockfd[y] /\ m_sqe_flag'[y] = m_sqe_flag[y] /\ item'[y] = item[y]
      /\ IF m_sqe_flag'[x] THEN item'[x] # -1 /\ m_sockfd'[x] = item'[x] /\ kEnableFixfd
         ELSE m_sockfd'[x] = fd
  <2>1. fdtab \in FileTables /\ fdtab' = fdtab /\ Assign(x, fd, fdtab) /\ UNCHANGED ctx
    BY <1>1 DEF TcpInv, Types
  <2>2. IF Astray(x)' THEN fd < 0 ELSE fd \in Fds /\ fdtab[fd] = x
    BY <1>3, <1>6
  <2>3. x \in Actors /\ fd \in Int /\ TcpInv /\ \A g \in Fds : fdtab[g] # None => fdtab[g] = fdtab[g]
    BY <1>3
  <2>. HIDE Cast
  <2>. QED BY <1>0, <1>2, <1>6, <1>7, <2>1, <2>2, <2>3, AssignEffect
<1>9. PICK o \in OpType : /\ op' = [op EXCEPT ![x] = o] /\ o.kind = "read" /\ o.st = "prepared"
                          /\ o.fd = m_sockfd'[x] /\ (o.fixed <=> m_sqe_flag'[x] /\ PrepKeepsFlags)
  <2>1. m_sockfd'[x] \in Int /\ m_sqe_flag'[x] \in BOOLEAN /\ "read" \in Kinds
    BY <1>8 DEF Kinds
  <2>2. PICK o \in OpType : /\ o = Prepared("read", m_sockfd'[x], m_sqe_flag'[x]) /\ o.kind = "read"
                            /\ o.st = "prepared" /\ o.fd = m_sockfd'[x]
                            /\ (o.fixed <=> m_sqe_flag'[x] /\ PrepKeepsFlags)
    BY <2>1, NewOp
  <2>. QED BY <1>4, <2>2, Zenon
<1>10. op'[x] = o
  BY <1>9 DEF TcpInv, Types
<1>11. Types'
  <2>1. pc' \in [Actors -> {"none", "start", "io", "done"}] /\ op' \in [Actors -> OpType]
    BY <1>1, <1>9 DEF TcpInv, Types
  <2>2. m_original_fd' \in [Actors -> Int]
    BY <1>1, <1>3 DEF TcpInv, Types
  <2>. QED BY <1>1, <1>8, <2>1, <2>2 DEF TcpInv, Types
<1>12. PhaseInv'
  <2>1. \A y \in Actors : Astray(y)' => y \in Clients /\ pc'[y] # "start" /\ op'[y].kind # "connect"
    <3>1. Astray(x)' => x \in Clients
      BY <1>1, <1>3, <1>6 DEF Sockets
    <3>. QED BY <1>0, <1>5, <3>1 DEF TcpInv, PhaseInv, Astray
  <2>. QED BY <1>1, <1>5, <2>1 DEF TcpInv, PhaseInv
<1>13. UseInv'
  <2>1. ASSUME NEW y \in Actors
        PROVE  /\ Connected(y)' => IF m_sqe_flag'[y] THEN item'[y] # -1 /\ m_sockfd'[y] = item'[y]
                                   ELSE OwnNumber(y, m_sockfd[y], fdtab)'
               /\ pc'[y] \in {"none", "start"} \/ op'[y].kind = "connect" => ~m_sqe_flag'[y]
               /\ m_sqe_flag'[y] => kEnableFixfd
    <3>1. CASE y = x
      <4>1. pc'[y] = "io" /\ op'[y].kind # "connect"
        BY <1>5, <3>1
      <4>2. CASE m_sqe_flag'[x]
        BY <1>8, <3>1, <4>1, <4>2
      <4>3. CASE ~m_sqe_flag'[x]
        <5>1. m_sockfd'[x] = fd
          BY <1>8, <4>3
        <5>. QED BY <1>1, <1>3, <1>6, <3>1, <4>1, <4>3, <5>1 DEF OwnNumber
      <4>. QED BY <4>2, <4>3
    <3>2. CASE y # x
      <4>1. /\ m_sockfd'[y] = m_sockfd[y] /\ m_sqe_flag'[y] = m_sqe_flag[y] /\ item'[y] = item[y]
            /\ op'[y] = op[y] /\ pc'[y] = pc[y] /\ (Connected(y)' <=> Connected(y))
        BY <1>5, <1>7, <1>8, <3>2
      <4>2. \A g \in Fds : fdtab[g] = y => fdtab'[g] = y
        BY <1>1, <1>3
      <4>3. Astray(y)' <=> Astray(y)
        BY <1>0, <3>2 DEF Astray
      <4>. QED BY <4>1, <4>2, <4>3 DEF TcpInv, UseInv, OwnNumber
    <3>. QED BY <3>1, <3>2
  <2>. QED BY <2>1 DEF UseInv
<1>14. OpInv'
  <2>1. ASSUME NEW y \in Actors
        PROVE  /\ op'[y].kind \in {"accept", "read", "write"} =>
                    op'[y].fd = m_sockfd'[y] /\ (op'[y].fixed <=> m_sqe_flag'[y] /\ PrepKeepsFlags)
               /\ op'[y].kind \in {"connect", "close"} => op'[y].fd = m_original_fd'[y] /\ ~op'[y].fixed
               /\ op'[y].kind = "close" /\ op'[y].st = "completed" => op'[y].res = 0 \/ Astray(y)'
               /\ op'[y].kind = "connect" /\ op'[y].st = "completed" => op'[y].res = op'[y].fd \/ op'[y].res < 0
    <3>1. CASE y = x
      BY <1>9, <1>10, <3>1
    <3>2. CASE y # x
      <4>1. /\ m_sockfd'[y] = m_sockfd[y] /\ m_sqe_flag'[y] = m_sqe_flag[y]
            /\ op'[y] = op[y] /\ m_original_fd'[y] = m_original_fd[y]
        BY <1>0, <1>5, <1>8, <3>2
      <4>. QED BY <4>1 DEF TcpInv, OpInv, Astray
    <3>. QED BY <3>1, <3>2
  <2>. QED BY <2>1 DEF OpInv, Astray
<1>15. FdInv'
  <2>1. /\ \A s \in Sockets : s # x => (IsOpen(s)' <=> IsOpen(s)) /\ pc'[s] = pc[s] /\ (Astray(s)' <=> Astray(s))
        /\ IF fd < 0 THEN Astray(x)' ELSE IsOpen(x)' /\ m_original_fd'[x] = m_original_fd[x]
        /\ ~Pending(x) /\ pc'[x] # "none"
    BY <1>0, <1>1, <1>3, <1>5, <1>6 DEF IsOpen, Astray, Pending, Completed
  <2>2. op'[Server] = op[Server] /\ pc'[Server] = pc[Server] /\ (Completed(Server, "accept")' <=> Completed(Server, "accept"))
    BY <1>1, <1>5 DEF Completed
  <2>3. \A s \in Sockets : s # x => (Pending(s)' <=> Pending(s))
    BY <2>1, <2>2 DEF Pending
  <2>4. PeerInv'
    BY <1>1, <2>1 DEF TcpInv, FdInv, PeerInv
  <2>5. OpenInv'
    <3>1. \A s \in Sockets : s # x => m_original_fd'[s] = m_original_fd[s]
      BY <1>0
    <3>2. IsOpen(x)' => m_original_fd'[x] \in Fds /\ fdtab[m_original_fd'[x]] = x
      BY <1>0, <1>3, <1>6 DEF IsOpen
    <3>. QED BY <1>1, <2>1, <3>1, <3>2 DEF TcpInv, FdInv, OpenInv
  <2>6. OwnerInv'
    <3>1. ASSUME NEW g \in Fds, NEW s \in Sockets, fdtab[g] = s
          PROVE  Astray(s)' \/ (IsOpen(s)' /\ m_original_fd'[s] = g) \/ (Pending(s)' /\ op'[Server].res = g)
      <4>1. Astray(s) \/ (IsOpen(s) /\ m_original_fd[s] = g) \/ (Pending(s) /\ op[Server].res = g)
        BY <3>1 DEF TcpInv, FdInv, OwnerInv
      <4>2. CASE s = x
        BY <1>2, <2>1, <4>1, <4>2
      <4>3. CASE s # x
        BY <1>0, <2>1, <2>2, <2>3, <4>1, <4>3
      <4>. QED BY <4>2, <4>3
    <3>. QED BY <1>1, <3>1 DEF OwnerInv
  <2>7. AcceptInv'
    <3>1. ASSUME Completed(Server, "accept"), op[Server].res > 0
          PROVE  op[Server].res \in Fds /\ Pending(fdtab[op[Server].res])'
      <4>1. PICK c \in Accepted : op[Server].res \in Fds /\ fdtab[op[Server].res] = c /\ Pending(c)
        BY <3>1 DEF TcpInv, FdInv, AcceptInv, Pending
      <4>2. Pending(c)'
        BY <2>1, <2>3, <4>1
      <4>. QED BY <1>1, <2>2, <4>1, <4>2
    <3>. QED BY <1>1, <2>2, <3>1 DEF AcceptInv
  <2>. QED BY <2>4, <2>5, <2>6, <2>7 DEF FdInv
<1>. QED BY <1>8, <1>11, <1>12, <1>13, <1>14, <1>15 DEF TcpInv

\* What returns it.
LEMMA ServerEndKeeps ==
  ASSUME TcpInv, ServerEnd
  PROVE  TcpInv' /\ dead' = dead
<1> USE Cast
<1>1. /\ pc[Server] = "io" /\ op[Server].kind = "accept" /\ op[Server].st = "completed" /\ op[Server].res <= 0
      /\ ReturnBack(Server) /\ pc' = [pc EXCEPT ![Server] = "done"] /\ op' = [op EXCEPT ![Server] = NoOp]
      /\ UNCHANGED <<fdtab, ctx, m_original_fd, peer>>
  BY DEF ServerEnd, Completed
<1>2. /\ op'[Server] = NoOp /\ pc'[Server] = "done"
      /\ \A y \in Actors : y # Server => op'[y] = op[y] /\ pc'[y] = pc[y]
  BY <1>1 DEF TcpInv, Types
<1>3. ~Connected(Server)' /\ \A y \in Actors : y # Server => (Connected(y)' <=> Connected(y))
  BY <1>2 DEF Connected
<1>4. /\ dead' = dead /\ que' \in [Engines -> Seq(Index)] /\ data' \in [Engines -> [Index -> Fds \cup {NullFd, -1}]]
      /\ table' \in [Engines -> [Index -> Actors \cup {None, NullFd}]] /\ item' \in [Actors -> Index \cup {-1}]
      /\ item'[Server] = -1 /\ \A y \in Actors : y # Server => item'[y] = item[y]
      /\ UNCHANGED <<m_sockfd, m_sqe_flag>>
      /\ LeaseInv'
  BY <1>1, <1>3, ReturnEffect
<1>5. Types'
  <2>1. pc' \in [Actors -> {"none", "start", "io", "done"}] /\ op' \in [Actors -> OpType]
    BY <1>1, NoOpType DEF TcpInv, Types
  <2>. QED BY <1>1, <1>4, <2>1 DEF TcpInv, Types
<1>6. PhaseInv'
  BY <1>1, <1>2, NoOpType DEF TcpInv, PhaseInv, Astray
<1>7. UseInv'
  <2>1. NoOp.kind # "connect" /\ pc'[Server] = "done" /\ (m_sqe_flag[Server] => kEnableFixfd)
    BY <1>2, NoOpType DEF TcpInv, UseInv
  <2>2. ASSUME NEW y \in Actors, y # Server
        PROVE  /\ Connected(y)' => IF m_sqe_flag'[y] THEN item'[y] # -1 /\ m_sockfd'[y] = item'[y]
                                   ELSE OwnNumber(y, m_sockfd[y], fdtab)'
               /\ pc'[y] \in {"none", "start"} \/ op'[y].kind = "connect" => ~m_sqe_flag'[y]
               /\ m_sqe_flag'[y] => kEnableFixfd
    BY <1>1, <1>2, <1>3, <1>4, <2>2 DEF TcpInv, UseInv, OwnNumber, Astray
  <2>. QED BY <1>2, <1>3, <1>4, <2>1, <2>2 DEF UseInv
<1>8. OpInv'
  BY <1>1, <1>2, <1>4, NoOpType DEF TcpInv, OpInv, Astray
<1>9. FdInv'
  <2>1. \A s \in Sockets : (IsOpen(s)' <=> IsOpen(s)) /\ pc'[s] = pc[s]
    BY <1>1, <1>2 DEF IsOpen, Astray
  <2>2. ~Completed(Server, "accept")'
    BY <1>2 DEF Completed
  <2>3. OpenInv'
    BY <1>1, <2>1 DEF TcpInv, FdInv, OpenInv
  <2>4. OwnerInv'
    <3>1. \A g \in Fds : op[Server].res # g
      BY <1>1
    <3>. QED BY <1>1, <2>1, <3>1 DEF TcpInv, FdInv, OwnerInv, Astray
  <2>5. AcceptInv'
    BY <2>2 DEF AcceptInv
  <2>6. PeerInv'
    BY <1>1, <2>1 DEF TcpInv, FdInv, PeerInv
  <2>. QED BY <2>3, <2>4, <2>5, <2>6 DEF FdInv
<1>. QED BY <1>4, <1>5, <1>6, <1>7, <1>8, <1>9 DEF TcpInv

LEMMA CloseKeeps ==
  ASSUME TcpInv, NEW x \in Actors, Close(x)
  PROVE  TcpInv' /\ dead' = dead
<1> USE Cast
<1>1. /\ pc[x] = "io" /\ op[x].kind = "read" /\ op[x].st = "completed"
      /\ ReturnBack(x) /\ UNCHANGED <<fdtab, pc, ctx, m_original_fd, peer>>
  BY DEF Close, Completed
<1>2. PICK o \in OpType : /\ op' = [op EXCEPT ![x] = o] /\ o.kind = "close" /\ o.st = "prepared"
                          /\ o.fd = m_original_fd[x] /\ ~o.fixed
  <2>1. m_original_fd[x] \in Int /\ "close" \in Kinds
    BY DEF TcpInv, Types, Kinds
  <2>2. PICK o \in OpType : /\ o = Plain("close", m_original_fd[x]) /\ o.kind = "close" /\ o.st = "prepared"
                            /\ o.fd = m_original_fd[x] /\ ~o.fixed
    BY <2>1, PlainOp
  <2>3. op' = [op EXCEPT ![x] = Plain("close", m_original_fd[x])]
    BY DEF Close, Plain
  <2>. QED BY <2>2, <2>3
<1>3. op'[x] = o /\ \A y \in Actors : y # x => op'[y] = op[y]
  BY <1>2 DEF TcpInv, Types
<1>4. x \in Sockets
  BY <1>1 DEF TcpInv, PhaseInv, Astray
<1>5. ~Connected(x)' /\ \A y \in Actors : y # x => (Connected(y)' <=> Connected(y))
  BY <1>1, <1>2, <1>3 DEF Connected
<1>6. /\ dead' = dead /\ que' \in [Engines -> Seq(Index)] /\ data' \in [Engines -> [Index -> Fds \cup {NullFd, -1}]]
      /\ table' \in [Engines -> [Index -> Actors \cup {None, NullFd}]] /\ item' \in [Actors -> Index \cup {-1}]
      /\ item'[x] = -1 /\ \A y \in Actors : y # x => item'[y] = item[y]
      /\ UNCHANGED <<m_sockfd, m_sqe_flag>>
      /\ LeaseInv'
  BY <1>1, <1>5, ReturnEffect
<1>7. Types'
  <2>1. op' \in [Actors -> OpType]
    BY <1>2 DEF TcpInv, Types
  <2>. QED BY <1>1, <1>6, <2>1 DEF TcpInv, Types
<1>8. PhaseInv'
  <2>1. \A y \in Actors : Astray(y)' <=> Astray(y)
    BY <1>1 DEF Astray
  <2>2. \A y \in Actors : Astray(y)' => y \in Clients /\ pc'[y] # "start" /\ op'[y].kind # "connect"
    BY <1>1, <1>2, <1>3, <2>1 DEF TcpInv, PhaseInv
  <2>3. \A y \in Actors : pc'[y] # "io" => op'[y].kind = "none" /\ op'[y].st = "none"
    BY <1>1, <1>3 DEF TcpInv, PhaseInv
  <2>4. \A s \in Sockets : pc'[s] = "io" => op'[s].kind \in {"connect", "read", "write", "close"}
    BY <1>1, <1>2, <1>3 DEF TcpInv, PhaseInv
  <2>5. op'[Server] = op[Server] /\ pc'[Server] = pc[Server]
    BY <1>1, <1>3, <1>4
  <2>. QED BY <2>2, <2>3, <2>4, <2>5 DEF TcpInv, PhaseInv
<1>9. UseInv'
  BY <1>1, <1>2, <1>3, <1>5, <1>6, ZenonT(60) DEF TcpInv, UseInv, OwnNumber, Astray
<1>10. OpInv'
  BY <1>1, <1>2, <1>3, <1>6 DEF TcpInv, OpInv, Astray
<1>11. FdInv'
  <2>1. \A s \in Sockets : (IsOpen(s)' <=> IsOpen(s)) /\ (pc'[s] = "none" <=> pc[s] = "none")
    BY <1>1, <1>2, <1>3 DEF IsOpen, Astray
  <2>2. op'[Server] = op[Server] /\ pc'[Server] = pc[Server]
    BY <1>1, <1>3, <1>4
  <2>3. PeerInv'
    BY <1>1 DEF TcpInv, FdInv, PeerInv
  <2>4. op'[Server].res \in Int
    BY <2>2 DEF TcpInv, Types, OpType
  <2>. QED BY <1>1, <2>1, <2>2, <2>3, <2>4, FdKept DEF TcpInv, Completed
<1>. QED BY <1>6, <1>7, <1>8, <1>9, <1>10, <1>11 DEF TcpInv

-----------------------------------------------------------------------------
(***************************************************************************)
(* The invariant.                                                          *)
(***************************************************************************)
LEMMA TcpInit == Init => TcpInv
<1> USE Cast
<1>. DEFINE q == [i \in 1 .. kFixFdArraySize |-> i - 1]
<1>1. SUFFICES ASSUME Init PROVE TcpInv
  OBVIOUS
<1>2. q \in Seq(Index) /\ IsInjective(q) /\ ToSet(q) = Index
  <2>1. kFixFdArraySize \in Nat /\ \A i \in 1 .. kFixFdArraySize : i - 1 \in Index
    BY TcpAssumption DEF Index
  <2>2. q \in Seq(Index) /\ DOMAIN q = 1 .. kFixFdArraySize
    BY <2>1, IsASeq
  <2>3. IsInjective(q)
    BY <2>1 DEF IsInjective
  <2>4. \A i \in Index : i + 1 \in 1 .. kFixFdArraySize /\ q[i + 1] = i
    BY <2>1 DEF Index
  <2>. QED BY <2>1, <2>2, <2>3, <2>4 DEF ToSet
<1>3. /\ que = [e \in Engines |-> q] /\ data = [e \in Engines |-> [i \in Index |-> NullFd]]
      /\ table = [e \in Engines |-> [i \in Index |-> NullFd]]
  BY <1>1 DEF Init, set_data
<1>. HIDE DEF q
<1>4. \A x \in Actors : /\ item[x] = -1 /\ ~m_sqe_flag[x] /\ op[x] = NoOp
                        /\ pc[x] = (IF x \in Accepted THEN "none" ELSE "start") /\ m_original_fd[x] = 0
  BY <1>1 DEF Init
<1>5. /\ \A fd \in Fds : fdtab[fd] = None
      /\ \A s \in Sockets : peer[s] = "absent"
  BY <1>1 DEF Init
<1>6. Types
  <2>1. que \in [Engines -> Seq(Index)] /\ data \in [Engines -> [Index -> Fds \cup {NullFd, -1}]]
        /\ table \in [Engines -> [Index -> Actors \cup {None, NullFd}]]
    BY <1>2, <1>3
  <2>2. op \in [Actors -> OpType]
    BY <1>1, NoOpType DEF Init
  <2>. QED BY <1>1, <2>1, <2>2 DEF Init, Types, FileTables
<1>7. PhaseInv
  BY <1>4, NoOpType DEF PhaseInv, Astray
<1>8. FdInv
  <2>1. \A s \in Sockets : ~IsOpen(s) /\ ~(s \in Accepted /\ pc[s] = "start")
    BY <1>4 DEF IsOpen, Astray
  <2>2. ~Completed(Server, "accept")
    BY <1>4 DEF Completed
  <2>. QED BY <1>4, <1>5, <2>1, <2>2 DEF FdInv, OpenInv, OwnerInv, AcceptInv, PeerInv, Astray
<1>9. LeaseInv
  <2>1. \A e \in Engines : que[e] = q /\ \A i \in Index : data[e][i] = NullFd /\ table[e][i] = NullFd
    BY <1>3
  <2>2. FreeInv
    BY <1>2, <2>1 DEF FreeInv
  <2>3. LentInv
    BY <1>4 DEF LentInv
  <2>. QED BY <2>2, <2>3 DEF LeaseInv
<1>10. UseInv
  BY <1>4, NoOpType DEF UseInv, Connected
<1>11. OpInv
  BY <1>4, NoOpType DEF OpInv, Astray
<1>. QED BY <1>6, <1>7, <1>8, <1>9, <1>10, <1>11 DEF TcpInv

\* A client that has gone astray is in a build without asserts.
BuildInv == \A x \in Actors : Astray(x) => NDEBUG

\* How the process may have ended.
Fate == \/ dead \in {"no", "constructor", "connect"}
        \/ dead = "update" /\ \E x \in Clients : m_original_fd[x] \in Int /\ m_original_fd[x] < -1

Always == (dead = "no" => TcpInv) /\ BuildInv /\ Fate

LEMMA BuildStep ==
  ASSUME TcpInv, BuildInv, Next
  PROVE  BuildInv'
<1> USE Cast
<1>1. NDEBUG' = NDEBUG
  BY DEF Next, Step, Terminated, vars
<1>2. UNCHANGED m_original_fd => BuildInv'
  BY <1>1 DEF BuildInv, Astray
<1>3. ASSUME NEW x \in Actors, NEW n, m_original_fd' = [m_original_fd EXCEPT ![x] = n], n < 0 => NDEBUG
      PROVE  BuildInv'
  BY <1>1, <1>3 DEF BuildInv, Astray, TcpInv, Types
<1>4. \A n \in Fds : ~(n < 0)
  BY DEF Fds
<1>5. ASSUME NEW x \in Actors, StartClient(x) PROVE BuildInv'
  BY <1>3, <1>4, <1>5, LowestFree DEF StartClient
<1>6. CASE ServeNext
  <2>1. PICK c \in Accepted : m_original_fd' = [m_original_fd EXCEPT ![c] = op[Server].res]
    BY <1>6 DEF ServeNext
  <2>2. c \in Actors /\ ~(op[Server].res < 0)
    BY <1>6 DEF ServeNext, TcpInv, Types, OpType
  <2>. QED BY <1>3, <2>1, <2>2
<1>7. ASSUME NEW x \in Actors, MakeConnector(x) PROVE BuildInv'
  <2>. DEFINE fd == IF x \in Accepted THEN m_original_fd[x] ELSE op[x].res
  <2>1. /\ m_original_fd' = [m_original_fd EXCEPT ![x] = fd]
        /\ x \in Accepted \/ op[x].res > 0 \/ NDEBUG
    BY <1>7 DEF MakeConnector
  <2>2. fd < 0 => NDEBUG
    BY <2>1 DEF BuildInv, Astray, TcpInv, Types, OpType
  <2>. HIDE DEF fd
  <2>. QED BY <1>3, <2>1, <2>2
<1>8. ASSUME NEW x \in Actors, Run(x), ~StartClient(x), ~ServeNext, ~MakeConnector(x) PROVE UNCHANGED m_original_fd
  BY <1>8 DEF Run, ConstructorExits, ConnectFailed, Echo, Close, Closed, StartServer, ServerEnd
<1>9. ASSUME NEW x \in Actors, Kernel(x) PROVE UNCHANGED m_original_fd
  BY <1>9 DEF Kernel, TakeSqe, DoClose, DoConnect, DoRead, DoWrite, DoAccept
<1>10. ASSUME NEW t \in Sockets, PeerStep(t) PROVE UNCHANGED m_original_fd
  BY <1>10 DEF PeerStep
<1>11. Terminated => UNCHANGED m_original_fd
  BY DEF Terminated, vars
<1>. QED BY <1>2, <1>5, <1>6, <1>7, <1>8, <1>9, <1>10, <1>11 DEF Next, Step

\* A step of a process that lives keeps the invariant, or ends the process.
LEMMA TcpStep ==
  ASSUME TcpInv, BuildInv, Next, dead = "no"
  PROVE  /\ TcpInv' \/ dead' # "no"
         /\ Fate'
<1>1. TcpInv /\ BuildInv /\ dead = "no"
  OBVIOUS
<1>. DEFINE Goal == (TcpInv' \/ dead' # "no") /\ Fate'
<1>0. dead' \in {"no", "constructor", "connect"} /\ (TcpInv' \/ dead' # "no") => Goal
  BY DEF Fate
<1>2. ASSUME NEW x \in Actors, Run(x) PROVE Goal
  <2>1. CASE ConstructorExits(x) \/ ConnectFailed(x)
    BY <1>0, <2>1 DEF ConstructorExits, ConnectFailed
  <2>2. CASE StartClient(x)
    BY <1>0, <1>1, <2>2, StartClientKeeps DEF StartClient
  <2>3. CASE MakeConnector(x)
    BY <1>0, <1>1, <2>3, MakeConnectorKeeps DEF Fate
  <2>4. CASE Echo(x)
    BY <1>0, <1>1, <2>4, EchoKeeps DEF Echo
  <2>5. CASE Close(x)
    BY <1>0, <1>1, <2>5, CloseKeeps
  <2>6. CASE Closed(x)
    BY <1>0, <1>1, <2>6, ClosedKeeps DEF BuildInv
  <2>7. CASE StartServer
    BY <1>0, <1>1, <2>7, StartServerKeeps
  <2>8. CASE ServeNext
    BY <1>0, <1>1, <2>8, ServeNextKeeps DEF ServeNext
  <2>9. CASE ServerEnd
    BY <1>0, <1>1, <2>9, ServerEndKeeps
  <2>. QED BY <1>2, <2>1, <2>2, <2>3, <2>4, <2>5, <2>6, <2>7, <2>8, <2>9 DEF Run
<1>3. ASSUME NEW x \in Actors, Kernel(x) PROVE Goal
  <2>1. CASE TakeSqe(x)
    BY <1>0, <1>1, <2>1, TakeSqeKeeps DEF TakeSqe
  <2>2. CASE DoClose(x)
    BY <1>0, <1>1, <2>2, DoCloseKeeps DEF DoClose
  <2>3. CASE DoConnect(x)
    BY <1>0, <1>1, <2>3, DoConnectKeeps DEF DoConnect
  <2>4. CASE DoRead(x) \/ DoWrite(x)
    BY <1>0, <1>1, <2>4, DoTransferKeeps DEF DoRead, DoWrite
  <2>5. CASE DoAccept
    BY <1>0, <1>1, <2>5, DoAcceptKeeps DEF DoAccept
  <2>. QED BY <1>3, <2>1, <2>2, <2>3, <2>4, <2>5 DEF Kernel
<1>4. ASSUME NEW s \in Sockets, PeerStep(s) PROVE Goal
  BY <1>0, <1>1, <1>4, PeerStepKeeps DEF PeerStep
<1>5. CASE UNCHANGED vars
  BY <1>0, <1>1, <1>5, StutterKeeps DEF vars
<1>. QED BY <1>2, <1>3, <1>4, <1>5 DEF Next, Step, Terminated

LEMMA AlwaysStep == Always /\ [Next]_vars => Always'
<1>1. SUFFICES ASSUME Always, [Next]_vars PROVE Always'
  OBVIOUS
<1>2. CASE UNCHANGED vars
  <2>1. TcpInv => TcpInv'
    BY <1>2, StutterKeeps DEF vars
  <2>. QED BY <1>1, <1>2, <2>1 DEF Always, BuildInv, Astray, Fate, vars
<1>3. CASE Next /\ dead = "no"
  BY <1>1, <1>3, TcpStep, BuildStep DEF Always
<1>4. CASE Next /\ dead # "no"
  BY <1>2, <1>4 DEF Next, Step, Terminated
<1>. QED BY <1>1, <1>2, <1>3, <1>4

\* While the process lives, what the invariant says of the descriptors, the
\* places of the engines' tables and the operations holds; it ends in a
\* constructor, at the assert on connect(), or, without asserts, where a
\* refused connect() leads to.
THEOREM TcpInvariant == Spec => []Always
<1>1. Init => Always
  <2>1. Init => BuildInv
    BY Cast DEF Init, BuildInv, Astray
  <2>. QED BY <2>1, TcpInit DEF Init, Always, Fate
<1>. QED BY <1>1, AlwaysStep, PTL DEF Spec

-----------------------------------------------------------------------------
(***************************************************************************)
(* What follows from it.                                                   *)
(***************************************************************************)

\* The invariant's words and the properties'.
LEMMA AstrayIsRefused ==
  ASSUME BuildInv, NEW x \in Actors
  PROVE  (Refused(x) <=> Astray(x)) /\ FileOf(x) = OwnFile(x)
BY DEF BuildInv, Refused, Astray, FileOf, OwnFile

\* A place of an engine's table is free once or lent to one coroutine of that
\* engine and to no other, and its ring refers to nothing or to the borrower's
\* file (marked_buffer::borrow and return_back, uring_proxy's fixed
\* descriptors).
THEOREM LeasesAreExclusive == Spec => []LeaseExclusive
<1>1. Always => LeaseExclusive
  <2> USE Cast
  <2>1. SUFFICES ASSUME TcpInv, BuildInv, NEW e \in Engines
                 PROVE  /\ IsInjective(que[e])
                        /\ \A i \in ToSet(que[e]) : table[e][i] = NullFd
                        /\ \A i \in Index \ ToSet(que[e]) : \E x \in Lessees(e) : item[x] = i
                        /\ \A x \in Lessees(e) : /\ item[x] \notin ToSet(que[e])
                                                 /\ table[e][item[x]] = FileOf(x)
                                                 /\ \A y \in Lessees(e) : item[y] = item[x] => y = x
    BY DEF LeaseExclusive, Always
  <2>2. IsInjective(que[e]) /\ ToSet(que[e]) \subseteq Index
    <3>1. que[e] \in Seq(Index)
      BY <2>1 DEF TcpInv, Types
    <3>. QED BY <2>1, <3>1 DEF TcpInv, LeaseInv, FreeInv, ToSet
  <2>3. \A i \in ToSet(que[e]) : table[e][i] = NullFd
    BY <2>1, <2>2 DEF TcpInv, LeaseInv, FreeInv
  <2>4. ASSUME NEW i \in Index \ ToSet(que[e])
        PROVE  \E x \in Lessees(e) : item[x] = i
    <3>1. PICK x \in Actors : ctx[x] = e /\ item[x] = i
      BY <2>1 DEF TcpInv, LeaseInv, FreeInv
    <3>. QED BY <3>1 DEF Lessees
  <2>5. ASSUME NEW x \in Lessees(e)
        PROVE  /\ item[x] \notin ToSet(que[e]) /\ table[e][item[x]] = FileOf(x)
               /\ \A y \in Lessees(e) : item[y] = item[x] => y = x
    <3>1. x \in Actors /\ ctx[x] = e /\ item[x] # -1
      BY DEF Lessees
    <3>2. /\ item[x] \notin ToSet(que[e]) /\ table[e][item[x]] = OwnFile(x)
          /\ \A y \in Actors : ctx[y] = e /\ item[y] = item[x] => y = x
      BY <2>1, <3>1 DEF TcpInv, LeaseInv, LentInv
    <3>3. OwnFile(x) = FileOf(x)
      BY <2>1, <3>1, AstrayIsRefused
    <3>. QED BY <3>2, <3>3 DEF Lessees
  <2>. QED BY <2>2, <2>3, <2>4, <2>5
<1>. QED BY <1>1, TcpInvariant, PTL

\* The socket of a session that is over has no number in the process, unless
\* its connect() was refused, and no place in a ring (tcp_connector::close,
\* back_fixed_fd).
THEOREM ClosedReleased == Spec => []ClosedIsReleased
<1>1. Always => ClosedIsReleased
  <2> USE Cast
  <2>1. SUFFICES ASSUME TcpInv, BuildInv, NEW s \in Sockets, pc[s] = "done"
                 PROVE  /\ \A fd \in Fds : fdtab[fd] = s => Refused(s)
                        /\ \A e \in Engines, i \in Index : table[e][i] # s
    BY DEF ClosedIsReleased, Always
  <2>2. ~IsOpen(s) /\ ~Pending(s) /\ ~Connected(s) /\ (Refused(s) <=> Astray(s))
    BY <2>1, AstrayIsRefused DEF IsOpen, Pending, Connected
  <2>3. \A fd \in Fds : fdtab[fd] = s => Refused(s)
    BY <2>1, <2>2 DEF TcpInv, FdInv, OwnerInv
  <2>4. ASSUME NEW e \in Engines, NEW i \in Index, table[e][i] = s PROVE FALSE
    <3>1. i \notin ToSet(que[e])
      BY <2>1, <2>4 DEF TcpInv, LeaseInv, FreeInv
    <3>2. PICK x \in Actors : ctx[x] = e /\ item[x] = i
      BY <2>1, <3>1 DEF TcpInv, LeaseInv, FreeInv
    <3>3. Connected(x) /\ table[e][i] = OwnFile(x)
      BY <2>1, <3>2 DEF TcpInv, LeaseInv, LentInv
    <3>. QED BY <2>2, <2>4, <3>3 DEF OwnFile
  <2>. QED BY <2>3, <2>4
<1>. QED BY <1>1, TcpInvariant, PTL

\* No close() fails and no update of the registered descriptors ends the
\* process, except by a client that a build without asserts lets go on after a
\* refused connect() (tcp_connector::close, update_register_fixed_fds).
THEOREM DescriptorsGood == Spec => []NoBadDescriptor
<1>1. Always => NoBadDescriptor
  <2> USE Cast
  <2>1. SUFFICES ASSUME Always PROVE NoBadDescriptor
    OBVIOUS
  <2>2. dead # "close"
    BY <2>1 DEF Always, Fate
  <2>3. ASSUME dead = "update" PROVE \E x \in Clients : Refused(x) /\ m_original_fd[x] # -1
    <3>1. PICK x \in Clients : m_original_fd[x] \in Int /\ m_original_fd[x] < -1
      BY <2>1, <2>3 DEF Always, Fate
    <3>2. m_original_fd[x] < 0 /\ m_original_fd[x] # -1
      BY <3>1
    <3>. QED BY <2>1, <3>2, AstrayIsRefused DEF Always, Astray
  <2>4. ASSUME dead = "no", NEW x \in Sockets, Completed(x, "close"), op[x].res # 0 PROVE Refused(x)
    BY <2>1, <2>4, AstrayIsRefused DEF Always, TcpInv, OpInv, Completed
  <2>. QED BY <2>2, <2>3, <2>4 DEF NoBadDescriptor
<1>. QED BY <1>1, TcpInvariant, PTL

\* What a step leaves running, TakeSqe apart, was running before.
Quiet == \A y \in Actors : op'[y].st = "running" => op'[y] = op[y] /\ m_original_fd'[y] = m_original_fd[y]

LEMMA NothingStarts ==
  ASSUME TcpInv, Next, \A x \in Actors : ~TakeSqe(x)
  PROVE  Quiet
<1> USE Cast
<1>1. ASSUME NEW x \in Actors, NEW o, op' = [op EXCEPT ![x] = o], o.st # "running",
             \A y \in Actors : y # x => m_original_fd'[y] = m_original_fd[y] \/ op[y].st # "running"
      PROVE  Quiet
  BY <1>1 DEF TcpInv, Types, Quiet
<1>2. \A kind, fd, flag : Prepared(kind, fd, flag).st # "running"
  BY OpKind
<1>3. UNCHANGED <<op, m_original_fd>> => Quiet
  BY DEF Quiet
<1>4. ASSUME NEW x \in Actors, NEW r, Post(x, r), UNCHANGED m_original_fd PROVE Quiet
  <2>1. [op[x] EXCEPT !.st = "completed", !.res = Result(x, r)].st # "running"
    BY DEF TcpInv, Types, OpType
  <2>2. op' = [op EXCEPT ![x] = [op[x] EXCEPT !.st = "completed", !.res = Result(x, r)]]
    BY <1>4 DEF Post
  <2>. QED BY <1>1, <1>4, <2>1, <2>2, Zenon
<1>5. NoOp.st # "running"
  BY NoOpType
<1>6. ASSUME NEW x \in Actors, Run(x) PROVE Quiet
  <2>1. CASE ConstructorExits(x) \/ ConnectFailed(x)
    BY <1>3, <2>1 DEF ConstructorExits, ConnectFailed
  <2>2. CASE StartClient(x)
    <3>1. /\ op' = [op EXCEPT ![x] = Prepared("connect", Min(Free), FALSE)]
          /\ \A y \in Actors : y # x => m_original_fd'[y] = m_original_fd[y]
      BY <2>2 DEF StartClient, TcpInv, Types
    <3>2. Prepared("connect", Min(Free), FALSE).st # "running"
      BY <1>2, Zenon
    <3>. QED BY <1>1, <3>1, <3>2, Zenon
  <2>3. CASE MakeConnector(x)
    <3>1. /\ op' = [op EXCEPT ![x] = Prepared("read", m_sockfd'[x], m_sqe_flag'[x])]
          /\ \A y \in Actors : y # x => m_original_fd'[y] = m_original_fd[y]
      BY <2>3 DEF MakeConnector, TcpInv, Types
    <3>2. Prepared("read", m_sockfd'[x], m_sqe_flag'[x]).st # "running"
      BY <1>2, Zenon
    <3>. QED BY <1>1, <3>1, <3>2, Zenon
  <2>4. CASE Echo(x)
    <3>. DEFINE k == IF op[x].kind = "read" THEN "write" ELSE "read"
    <3>1. op' = [op EXCEPT ![x] = Prepared(k, m_sockfd[x], m_sqe_flag[x])] /\ m_original_fd' = m_original_fd
      BY <2>4 DEF Echo, TcpInv, Types
    <3>. HIDE DEF k
    <3>2. Prepared(k, m_sockfd[x], m_sqe_flag[x]).st # "running"
      BY <1>2, Zenon
    <3>. QED BY <1>1, <3>1, <3>2, Zenon
  <2>5. CASE Close(x)
    <3>1. op' = [op EXCEPT ![x] = Plain("close", m_original_fd[x])] /\ m_original_fd' = m_original_fd
      BY <2>5 DEF Close, Plain
    <3>2. Plain("close", m_original_fd[x]).st # "running"
      BY <1>2 DEF Plain
    <3>. QED BY <1>1, <3>1, <3>2, Zenon
  <2>6. CASE Closed(x)
    BY <1>1, <1>5, <2>6 DEF Closed
  <2>7. CASE StartServer
    <3>1. /\ op' = [op EXCEPT ![Server] = Prepared("accept", m_sockfd'[Server], m_sqe_flag'[Server])]
          /\ m_original_fd' = m_original_fd
      BY <2>7 DEF StartServer
    <3>2. Prepared("accept", m_sockfd'[Server], m_sqe_flag'[Server]).st # "running"
      BY <1>2, Zenon
    <3>. QED BY <1>1, <3>1, <3>2, Zenon
  <2>9. CASE ServeNext
    <3>1. PICK c \in Accepted : /\ m_original_fd' = [m_original_fd EXCEPT ![c] = op[Server].res]
                                /\ fdtab[op[Server].res] = c
      BY <2>9 DEF ServeNext
    <3>2. Completed(Server, "accept") /\ op[Server].res > 0
      BY <2>9 DEF ServeNext
    <3>3. op[c].st # "running"
      <4>1. Pending(c)
        BY <3>1, <3>2 DEF TcpInv, FdInv, AcceptInv
      <4>. QED BY <4>1 DEF TcpInv, PhaseInv, Pending
    <3>4. \A y \in Actors : m_original_fd'[y] = m_original_fd[y] \/ op[y].st # "running"
      BY <3>1, <3>3 DEF TcpInv, Types
    <3>5. op' = [op EXCEPT ![Server] = Prepared("accept", m_sockfd[Server], m_sqe_flag[Server])]
      BY <2>9 DEF ServeNext
    <3>6. Prepared("accept", m_sockfd[Server], m_sqe_flag[Server]).st # "running"
      BY <1>2, Zenon
    <3>. QED BY <1>1, <3>4, <3>5, <3>6, Zenon
  <2>8. CASE ServerEnd
    BY <1>1, <1>5, <2>8 DEF ServerEnd
  <2>. QED BY <1>6, <2>1, <2>2, <2>3, <2>4, <2>5, <2>6, <2>7, <2>8, <2>9 DEF Run
<1>7. ASSUME NEW x \in Actors, Kernel(x) PROVE Quiet
  <2>1. CASE DoClose(x)
    BY <1>4, <2>1 DEF DoClose
  <2>2. CASE DoConnect(x)
    BY <1>4, <2>2 DEF DoConnect
  <2>3. CASE DoRead(x)
    BY <1>4, <2>3 DEF DoRead
  <2>4. CASE DoWrite(x)
    BY <1>4, <2>4 DEF DoWrite
  <2>5. CASE DoAccept
    BY <1>4, <2>5 DEF DoAccept
  <2>. QED BY <1>7, <2>1, <2>2, <2>3, <2>4, <2>5 DEF Kernel
<1>8. ASSUME NEW s \in Sockets, PeerStep(s) PROVE Quiet
  BY <1>3, <1>8 DEF PeerStep
<1>9. CASE UNCHANGED vars
  BY <1>3, <1>9 DEF vars
<1>. QED BY <1>6, <1>7, <1>8, <1>9 DEF Next, Step, Terminated

\* The ring finds the file of the coroutine whose operation it takes, if the
\* flags set before io_uring_prep_* are kept, or are not needed.
LEMMA TakesOwnFile ==
  ASSUME TcpInv, kEnableFixfd => PrepKeepsFlags, NEW x \in Actors, TakeSqe(x)
  PROVE  op'[x].file = OwnFile(x)
<1> USE Cast
<1>. DEFINE file == CASE op[x].fixed -> table[ctx[x]][op[x].fd]
                      [] ~op[x].fixed /\ op[x].fd \in Fds    -> fdtab[op[x].fd]
                      [] ~op[x].fixed /\ op[x].fd \notin Fds -> None
<1>1. /\ op[x].st = "prepared" /\ op[x].kind # "close"
      /\ op' = [op EXCEPT ![x].st = "running", ![x].file = file]
  BY DEF TakeSqe
<1>2. op[x] \in OpType /\ op[x].fixed \in BOOLEAN /\ pc[x] = "io"
  BY <1>1 DEF TcpInv, Types, OpType, PhaseInv, Astray
<1>3. op'[x].file = file
  <2>. HIDE DEF file
  <2>. QED BY <1>1, <1>2 DEF TcpInv, Types, OpType
<1>4. CASE op[x].kind = "connect"
  <2>1. x \in Sockets /\ IsOpen(x) /\ ~Astray(x)
    BY <1>1, <1>2, <1>4 DEF TcpInv, PhaseInv, IsOpen, Astray
  <2>2. op[x].fd = m_original_fd[x] /\ ~op[x].fixed
    BY <1>4 DEF TcpInv, OpInv, Astray
  <2>3. op[x].fd \in Fds /\ fdtab[op[x].fd] = x
    BY <2>1, <2>2 DEF TcpInv, FdInv, OpenInv
  <2>. QED BY <1>3, <2>1, <2>2, <2>3 DEF OwnFile
<1>5. CASE op[x].kind # "connect"
  <2>1. Connected(x) /\ op[x].fd = m_sockfd[x] /\ (op[x].fixed <=> m_sqe_flag[x] /\ PrepKeepsFlags)
    BY <1>1, <1>2, <1>5 DEF TcpInv, PhaseInv, Connected, OpInv, Astray
  <2>2. CASE op[x].fixed
    <3>1. item[x] # -1 /\ op[x].fd = item[x]
      BY <2>1, <2>2 DEF TcpInv, UseInv
    <3>2. table[ctx[x]][op[x].fd] = OwnFile(x)
      BY <3>1 DEF TcpInv, LeaseInv, LentInv
    <3>. QED BY <1>3, <2>2, <3>2
  <2>3. CASE ~op[x].fixed
    <3>1. ~m_sqe_flag[x]
      BY <2>1, <2>3 DEF TcpInv, UseInv
    <3>2. OwnNumber(x, op[x].fd, fdtab)
      BY <2>1, <3>1 DEF TcpInv, UseInv
    <3>3. \A n \in Fds : ~(n < 0)
      BY DEF Fds
    <3>. QED BY <1>3, <2>3, <3>2, <3>3 DEF OwnNumber, OwnFile
  <2>. QED BY <2>2, <2>3
<1>. QED BY <1>4, <1>5

LEMMA OwnFileStep ==
  ASSUME kEnableFixfd => PrepKeepsFlags
  PROVE  Always /\ OpOnOwnFile /\ [Next]_vars => OpOnOwnFile'
<1>1. SUFFICES ASSUME Always, OpOnOwnFile, [Next]_vars PROVE OpOnOwnFile'
  OBVIOUS
<1>2. CASE UNCHANGED vars
  BY <1>1, <1>2 DEF vars, OpOnOwnFile, FileOf, Refused
<1>3. CASE Next /\ dead = "no"
  <2>1. TcpInv /\ BuildInv /\ NDEBUG' = NDEBUG
    BY <1>1, <1>3 DEF Always, Next, Step, Terminated, vars
  <2>2. CASE \A x \in Actors : ~TakeSqe(x)
    <3>1. Quiet
      BY <1>3, <2>1, <2>2, NothingStarts
    <3>. QED BY <1>1, <2>1, <3>1 DEF Quiet, OpOnOwnFile, FileOf, Refused
  <2>3. ASSUME NEW x \in Actors, TakeSqe(x) PROVE OpOnOwnFile'
    <3>1. op'[x].file = FileOf(x)
      BY <2>1, <2>3, TakesOwnFile, AstrayIsRefused
    <3>2. \A y \in Actors : y # x => op'[y] = op[y]
      BY <2>1, <2>3 DEF TakeSqe, TcpInv, Types
    <3>3. m_original_fd' = m_original_fd
      BY <2>3 DEF TakeSqe
    <3>. QED BY <1>1, <2>1, <3>1, <3>2, <3>3 DEF OpOnOwnFile, FileOf, Refused
  <2>. QED BY <2>2, <2>3
<1>4. CASE Next /\ dead # "no"
  BY <1>2, <1>4 DEF Next, Step, Terminated
<1>. QED BY <1>1, <1>2, <1>3, <1>4

\* An operation acts on the file of the coroutine that awaits it, whatever was
\* closed, opened, lent and returned since it was prepared: without fixed
\* descriptors, and with them if io_uring_prep_* keeps the flag that
\* base_io_info and the awaiters of tcp set before it.
THEOREM OpsOnOwnFile ==
  ASSUME kEnableFixfd => PrepKeepsFlags
  PROVE  Spec => []OpOnOwnFile
<1>1. Init => OpOnOwnFile
  BY NoOpType DEF Init, OpOnOwnFile
<1>2. Always /\ OpOnOwnFile /\ [Next]_vars => OpOnOwnFile'
  BY OwnFileStep
<1>. QED BY <1>1, <1>2, TcpInvariant, PTL DEF Spec
=============================================================================
