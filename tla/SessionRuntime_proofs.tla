----------------------- MODULE SessionRuntime_proofs -----------------------
(***************************************************************************)
(* Proofs about SessionRuntime for any sets of clients, servers and inodes *)
(* and any set of commands: type correctness, that a live endpoint is      *)
(* never replaced, that the pid record of a server that accepts clients is *)
(* its own, that the endpoint implements NameOwner, and that the record of *)
(* the last connection, kill and deletion follow the owner of the name.    *)
(***************************************************************************)
EXTENDS SessionRuntime, TLAPS

-----------------------------------------------------------------------------
(* The inductive invariant.                                                *)

\* Between acquire_workspace and the drop of its result.
InWorkspace ==
    {"load", "stale", "unlink", "bind", "lock_file", "pid_file", "unlock",
     "validate", "open_lock", "flock", "hello", "record", "check", "erase"}

\* From bind to the fork or the exit of the creator, and to its relinquish.
Unforked == Bound \cup {"exit"}
Creating == Unforked \cup {"relinquish"}

\* A server with an open pid file, with the lease, with its own record.
Recorded == {"accept", "greet_first", "setup", "attached", "detached",
             "greet", "finish", "unlease"}
Leased   == {"locked", "truncated"} \cup Recorded
Opened   == {"opened"} \cup Leased

WorkspaceInv == \A c \in Clients : cpc[c] \in InWorkspace => workspace = c

\* Descriptors and targets are set where the steps rely on them.
HandleInv ==
    \A c \in Clients :
        /\ cpc[c] \in {"flock", "pid_lock", "pid_read", "lock_probe", "lock_held"}
             => fd[c] \in Inodes
        /\ cpc[c] = "signal" => tgt[c] \in Servers

\* Who holds a listener: the server while it runs, its creator until it
\* relinquishes.
ListenerInv ==
    /\ \A s \in Servers : Running(s) <=> s \in listener[s]
    /\ \A s, t \in Servers : t \in listener[s] => t = s
    /\ \A s \in Servers, c \in Clients :
         c \in listener[s] <=> tgt[c] = s /\ cpc[c] \in Creating
    /\ \A c \in Clients : cpc[c] \in Creating => tgt[c] \in Servers
    /\ \A c \in Clients : cpc[c] \in Unforked => spc[tgt[c]] = "unborn"
    /\ \A c, d \in Clients :
         cpc[c] \in Creating /\ cpc[d] \in Creating /\ tgt[c] = tgt[d]
           => c = d

\* What remove_stale_socket is about to unlink still refuses connections.
StaleInv ==
    \A c \in Clients :
        cpc[c] = "unlink" /\ sock # None => listener[sock] = {}

\* The pid file of a server is the one NAME.pid names, then locked, then its.
LeaseInv ==
    \A s \in Servers :
        /\ spc[s] \in Opened => pidFile # None /\ sfd[s] = pidFile
        /\ spc[s] \in Leased => excl[pidFile] = s
        /\ spc[s] \in Recorded => pidRec[pidFile] = s

IInv ==
    /\ TypeOK
    /\ WorkspaceInv
    /\ HandleInv
    /\ ListenerInv
    /\ StaleInv
    /\ EndpointOwned
    /\ LeaseInv

-----------------------------------------------------------------------------
\* The kernel's part in the end of a command: whatever it held is released.
LEMMA ReleaseStep ==
    ASSUME IInv, NEW c \in Clients, Release(c),
           UNCHANGED <<sock, lockFile, pidFile, lastOf>>, saved' \in BOOLEAN
    PROVE  IInv'
  BY SMTT(60), ConstantsAssumption DEF Release, IInv, TypeOK, WorkspaceInv, HandleInv, ListenerInv, StaleInv, EndpointOwned,
            LeaseInv, InWorkspace, Bound, Unforked, Creating, Recorded, Leased,
            Opened, Owning, Running, Connectable, FreeInodes, Goto, ServerPC, ClientPC,
            files, locks, conns, servers, clients

LEMMA ExitStep ==
    ASSUME IInv, NEW c \in Clients, Exit(c)
    PROVE  IInv'
  BY ReleaseStep DEF Exit, files, IInv, TypeOK

\* The death of a server, alone or by the signal of a command.
LEMMA DieStep ==
    ASSUME IInv, NEW s \in Servers, Running(s), Die(s),
           \/ UNCHANGED clients
           \/ \E c \in Clients : cpc[c] = "signal" /\ Goto(c, "wait")
    PROVE  IInv'
  <1> USE ConstantsAssumption DEF IInv, TypeOK, WorkspaceInv, HandleInv, ListenerInv, StaleInv, EndpointOwned,
            LeaseInv, InWorkspace, Bound, Unforked, Creating, Recorded, Leased,
            Opened, Owning, Running, Connectable, FreeInodes, Goto, ServerPC, ClientPC,
            files, locks, conns, servers, clients
  <1>1. CASE UNCHANGED clients
    BY SMTT(60), <1>1 DEF Die
  <1>2. CASE \E c \in Clients : cpc[c] = "signal" /\ Goto(c, "wait")
    BY SMTT(60), <1>2 DEF Die
  <1> QED BY <1>1, <1>2

\* A server that accepts clients goes on, or starts to shut down: what the
\* invariant says of it stays the same.
LEMMA ServingStep ==
    ASSUME IInv, NEW s \in Servers, NEW label \in Recorded,
           spc[s] \in Recorded, spc' = [spc EXCEPT ![s] = label],
           saved' \in BOOLEAN, peer' \in [Servers -> Clients \cup {None, Gone}],
           armed' \in [Servers -> BOOLEAN],
           UNCHANGED <<sock, lockFile, pidFile, lastOf, locks, listener, backlog,
                       greeted, sfd, sig, clients>>
    PROVE  IInv'
  <1>1. TypeOK'
    <2>1. spc' \in [Servers -> ServerPC]
      BY DEF IInv, TypeOK, Recorded, ServerPC
    <2> QED BY <2>1 DEF IInv, TypeOK, locks, clients
  <1>2. WorkspaceInv' /\ HandleInv'
    BY DEF IInv, WorkspaceInv, HandleInv, locks, clients
  <1>3. \A t \in Servers :
          /\ Owning(t)' <=> Owning(t)
          /\ Running(t)' <=> Running(t)
          /\ spc'[t] = "unborn" <=> spc[t] = "unborn"
    BY SMTT(60) DEF IInv, TypeOK, Owning, Running, Recorded, clients
  <1>4. ListenerInv'
    BY SMTT(60), <1>3, ConstantsAssumption
       DEF IInv, TypeOK, ListenerInv, clients, Creating, Unforked, Bound
  <1>5. StaleInv' /\ EndpointOwned'
    BY SMTT(60), <1>3 DEF IInv, StaleInv, EndpointOwned, clients
  <1>6. LeaseInv'
    BY SMTT(60) DEF IInv, TypeOK, LeaseInv, Recorded, Leased, Opened, locks
  <1> QED BY <1>1, <1>2, <1>4, <1>5, <1>6 DEF IInv

\* A command that neither creates nor unlinks, and touches no lock or record
\* of a server, leaves alone what the invariant says of the name.
LEMMA NameFrame ==
    ASSUME IInv, NEW c \in Clients, TypeOK',
           cpc[c] \notin Creating, cpc'[c] \notin Creating \cup {"unlink"},
           \A d \in Clients \ {c} : cpc'[d] = cpc[d] /\ tgt'[d] = tgt[d],
           \A i \in Inodes : excl[i] \in Servers => excl'[i] = excl[i],
           pidFile # None => pidRec'[pidFile] = pidRec[pidFile],
           UNCHANGED <<sock, pidFile, listener, spc, sfd>>
    PROVE  ListenerInv' /\ StaleInv' /\ EndpointOwned' /\ LeaseInv'
  <1>1. ListenerInv'
    <2> USE DEF Creating, Unforked, Bound, Running
    <2>1. \A d \in Clients :
            cpc'[d] \in Creating => d # c /\ cpc'[d] = cpc[d] /\ tgt'[d] = tgt[d]
      OBVIOUS
    <2>2. \A s \in Servers, d \in Clients :
            d \in listener'[s] <=> tgt'[d] = s /\ cpc'[d] \in Creating
      BY SMTT(60) DEF IInv, ListenerInv
    <2> QED BY SMTT(60), <2>1, <2>2 DEF IInv, ListenerInv
  <1>2. EndpointOwned'
    BY SMTT(60) DEF IInv, EndpointOwned, Owning, Creating, Unforked
  <1>3. StaleInv'
    BY SMTT(60) DEF IInv, StaleInv
  <1>4. LeaseInv'
    BY SMTT(60) DEF IInv, TypeOK, LeaseInv, Leased, Recorded, Opened
  <1> QED BY <1>1, <1>2, <1>3, <1>4

\* The same, with what such a command must still show of itself.
LEMMA FramedStep ==
    ASSUME IInv, NEW c \in Clients, TypeOK', WorkspaceInv' /\ HandleInv',
           /\ cpc[c] \notin Creating /\ cpc'[c] \notin Creating \cup {"unlink"}
           /\ \A d \in Clients \ {c} : cpc'[d] = cpc[d] /\ tgt'[d] = tgt[d],
           /\ \A i \in Inodes : excl[i] \in Servers => excl'[i] = excl[i]
           /\ pidFile # None => pidRec'[pidFile] = pidRec[pidFile]
           /\ UNCHANGED <<sock, pidFile, listener, spc, sfd>>
    PROVE  IInv'
  BY NameFrame DEF IInv

LEMMA ClientPreserves ==
    ASSUME IInv, NEW c \in Clients, ClientStep(c)
    PROVE  IInv'
  \* Steps that leave the name and the servers alone.
  <1>17. CASE OpenLease(c)
    <2>1. CASE lockFile # None
      <3>1. TypeOK'
        BY SMTT(60), <1>17, <2>1, ConstantsAssumption
           DEF OpenLease, OpenCreate, IInv, TypeOK, HandleInv, Goto, ClientPC, files, locks, conns, servers
      <3>2. WorkspaceInv' /\ HandleInv'
        BY SMTT(60), <1>17, <2>1
           DEF OpenLease, OpenCreate, IInv, TypeOK, WorkspaceInv, HandleInv, InWorkspace, Goto, files, locks, conns, servers
      <3>3. /\ cpc[c] \notin Creating /\ cpc'[c] \notin Creating \cup {"unlink"}
            /\ \A d \in Clients \ {c} : cpc'[d] = cpc[d] /\ tgt'[d] = tgt[d]
        BY SMTT(60), <1>17, <2>1
           DEF OpenLease, OpenCreate, IInv, TypeOK, Creating, Unforked, Bound, Goto
      <3>4. /\ \A i \in Inodes : excl[i] \in Servers => excl'[i] = excl[i]
            /\ pidFile # None => pidRec'[pidFile] = pidRec[pidFile]
            /\ UNCHANGED <<sock, pidFile, listener, spc, sfd>>
        BY SMTT(60), <1>17, <2>1, ConstantsAssumption
           DEF OpenLease, OpenCreate, IInv, TypeOK, FreeInodes, Goto, files, locks, conns, servers
      <3> QED BY <3>1, <3>2, <3>3, <3>4, FramedStep
    <2>2. CASE lockFile = None
      <3>1. TypeOK'
        BY SMTT(60), <1>17, <2>2, ConstantsAssumption
           DEF OpenLease, OpenCreate, IInv, TypeOK, HandleInv, Goto, ClientPC, files, locks, conns, servers
      <3>2. WorkspaceInv' /\ HandleInv'
        BY SMTT(60), <1>17, <2>2
           DEF OpenLease, OpenCreate, IInv, TypeOK, WorkspaceInv, HandleInv, InWorkspace, Goto, files, locks, conns, servers
      <3>3. /\ cpc[c] \notin Creating /\ cpc'[c] \notin Creating \cup {"unlink"}
            /\ \A d \in Clients \ {c} : cpc'[d] = cpc[d] /\ tgt'[d] = tgt[d]
        BY SMTT(60), <1>17, <2>2
           DEF OpenLease, OpenCreate, IInv, TypeOK, Creating, Unforked, Bound, Goto
      <3>4. /\ \A i \in Inodes : excl[i] \in Servers => excl'[i] = excl[i]
            /\ pidFile # None => pidRec'[pidFile] = pidRec[pidFile]
            /\ UNCHANGED <<sock, pidFile, listener, spc, sfd>>
        BY SMTT(60), <1>17, <2>2, ConstantsAssumption
           DEF OpenLease, OpenCreate, IInv, TypeOK, FreeInodes, Goto, files, locks, conns, servers
      <3> QED BY <3>1, <3>2, <3>3, <3>4, FramedStep
    <2> QED BY <1>17, <2>1, <2>2 DEF OpenLease, OpenCreate
  <1>18. CASE TakeLease(c)
    <2>1. CASE excl[fd[c]] = None /\ shared[fd[c]] = {}
      <3>1. TypeOK'
        BY SMTT(60), <1>18, <2>1, ConstantsAssumption
           DEF TakeLease, IInv, TypeOK, HandleInv, Goto, ClientPC, files, locks, conns, servers
      <3>2. WorkspaceInv' /\ HandleInv'
        BY SMTT(60), <1>18, <2>1
           DEF TakeLease, IInv, TypeOK, WorkspaceInv, HandleInv, InWorkspace, Goto, files, locks, conns, servers
      <3>3. /\ cpc[c] \notin Creating /\ cpc'[c] \notin Creating \cup {"unlink"}
            /\ \A d \in Clients \ {c} : cpc'[d] = cpc[d] /\ tgt'[d] = tgt[d]
        BY SMTT(60), <1>18, <2>1
           DEF TakeLease, IInv, TypeOK, Creating, Unforked, Bound, Goto
      <3>4. /\ \A i \in Inodes : excl[i] \in Servers => excl'[i] = excl[i]
            /\ pidFile # None => pidRec'[pidFile] = pidRec[pidFile]
            /\ UNCHANGED <<sock, pidFile, listener, spc, sfd>>
        BY SMTT(60), <1>18, <2>1, ConstantsAssumption
           DEF TakeLease, IInv, TypeOK, FreeInodes, Goto, files, locks, conns, servers
      <3> QED BY <3>1, <3>2, <3>3, <3>4, FramedStep
    <2>2. CASE excl[fd[c]] # None \/ shared[fd[c]] # {}
      <3>1. TypeOK'
        BY SMTT(60), <1>18, <2>2, ConstantsAssumption
           DEF TakeLease, IInv, TypeOK, HandleInv, Goto, ClientPC, files, locks, conns, servers
      <3>2. WorkspaceInv' /\ HandleInv'
        BY SMTT(60), <1>18, <2>2
           DEF TakeLease, IInv, TypeOK, WorkspaceInv, HandleInv, InWorkspace, Goto, files, locks, conns, servers
      <3>3. /\ cpc[c] \notin Creating /\ cpc'[c] \notin Creating \cup {"unlink"}
            /\ \A d \in Clients \ {c} : cpc'[d] = cpc[d] /\ tgt'[d] = tgt[d]
        BY SMTT(60), <1>18, <2>2
           DEF TakeLease, IInv, TypeOK, Creating, Unforked, Bound, Goto
      <3>4. /\ \A i \in Inodes : excl[i] \in Servers => excl'[i] = excl[i]
            /\ pidFile # None => pidRec'[pidFile] = pidRec[pidFile]
            /\ UNCHANGED <<sock, pidFile, listener, spc, sfd>>
        BY SMTT(60), <1>18, <2>2, ConstantsAssumption
           DEF TakeLease, IInv, TypeOK, FreeInodes, Goto, files, locks, conns, servers
      <3> QED BY <3>1, <3>2, <3>3, <3>4, FramedStep
    <2> QED BY <1>18, <2>1, <2>2 DEF TakeLease
  <1>19. CASE Connect(c)
    <2>1. CASE Connectable
      <3>1. TypeOK'
        BY SMTT(60), <1>19, <2>1, ConstantsAssumption
           DEF Connect, ConnectTo, IInv, TypeOK, HandleInv, Goto, ClientPC, files, locks, conns, servers
      <3>2. WorkspaceInv' /\ HandleInv'
        BY SMTT(60), <1>19, <2>1
           DEF Connect, ConnectTo, IInv, TypeOK, WorkspaceInv, HandleInv, InWorkspace, Goto, files, locks, conns, servers
      <3>3. /\ cpc[c] \notin Creating /\ cpc'[c] \notin Creating \cup {"unlink"}
            /\ \A d \in Clients \ {c} : cpc'[d] = cpc[d] /\ tgt'[d] = tgt[d]
        BY SMTT(60), <1>19, <2>1
           DEF Connect, ConnectTo, IInv, TypeOK, Creating, Unforked, Bound, Goto
      <3>4. /\ \A i \in Inodes : excl[i] \in Servers => excl'[i] = excl[i]
            /\ pidFile # None => pidRec'[pidFile] = pidRec[pidFile]
            /\ UNCHANGED <<sock, pidFile, listener, spc, sfd>>
        BY SMTT(60), <1>19, <2>1, ConstantsAssumption
           DEF Connect, ConnectTo, IInv, TypeOK, FreeInodes, Goto, files, locks, conns, servers
      <3> QED BY <3>1, <3>2, <3>3, <3>4, FramedStep
    <2>2. CASE Exit(c)
      BY <2>2, ExitStep
    <2> QED BY <1>19, <2>1, <2>2 DEF Connect, ConnectTo
  <1>23. CASE BootConnect(c)
    <2>1. CASE Connectable
      <3>1. TypeOK'
        BY SMTT(60), <1>23, <2>1, ConstantsAssumption
           DEF BootConnect, ConnectTo, IInv, TypeOK, HandleInv, Goto, ClientPC, files, locks, conns, servers
      <3>2. WorkspaceInv' /\ HandleInv'
        BY SMTT(60), <1>23, <2>1
           DEF BootConnect, ConnectTo, IInv, TypeOK, WorkspaceInv, HandleInv, InWorkspace, Goto, files, locks, conns, servers
      <3>3. /\ cpc[c] \notin Creating /\ cpc'[c] \notin Creating \cup {"unlink"}
            /\ \A d \in Clients \ {c} : cpc'[d] = cpc[d] /\ tgt'[d] = tgt[d]
        BY SMTT(60), <1>23, <2>1
           DEF BootConnect, ConnectTo, IInv, TypeOK, Creating, Unforked, Bound, Goto
      <3>4. /\ \A i \in Inodes : excl[i] \in Servers => excl'[i] = excl[i]
            /\ pidFile # None => pidRec'[pidFile] = pidRec[pidFile]
            /\ UNCHANGED <<sock, pidFile, listener, spc, sfd>>
        BY SMTT(60), <1>23, <2>1, ConstantsAssumption
           DEF BootConnect, ConnectTo, IInv, TypeOK, FreeInodes, Goto, files, locks, conns, servers
      <3> QED BY <3>1, <3>2, <3>3, <3>4, FramedStep
    <2>2. CASE Exit(c)
      BY <2>2, ExitStep
    <2> QED BY <1>23, <2>1, <2>2 DEF BootConnect, ConnectTo
  <1>27. CASE OpenPidFile(c)
    <2>1. CASE ~Exit(c) /\ pidFile # None /\ sock # None
      <3>1. TypeOK'
        BY SMTT(60), <1>27, <2>1, ConstantsAssumption
           DEF OpenPidFile, NotRunning, IInv, TypeOK, HandleInv, Goto, ClientPC, files, locks, conns, servers
      <3>2. WorkspaceInv' /\ HandleInv'
        BY SMTT(60), <1>27, <2>1
           DEF OpenPidFile, NotRunning, IInv, TypeOK, WorkspaceInv, HandleInv, InWorkspace, Goto, files, locks, conns, servers
      <3>3. /\ cpc[c] \notin Creating /\ cpc'[c] \notin Creating \cup {"unlink"}
            /\ \A d \in Clients \ {c} : cpc'[d] = cpc[d] /\ tgt'[d] = tgt[d]
        BY SMTT(60), <1>27, <2>1
           DEF OpenPidFile, NotRunning, IInv, TypeOK, Creating, Unforked, Bound, Goto
      <3>4. /\ \A i \in Inodes : excl[i] \in Servers => excl'[i] = excl[i]
            /\ pidFile # None => pidRec'[pidFile] = pidRec[pidFile]
            /\ UNCHANGED <<sock, pidFile, listener, spc, sfd>>
        BY SMTT(60), <1>27, <2>1, ConstantsAssumption
           DEF OpenPidFile, NotRunning, IInv, TypeOK, FreeInodes, Goto, files, locks, conns, servers
      <3> QED BY <3>1, <3>2, <3>3, <3>4, FramedStep
    <2>2. CASE ~Exit(c) /\ (pidFile = None \/ sock = None)
      <3>1. TypeOK'
        BY SMTT(60), <1>27, <2>2, ConstantsAssumption
           DEF OpenPidFile, NotRunning, IInv, TypeOK, HandleInv, Goto, ClientPC, files, locks, conns, servers
      <3>2. WorkspaceInv' /\ HandleInv'
        BY SMTT(60), <1>27, <2>2
           DEF OpenPidFile, NotRunning, IInv, TypeOK, WorkspaceInv, HandleInv, InWorkspace, Goto, files, locks, conns, servers
      <3>3. /\ cpc[c] \notin Creating /\ cpc'[c] \notin Creating \cup {"unlink"}
            /\ \A d \in Clients \ {c} : cpc'[d] = cpc[d] /\ tgt'[d] = tgt[d]
        BY SMTT(60), <1>27, <2>2
           DEF OpenPidFile, NotRunning, IInv, TypeOK, Creating, Unforked, Bound, Goto
      <3>4. /\ \A i \in Inodes : excl[i] \in Servers => excl'[i] = excl[i]
            /\ pidFile # None => pidRec'[pidFile] = pidRec[pidFile]
            /\ UNCHANGED <<sock, pidFile, listener, spc, sfd>>
        BY SMTT(60), <1>27, <2>2, ConstantsAssumption
           DEF OpenPidFile, NotRunning, IInv, TypeOK, FreeInodes, Goto, files, locks, conns, servers
      <3> QED BY <3>1, <3>2, <3>3, <3>4, FramedStep
    <2>3. CASE Exit(c)
      BY <2>3, ExitStep
    <2> QED BY <1>27, <2>1, <2>2, <2>3 DEF OpenPidFile, NotRunning
  <1>28. CASE ProbePidLock(c)
    <2>1. CASE excl[fd[c]] = None
      <3>1. TypeOK'
        BY SMTT(60), <1>28, <2>1, ConstantsAssumption
           DEF ProbePidLock, Moves, IInv, TypeOK, HandleInv, Goto, ClientPC, files, locks, conns, servers
      <3>2. WorkspaceInv' /\ HandleInv'
        BY SMTT(60), <1>28, <2>1
           DEF ProbePidLock, Moves, IInv, TypeOK, WorkspaceInv, HandleInv, InWorkspace, Goto, files, locks, conns, servers
      <3>3. /\ cpc[c] \notin Creating /\ cpc'[c] \notin Creating \cup {"unlink"}
            /\ \A d \in Clients \ {c} : cpc'[d] = cpc[d] /\ tgt'[d] = tgt[d]
        BY SMTT(60), <1>28, <2>1
           DEF ProbePidLock, Moves, IInv, TypeOK, Creating, Unforked, Bound, Goto
      <3>4. /\ \A i \in Inodes : excl[i] \in Servers => excl'[i] = excl[i]
            /\ pidFile # None => pidRec'[pidFile] = pidRec[pidFile]
            /\ UNCHANGED <<sock, pidFile, listener, spc, sfd>>
        BY SMTT(60), <1>28, <2>1, ConstantsAssumption
           DEF ProbePidLock, Moves, IInv, TypeOK, FreeInodes, Goto, files, locks, conns, servers
      <3> QED BY <3>1, <3>2, <3>3, <3>4, FramedStep
    <2>2. CASE excl[fd[c]] # None
      <3>1. TypeOK'
        BY SMTT(60), <1>28, <2>2, ConstantsAssumption
           DEF ProbePidLock, Moves, IInv, TypeOK, HandleInv, Goto, ClientPC, files, locks, conns, servers
      <3>2. WorkspaceInv' /\ HandleInv'
        BY SMTT(60), <1>28, <2>2
           DEF ProbePidLock, Moves, IInv, TypeOK, WorkspaceInv, HandleInv, InWorkspace, Goto, files, locks, conns, servers
      <3>3. /\ cpc[c] \notin Creating /\ cpc'[c] \notin Creating \cup {"unlink"}
            /\ \A d \in Clients \ {c} : cpc'[d] = cpc[d] /\ tgt'[d] = tgt[d]
        BY SMTT(60), <1>28, <2>2
           DEF ProbePidLock, Moves, IInv, TypeOK, Creating, Unforked, Bound, Goto
      <3>4. /\ \A i \in Inodes : excl[i] \in Servers => excl'[i] = excl[i]
            /\ pidFile # None => pidRec'[pidFile] = pidRec[pidFile]
            /\ UNCHANGED <<sock, pidFile, listener, spc, sfd>>
        BY SMTT(60), <1>28, <2>2, ConstantsAssumption
           DEF ProbePidLock, Moves, IInv, TypeOK, FreeInodes, Goto, files, locks, conns, servers
      <3> QED BY <3>1, <3>2, <3>3, <3>4, FramedStep
    <2> QED BY <1>28, <2>1, <2>2 DEF ProbePidLock, Moves
  <1>29. CASE ReleasePidLock(c)
    <2>1. CASE ~Exit(c)
      <3>1. TypeOK'
        BY SMTT(60), <1>29, <2>1, ConstantsAssumption
           DEF ReleasePidLock, NotRunning, IInv, TypeOK, HandleInv, Goto, ClientPC, files, locks, conns, servers
      <3>2. WorkspaceInv' /\ HandleInv'
        BY SMTT(60), <1>29, <2>1
           DEF ReleasePidLock, NotRunning, IInv, TypeOK, WorkspaceInv, HandleInv, InWorkspace, Goto, files, locks, conns, servers
      <3>3. /\ cpc[c] \notin Creating /\ cpc'[c] \notin Creating \cup {"unlink"}
            /\ \A d \in Clients \ {c} : cpc'[d] = cpc[d] /\ tgt'[d] = tgt[d]
        BY SMTT(60), <1>29, <2>1
           DEF ReleasePidLock, NotRunning, IInv, TypeOK, Creating, Unforked, Bound, Goto
      <3>4. /\ \A i \in Inodes : excl[i] \in Servers => excl'[i] = excl[i]
            /\ pidFile # None => pidRec'[pidFile] = pidRec[pidFile]
            /\ UNCHANGED <<sock, pidFile, listener, spc, sfd>>
        BY SMTT(60), <1>29, <2>1, ConstantsAssumption
           DEF ReleasePidLock, NotRunning, IInv, TypeOK, FreeInodes, Goto, files, locks, conns, servers
      <3> QED BY <3>1, <3>2, <3>3, <3>4, FramedStep
    <2>2. CASE Exit(c)
      BY <2>2, ExitStep
    <2> QED BY <1>29, <2>1, <2>2 DEF ReleasePidLock, NotRunning
  <1>31. CASE ReadPid(c)
    <2>1. CASE ~Exit(c) /\ op[c] = "kill"
      <3>1. TypeOK'
        BY SMTT(60), <1>31, <2>1, ConstantsAssumption
           DEF ReadPid, IInv, TypeOK, HandleInv, Goto, ClientPC, files, locks, conns, servers
      <3>2. WorkspaceInv' /\ HandleInv'
        BY SMTT(60), <1>31, <2>1
           DEF ReadPid, IInv, TypeOK, WorkspaceInv, HandleInv, InWorkspace, Goto, files, locks, conns, servers
      <3>3. /\ cpc[c] \notin Creating /\ cpc'[c] \notin Creating \cup {"unlink"}
            /\ \A d \in Clients \ {c} : cpc'[d] = cpc[d] /\ tgt'[d] = tgt[d]
        BY SMTT(60), <1>31, <2>1
           DEF ReadPid, IInv, TypeOK, Creating, Unforked, Bound, Goto
      <3>4. /\ \A i \in Inodes : excl[i] \in Servers => excl'[i] = excl[i]
            /\ pidFile # None => pidRec'[pidFile] = pidRec[pidFile]
            /\ UNCHANGED <<sock, pidFile, listener, spc, sfd>>
        BY SMTT(60), <1>31, <2>1, ConstantsAssumption
           DEF ReadPid, IInv, TypeOK, FreeInodes, Goto, files, locks, conns, servers
      <3> QED BY <3>1, <3>2, <3>3, <3>4, FramedStep
    <2>2. CASE ~Exit(c) /\ op[c] # "kill"
      <3>1. TypeOK'
        BY SMTT(60), <1>31, <2>2, ConstantsAssumption
           DEF ReadPid, IInv, TypeOK, HandleInv, Goto, ClientPC, files, locks, conns, servers
      <3>2. WorkspaceInv' /\ HandleInv'
        BY SMTT(60), <1>31, <2>2
           DEF ReadPid, IInv, TypeOK, WorkspaceInv, HandleInv, InWorkspace, Goto, files, locks, conns, servers
      <3>3. /\ cpc[c] \notin Creating /\ cpc'[c] \notin Creating \cup {"unlink"}
            /\ \A d \in Clients \ {c} : cpc'[d] = cpc[d] /\ tgt'[d] = tgt[d]
        BY SMTT(60), <1>31, <2>2
           DEF ReadPid, IInv, TypeOK, Creating, Unforked, Bound, Goto
      <3>4. /\ \A i \in Inodes : excl[i] \in Servers => excl'[i] = excl[i]
            /\ pidFile # None => pidRec'[pidFile] = pidRec[pidFile]
            /\ UNCHANGED <<sock, pidFile, listener, spc, sfd>>
        BY SMTT(60), <1>31, <2>2, ConstantsAssumption
           DEF ReadPid, IInv, TypeOK, FreeInodes, Goto, files, locks, conns, servers
      <3> QED BY <3>1, <3>2, <3>3, <3>4, FramedStep
    <2>3. CASE Exit(c)
      BY <2>3, ExitStep
    <2> QED BY <1>31, <2>1, <2>2, <2>3 DEF ReadPid
  <1>35. CASE ScanEndpoint(c)
    <2>1. CASE ~Exit(c) /\ lockFile = None
      <3>1. TypeOK'
        BY SMTT(60), <1>35, <2>1, ConstantsAssumption
           DEF ScanEndpoint, Moves, IInv, TypeOK, HandleInv, Goto, ClientPC, files, locks, conns, servers
      <3>2. WorkspaceInv' /\ HandleInv'
        BY SMTT(60), <1>35, <2>1
           DEF ScanEndpoint, Moves, IInv, TypeOK, WorkspaceInv, HandleInv, InWorkspace, Goto, files, locks, conns, servers
      <3>3. /\ cpc[c] \notin Creating /\ cpc'[c] \notin Creating \cup {"unlink"}
            /\ \A d \in Clients \ {c} : cpc'[d] = cpc[d] /\ tgt'[d] = tgt[d]
        BY SMTT(60), <1>35, <2>1
           DEF ScanEndpoint, Moves, IInv, TypeOK, Creating, Unforked, Bound, Goto
      <3>4. /\ \A i \in Inodes : excl[i] \in Servers => excl'[i] = excl[i]
            /\ pidFile # None => pidRec'[pidFile] = pidRec[pidFile]
            /\ UNCHANGED <<sock, pidFile, listener, spc, sfd>>
        BY SMTT(60), <1>35, <2>1, ConstantsAssumption
           DEF ScanEndpoint, Moves, IInv, TypeOK, FreeInodes, Goto, files, locks, conns, servers
      <3> QED BY <3>1, <3>2, <3>3, <3>4, FramedStep
    <2>2. CASE ~Exit(c) /\ lockFile # None
      <3>1. TypeOK'
        BY SMTT(60), <1>35, <2>2, ConstantsAssumption
           DEF ScanEndpoint, Moves, IInv, TypeOK, HandleInv, Goto, ClientPC, files, locks, conns, servers
      <3>2. WorkspaceInv' /\ HandleInv'
        BY SMTT(60), <1>35, <2>2
           DEF ScanEndpoint, Moves, IInv, TypeOK, WorkspaceInv, HandleInv, InWorkspace, Goto, files, locks, conns, servers
      <3>3. /\ cpc[c] \notin Creating /\ cpc'[c] \notin Creating \cup {"unlink"}
            /\ \A d \in Clients \ {c} : cpc'[d] = cpc[d] /\ tgt'[d] = tgt[d]
        BY SMTT(60), <1>35, <2>2
           DEF ScanEndpoint, Moves, IInv, TypeOK, Creating, Unforked, Bound, Goto
      <3>4. /\ \A i \in Inodes : excl[i] \in Servers => excl'[i] = excl[i]
            /\ pidFile # None => pidRec'[pidFile] = pidRec[pidFile]
            /\ UNCHANGED <<sock, pidFile, listener, spc, sfd>>
        BY SMTT(60), <1>35, <2>2, ConstantsAssumption
           DEF ScanEndpoint, Moves, IInv, TypeOK, FreeInodes, Goto, files, locks, conns, servers
      <3> QED BY <3>1, <3>2, <3>3, <3>4, FramedStep
    <2>3. CASE Exit(c)
      BY <2>3, ExitStep
    <2> QED BY <1>35, <2>1, <2>2, <2>3 DEF ScanEndpoint, Moves
  <1>36. CASE ProbeClientLock(c)
    <2>1. CASE excl[fd[c]] = None
      <3>1. TypeOK'
        BY SMTT(60), <1>36, <2>1, ConstantsAssumption
           DEF ProbeClientLock, Moves, IInv, TypeOK, HandleInv, Goto, ClientPC, files, locks, conns, servers
      <3>2. WorkspaceInv' /\ HandleInv'
        BY SMTT(60), <1>36, <2>1
           DEF ProbeClientLock, Moves, IInv, TypeOK, WorkspaceInv, HandleInv, InWorkspace, Goto, files, locks, conns, servers
      <3>3. /\ cpc[c] \notin Creating /\ cpc'[c] \notin Creating \cup {"unlink"}
            /\ \A d \in Clients \ {c} : cpc'[d] = cpc[d] /\ tgt'[d] = tgt[d]
        BY SMTT(60), <1>36, <2>1
           DEF ProbeClientLock, Moves, IInv, TypeOK, Creating, Unforked, Bound, Goto
      <3>4. /\ \A i \in Inodes : excl[i] \in Servers => excl'[i] = excl[i]
            /\ pidFile # None => pidRec'[pidFile] = pidRec[pidFile]
            /\ UNCHANGED <<sock, pidFile, listener, spc, sfd>>
        BY SMTT(60), <1>36, <2>1, ConstantsAssumption
           DEF ProbeClientLock, Moves, IInv, TypeOK, FreeInodes, Goto, files, locks, conns, servers
      <3> QED BY <3>1, <3>2, <3>3, <3>4, FramedStep
    <2>2. CASE excl[fd[c]] # None
      <3>1. TypeOK'
        BY SMTT(60), <1>36, <2>2, ConstantsAssumption
           DEF ProbeClientLock, Moves, IInv, TypeOK, HandleInv, Goto, ClientPC, files, locks, conns, servers
      <3>2. WorkspaceInv' /\ HandleInv'
        BY SMTT(60), <1>36, <2>2
           DEF ProbeClientLock, Moves, IInv, TypeOK, WorkspaceInv, HandleInv, InWorkspace, Goto, files, locks, conns, servers
      <3>3. /\ cpc[c] \notin Creating /\ cpc'[c] \notin Creating \cup {"unlink"}
            /\ \A d \in Clients \ {c} : cpc'[d] = cpc[d] /\ tgt'[d] = tgt[d]
        BY SMTT(60), <1>36, <2>2
           DEF ProbeClientLock, Moves, IInv, TypeOK, Creating, Unforked, Bound, Goto
      <3>4. /\ \A i \in Inodes : excl[i] \in Servers => excl'[i] = excl[i]
            /\ pidFile # None => pidRec'[pidFile] = pidRec[pidFile]
            /\ UNCHANGED <<sock, pidFile, listener, spc, sfd>>
        BY SMTT(60), <1>36, <2>2, ConstantsAssumption
           DEF ProbeClientLock, Moves, IInv, TypeOK, FreeInodes, Goto, files, locks, conns, servers
      <3> QED BY <3>1, <3>2, <3>3, <3>4, FramedStep
    <2> QED BY <1>36, <2>1, <2>2 DEF ProbeClientLock, Moves
  <1>0. ASSUME cpc[c] = "signal", Running(tgt[c]), Die(tgt[c]), Goto(c, "wait")
        PROVE  IInv'
    <2>1. tgt[c] \in Servers BY <1>0 DEF IInv, HandleInv
    <2> QED BY <1>0, <2>1, DieStep
  \* The others.
  <1> USE ConstantsAssumption DEF IInv, TypeOK, WorkspaceInv, HandleInv, ListenerInv, StaleInv, EndpointOwned,
            LeaseInv, InWorkspace, Bound, Unforked, Creating, Recorded, Leased,
            Opened, Owning, Running, Connectable, FreeInodes, Goto, ServerPC, ClientPC,
            files, locks, conns, servers, clients
  <1>1. CASE StartNew(c)
    BY SMTT(60), <1>1, ExitStep DEF StartNew, AcquireWorkspace
  <1>2. CASE LoadSnapshot(c)
    BY SMTT(60), <1>2, ExitStep DEF LoadSnapshot, Moves
  <1>3. CASE ProbeStale(c)
    <2>1. CASE Exit(c) BY <2>1, ExitStep
    <2>2. CASE ~Exit(c)
      <3> USE <1>3, <2>2 DEF ProbeStale, Moves
      <3>1. TypeOK' BY SMTT(60)
      <3>2. WorkspaceInv' /\ HandleInv' BY SMTT(60)
      <3>3. ListenerInv' BY SMTT(60)
      <3>4. StaleInv' BY SMTT(60)
      <3>5. EndpointOwned' /\ LeaseInv' BY SMTT(60)
      <3> QED BY <3>1, <3>2, <3>3, <3>4, <3>5
    <2> QED BY <2>1, <2>2
  <1>4. CASE UnlinkStale(c)
    <2>1. CASE Exit(c) BY <2>1, ExitStep
    <2>2. CASE ~Exit(c)
      <3> USE <1>4, <2>2 DEF UnlinkStale
      <3>1. TypeOK' BY SMTT(60)
      <3>2. WorkspaceInv' /\ HandleInv' BY SMTT(60)
      <3>3. ListenerInv' BY SMTT(60)
      <3>4. StaleInv' BY SMTT(60)
      <3>5. EndpointOwned'
        <4>1. sock # None /\ listener[sock] = {}
          BY ONLY <1>4, <2>2, IInv, c \in Clients DEF UnlinkStale, IInv, StaleInv
        <4>2. \A s \in Servers : Owning(s) => listener[s] # {}
          BY SMTT(60)
        <4> QED BY SMTT(60), <4>1, <4>2
      <3>6. LeaseInv' BY SMTT(60)
      <3> QED BY <3>1, <3>2, <3>3, <3>4, <3>5, <3>6
    <2> QED BY <2>1, <2>2
  <1>5. CASE Bind(c)
    <2>1. CASE sock # None /\ Exit(c)
      BY <2>1, ExitStep
    <2>2. ASSUME NEW s \in Servers, sock = None, spc[s] = "unborn",
                 listener[s] = {}, \A d \in Clients : tgt[d] # s,
                 sock' = s, listener' = [listener EXCEPT ![s] = {c}],
                 tgt' = [tgt EXCEPT ![c] = s]
          PROVE  IInv'
      <3> USE <1>5, <2>2
      <3>1. TypeOK' BY SMTT(60) DEF Bind
      <3>2. WorkspaceInv' /\ HandleInv' BY SMTT(60) DEF Bind
      <3>3. ListenerInv' BY SMTT(60) DEF Bind
      <3>4. StaleInv' BY SMTT(60) DEF Bind
      <3>5. EndpointOwned' BY SMTT(60) DEF Bind
      <3>6. LeaseInv' BY SMTT(60) DEF Bind
      <3> QED BY <3>1, <3>2, <3>3, <3>4, <3>5, <3>6 DEF IInv
    <2> QED BY <1>5, <2>1, <2>2 DEF Bind
  <1>6. CASE CreateLockFile(c)
    BY SMTT(60), <1>6, ExitStep DEF CreateLockFile, OpenCreate
  <1>7. CASE CreatePidFile(c)
    <2> USE <1>7 DEF CreatePidFile, OpenCreate
    <2>1. TypeOK' BY SMTT(60)
    <2>2. WorkspaceInv' /\ HandleInv' BY SMTT(60)
    <2>3. ListenerInv' /\ StaleInv' BY SMTT(60)
    <2>4. EndpointOwned' BY SMTT(60)
    <2>5. LeaseInv' BY SMTT(60)
    <2> QED BY <2>1, <2>2, <2>3, <2>4, <2>5
  <1>8. CASE BindFails(c)
    BY SMTT(60), <1>8, ExitStep DEF BindFails
  <1>9. CASE DropWorkspace(c)
    BY SMTT(60), <1>9, ExitStep DEF DropWorkspace
  <1>10. CASE Fork(c)
    BY SMTT(60), <1>10, ExitStep DEF Fork, SGoto
  <1>11. CASE ForkFails(c)
    BY SMTT(60), <1>11, ExitStep DEF ForkFails, Moves, DropLabel
  <1>12. CASE UndoCreate(c)
    BY SMTT(60), <1>12, ExitStep DEF UndoCreate, Unlink, AfterUnlink
  <1>13. CASE Relinquish(c)
    BY SMTT(60), <1>13, ExitStep DEF Relinquish
  <1>14. CASE StartAttach(c)
    BY SMTT(60), <1>14, ExitStep DEF StartAttach, AcquireWorkspace
  <1>15. CASE AttachAfterCreate(c)
    BY SMTT(60), <1>15, ExitStep DEF AttachAfterCreate, AcquireOrExit, AcquireWorkspace
  <1>16. CASE ValidateSocket(c)
    BY SMTT(60), <1>16, ExitStep DEF ValidateSocket, Moves
  <1>20. CASE RejoinWorkspace(c)
    BY SMTT(60), <1>20, ExitStep DEF RejoinWorkspace, AcquireOrExit, AcquireWorkspace
  <1>21. CASE ReceiveAttached(c)
    BY SMTT(60), <1>21, ExitStep DEF ReceiveAttached, ReadAttached
  <1>22. CASE RecordConnection(c)
    BY SMTT(60), <1>22, ExitStep DEF RecordConnection
  <1>24. CASE BootDetach(c)
    BY SMTT(60), <1>24, ExitStep DEF BootDetach, ReadAttached
  <1>25. CASE BootFinish(c)
    BY SMTT(60), <1>25, ExitStep DEF BootFinish
  <1>26. CASE StartProbe(c)
    BY SMTT(60), <1>26, ExitStep DEF StartProbe
  <1>30. CASE CreateMissing(c)
    BY SMTT(60), <1>30, ExitStep DEF CreateMissing, AcquireOrExit, AcquireWorkspace
  <1>32. CASE SendSignal(c)
    <2>1. CASE Exit(c)
      BY <2>1, ExitStep
    <2>2. CASE Running(tgt[c]) /\ armed[tgt[c]] /\ sig' = [sig EXCEPT ![tgt[c]] = TRUE]
      BY SMTT(60), <1>32, <2>2 DEF SendSignal
    <2>3. CASE Running(tgt[c]) /\ Die(tgt[c]) /\ Goto(c, "wait")
      BY <1>0, <1>32, <2>3 DEF SendSignal
    <2>4. CASE Moves(c, "wait")
      BY SMTT(60), <1>32, <2>4 DEF SendSignal, Moves
    <2> QED BY <1>32, <2>1, <2>2, <2>3, <2>4 DEF SendSignal
  <1>33. CASE WaitForCleanup(c)
    BY SMTT(60), <1>33, ExitStep DEF WaitForCleanup, Moves
  <1>34. CASE StartList(c)
    BY SMTT(60), <1>34, ExitStep DEF StartList
  <1>37. CASE ProbeConnect(c)
    BY SMTT(60), <1>37, ExitStep DEF ProbeConnect
  <1>38. CASE StartDelete(c)
    BY SMTT(60), <1>38, ExitStep DEF StartDelete, AcquireWorkspace
  <1>39. CASE CheckNoEndpoint(c)
    BY SMTT(60), <1>39, ExitStep DEF CheckNoEndpoint, Moves
  <1>40. CASE EraseSnapshot(c)
    BY <1>40, ReleaseStep DEF EraseSnapshot
  <1>41. CASE Leave(c)
    BY SMTT(60), <1>41, ExitStep DEF Leave
  <1> QED BY <1>1, <1>2, <1>3, <1>4, <1>5, <1>6, <1>7, <1>8, <1>9, <1>10, <1>11, <1>12, <1>13, <1>14, <1>15, <1>16, <1>17, <1>18, <1>19, <1>20, <1>21, <1>22, <1>23, <1>24, <1>25, <1>26, <1>27, <1>28, <1>29, <1>30, <1>31, <1>32, <1>33, <1>34, <1>35, <1>36, <1>37, <1>38, <1>39, <1>40, <1>41 DEF ClientStep

LEMMA ServerPreserves ==
    ASSUME IInv, NEW s \in Servers, ServerStep(s)
    PROVE  IInv'
  <1> USE ConstantsAssumption DEF IInv, TypeOK, WorkspaceInv, HandleInv, ListenerInv, StaleInv, EndpointOwned,
            LeaseInv, InWorkspace, Bound, Unforked, Creating, Recorded, Leased,
            Opened, Owning, Running, Connectable, FreeInodes, Goto, ServerPC, ClientPC,
            files, locks, conns, servers, clients
  <1>1. CASE ServerOpenPid(s)
    BY SMTT(60), <1>1 DEF ServerOpenPid, OpenCreate
  <1>2. CASE ServerTakeLease(s)
    <2> USE <1>2 DEF ServerTakeLease, SGoto
    <2>1. TypeOK' BY SMTT(60)
    <2>2. WorkspaceInv' /\ HandleInv' BY SMTT(60)
    <2>3. ListenerInv' /\ StaleInv' BY SMTT(60)
    <2>4. EndpointOwned' BY SMTT(60)
    <2>5. LeaseInv' BY SMTT(60)
    <2> QED BY <2>1, <2>2, <2>3, <2>4, <2>5
  <1>3. CASE ServerTruncatePid(s)
    BY SMTT(60), <1>3 DEF ServerTruncatePid, SGoto
  <1>4. CASE ServerWritePid(s)
    BY SMTT(60), <1>4 DEF ServerWritePid, SGoto
  <1>5. CASE Accept(s)
    BY SMTT(60), <1>5 DEF Accept, SGoto
  <1>6. CASE Greet(s)
    BY SMTT(60), <1>6 DEF Greet, SGoto
  <1>7. CASE GreetFails(s)
    BY SMTT(60), <1>7 DEF GreetFails, Hangup, SGoto
  <1>8. CASE Setup(s)
    <2>1. CASE /\ spc' = [spc EXCEPT ![s] = "attached"]
               /\ armed' = [armed EXCEPT ![s] = TRUE]
               /\ UNCHANGED <<files, locks, conns, sfd, sig, clients>>
      <3>1. spc[s] \in Recorded /\ "attached" \in Recorded BY <1>8 DEF Setup
      <3>2. /\ armed' \in [Servers -> BOOLEAN] /\ saved' \in BOOLEAN
            /\ peer' \in [Servers -> Clients \cup {None, Gone}]
        BY <2>1
      <3> QED BY ONLY <2>1, <3>1, <3>2, IInv, s \in Servers, ServingStep
            DEF files, locks, conns, clients
    <2>2. CASE Hangup(s, "unlease") /\ UNCHANGED files
      <3>1. spc[s] \in Recorded /\ "unlease" \in Recorded BY <1>8 DEF Setup
      <3>2. /\ armed' \in [Servers -> BOOLEAN] /\ saved' \in BOOLEAN
            /\ peer' \in [Servers -> Clients \cup {None, Gone}]
        BY <2>2 DEF Hangup, SGoto
      <3> QED BY ONLY <2>2, <3>1, <3>2, IInv, s \in Servers, ServingStep
            DEF files, locks, clients, Hangup, SGoto
    <2> QED BY <1>8, <2>1, <2>2 DEF Setup
  <1>9. CASE Detach(s)
    <2>1. spc[s] \in Recorded /\ "detached" \in Recorded BY <1>9 DEF Detach
    <2>2. /\ armed' \in [Servers -> BOOLEAN] /\ saved' \in BOOLEAN
          /\ peer' \in [Servers -> Clients \cup {None, Gone}]
      BY <1>9 DEF Detach, Hangup, SGoto
    <2> QED BY ONLY <1>9, <2>1, <2>2, IInv, s \in Servers, ServingStep
          DEF Detach, Hangup, SGoto, locks, clients
  <1>10. CASE Save(s)
    BY SMTT(60), <1>10 DEF Save
  <1>11. CASE Stop(s)
    BY SMTT(60), <1>11 DEF Stop, Hangup, SGoto
  <1>12. CASE Finish(s)
    <2>1. spc[s] \in Recorded /\ "unlease" \in Recorded BY <1>12 DEF Finish
    <2>2. /\ armed' \in [Servers -> BOOLEAN] /\ saved' \in BOOLEAN
          /\ peer' \in [Servers -> Clients \cup {None, Gone}]
      BY <1>12 DEF Finish, SGoto
    <2> QED BY ONLY <1>12, <2>1, <2>2, IInv, s \in Servers, ServingStep
          DEF Finish, SGoto, locks, conns, clients
  <1>13. CASE ReleaseLease(s)
    BY SMTT(60), <1>13 DEF ReleaseLease
  <1>14. CASE DropEndpoint(s)
    BY SMTT(60), <1>14 DEF DropEndpoint, DropLabel
  <1>15. CASE RemoveFiles(s)
    BY SMTT(60), <1>15 DEF RemoveFiles, Unlink, AfterUnlink, SGoto
  <1>16. CASE ServerExit(s)
    BY <1>16, DieStep DEF ServerExit
  <1>17. CASE Crash(s)
    BY <1>17, DieStep DEF Crash
  <1> QED BY <1>1, <1>2, <1>3, <1>4, <1>5, <1>6, <1>7, <1>8, <1>9, <1>10, <1>11, <1>12, <1>13, <1>14, <1>15, <1>16, <1>17 DEF ServerStep

LEMMA Initially == Init => IInv
  BY SMTT(60), ConstantsAssumption
     DEF Init, IInv, TypeOK, WorkspaceInv, HandleInv, ListenerInv, StaleInv,
         EndpointOwned, LeaseInv, InWorkspace, Bound, Unforked, Creating,
         Recorded, Leased, Opened, Owning, Running, ServerPC, ClientPC

LEMMA Stutter == IInv /\ UNCHANGED vars => IInv'
  BY DEF vars, files, locks, conns, servers, clients, IInv, TypeOK,
         WorkspaceInv, HandleInv, ListenerInv, StaleInv, EndpointOwned, LeaseInv,
         Owning, Running

LEMMA Inductive == IInv /\ [Next]_vars => IInv'
  BY ClientPreserves, ServerPreserves, Stutter DEF Next

\* Every reachable state satisfies the inductive invariant.
THEOREM Invariance == Spec => []IInv
  BY Initially, Inductive, PTL DEF Spec

\* The variables keep their types: files name inodes, descriptors and pid
\* records belong to processes of the instance.
THEOREM TypeCorrect == Spec => []TypeOK
  BY Invariance, PTL DEF IInv

\* A live endpoint is never replaced (remove_stale_socket, bind, Drop): from
\* bind to the owner's own unlink NAME.sock names its socket.
THEOREM EndpointIsOwned == Spec => []EndpointOwned
  BY Invariance, PTL DEF IInv

\* Every server that accepts clients is found through NAME.pid: it holds the
\* lock of that file, which contains its process id (acquire_server, Drop).
THEOREM LeaseIsReachable == Spec => []LeaseReachable
  <1>1. IInv => LeaseReachable
    BY DEF IInv, LeaseInv, LeaseReachable, Recorded, Leased, Opened
  <1> QED BY <1>1, Invariance, PTL

-----------------------------------------------------------------------------
(* Records, kills and deletions.                                           *)

\* A connection belongs to its client's present attachment, and waits in one
\* place: in the backlog, then at the server, which alone greets it.
Connected == {"rejoin", "hello", "record", "attached", "boot_hello", "boot_detach"}

ConnInv ==
    \A c \in Clients :
        /\ \A s \in Servers :
             /\ c \in backlog[s] =>
                  tgt[c] = s /\ cpc[c] \in {"rejoin", "hello", "boot_hello"}
             /\ peer[s] = c =>
                  tgt[c] = s /\ cpc[c] \in Connected /\ c \notin backlog[s]
        /\ c \in greeted =>
             /\ cpc[c] \in {"hello", "boot_hello"}
             /\ \A s \in Servers : c \notin backlog[s]

\* A client that has been greeted and holds the workspace lock records the
\* server that the path still names, unless it names none.
Recording(c) == cpc[c] = "record" \/ (cpc[c] = "hello" /\ c \in greeted)

RecordInv == \A c \in Clients : Recording(c) => sock \in {None, tgt[c]}

\* From the removal of the old connection record to the end of the server.
Settled(s) ==
    \/ spc[s] \notin {"unborn", "exit", "dead"}
    \/ \E c \in Clients : cpc[c] \in {"unlock", "fork"} /\ tgt[c] = s

LastInv == \A s \in Servers : Settled(s) => lastOf \in {None, s}

\* A server that was signalled has been forked, and has gone before "killed".
KillInv ==
    \A c \in Clients :
        /\ cpc[c] \in {"wait", "killed"} => tgt[c] \in Servers /\ spc[tgt[c]] # "unborn"
        /\ cpc[c] = "killed" => spc[tgt[c]] \in {"exit", "dead"}

\* The workspace lock keeps the name free between the check and the deletion.
EraseInv == \A c \in Clients : cpc[c] = "erase" => sock = None

NameInv == ConnInv /\ RecordInv /\ LastInv /\ KillInv /\ EraseInv

\* What a step of command c can do to the name, and to itself.
Effect(c) ==
    /\ \A d \in Clients \ {c} : cpc'[d] = cpc[d] /\ tgt'[d] = tgt[d]
    /\ cpc'[c] \in {"wait", "killed"} => SendSignal(c) \/ WaitForCleanup(c)
    /\ cpc'[c] = "erase" => CheckNoEndpoint(c)
    /\ cpc'[c] = "record" => ReceiveAttached(c)
    /\ cpc'[c] = "hello" => RejoinWorkspace(c)
    /\ cpc'[c] \in {"unlock", "fork"} => CreatePidFile(c) \/ DropWorkspace(c)
    /\ sock' \in {sock, None} \/ Bind(c)
    /\ lastOf' \in {lastOf, None} \/ RecordConnection(c)
    /\ spc' = spc \/ Fork(c) \/ SendSignal(c)
    /\ saved' = saved \/ EraseSnapshot(c)
    /\ greeted' \subseteq greeted

\* A command moves alone; the labels and files that matter here change only in
\* the actions that are named.
LEMMA ClientEffect ==
    ASSUME IInv, NEW c \in Clients, ClientStep(c)
    PROVE  Effect(c)
  <1> USE ConstantsAssumption DEF IInv, TypeOK, Effect, Goto, Moves, Connectable, files, locks, conns, servers, clients
  <1>r. CASE Exit(c) \/ EraseSnapshot(c) \/ Leave(c)
    BY SMTT(60), <1>r DEF Exit, EraseSnapshot, Leave, Release
  <1>0. SUFFICES ASSUME ~Exit(c) PROVE Effect(c)
    BY <1>r
  <1>1. CASE StartNew(c) \/ LoadSnapshot(c) \/ ProbeStale(c) \/ UnlinkStale(c)
    BY SMTT(60), <1>0, <1>1 DEF StartNew, LoadSnapshot, ProbeStale, UnlinkStale, AcquireWorkspace
  <1>2. CASE Bind(c) \/ CreateLockFile(c) \/ CreatePidFile(c) \/ BindFails(c)
    BY SMTT(60), <1>0, <1>2 DEF Bind, CreateLockFile, CreatePidFile, BindFails, OpenCreate
  <1>3. CASE DropWorkspace(c) \/ Fork(c) \/ Relinquish(c)
    BY SMTT(60), <1>0, <1>3 DEF DropWorkspace, Fork, Relinquish
  <1>4. CASE ForkFails(c) \/ UndoCreate(c)
    BY SMTT(60), <1>0, <1>4 DEF ForkFails, UndoCreate, Unlink, DropLabel, AfterUnlink
  <1>5. CASE StartAttach(c) \/ AttachAfterCreate(c) \/ ValidateSocket(c)
    BY SMTT(60), <1>0, <1>5 DEF StartAttach, AttachAfterCreate, ValidateSocket, AcquireWorkspace, AcquireOrExit
  <1>6. CASE OpenLease(c) \/ TakeLease(c)
    BY SMTT(60), <1>0, <1>6 DEF OpenLease, TakeLease, OpenCreate
  <1>7. CASE Connect(c) \/ BootConnect(c)
    BY SMTT(60), <1>0, <1>7 DEF Connect, BootConnect, ConnectTo
  <1>8. CASE RejoinWorkspace(c)
    BY SMTT(60), <1>0, <1>8 DEF RejoinWorkspace, AcquireWorkspace, AcquireOrExit
  <1>9. CASE ReceiveAttached(c) \/ BootDetach(c)
    BY SMTT(60), <1>0, <1>9 DEF ReceiveAttached, BootDetach, ReadAttached
  <1>10. CASE RecordConnection(c) \/ BootFinish(c)
    BY SMTT(60), <1>0, <1>10 DEF RecordConnection, BootFinish
  <1>11. CASE StartProbe(c) \/ OpenPidFile(c) \/ ProbePidLock(c) \/ ReleasePidLock(c)
    BY SMTT(60), <1>0, <1>11 DEF StartProbe, OpenPidFile, ProbePidLock, ReleasePidLock, NotRunning
  <1>12. CASE CreateMissing(c) \/ ReadPid(c)
    BY SMTT(60), <1>0, <1>12 DEF CreateMissing, ReadPid, AcquireWorkspace, AcquireOrExit
  <1>13. CASE SendSignal(c) \/ WaitForCleanup(c)
    BY SMTT(60), <1>0, <1>13 DEF SendSignal, WaitForCleanup, Die
  <1>14. CASE StartList(c) \/ ScanEndpoint(c) \/ ProbeClientLock(c) \/ ProbeConnect(c)
    BY SMTT(60), <1>0, <1>14 DEF StartList, ScanEndpoint, ProbeClientLock, ProbeConnect
  <1>15. CASE StartDelete(c) \/ CheckNoEndpoint(c)
    BY SMTT(60), <1>0, <1>15 DEF StartDelete, CheckNoEndpoint, AcquireWorkspace
  <1> QED
    BY <1>r, <1>1, <1>2, <1>3, <1>4, <1>5, <1>6, <1>7, <1>8, <1>9, <1>10, <1>11, <1>12, <1>13, <1>14, <1>15 DEF ClientStep

\* What a command does to connections.
LEMMA ClientConns ==
    ASSUME IInv, ConnInv, NEW c \in Clients, ClientStep(c)
    PROVE  ConnInv'
  <1> USE ConstantsAssumption DEF IInv, TypeOK, ConnInv, Connected, Goto, Moves, Connectable, files, locks, conns, servers, clients
  <1>r. CASE Exit(c) \/ EraseSnapshot(c) \/ Leave(c)
    BY SMTT(60), <1>r DEF Exit, EraseSnapshot, Leave, Release
  <1>0. SUFFICES ASSUME ~Exit(c) PROVE ConnInv'
    BY <1>r
  <1>1. CASE StartNew(c) \/ LoadSnapshot(c) \/ ProbeStale(c) \/ UnlinkStale(c)
    BY SMTT(60), <1>0, <1>1 DEF StartNew, LoadSnapshot, ProbeStale, UnlinkStale, AcquireWorkspace
  <1>2. CASE Bind(c) \/ CreateLockFile(c) \/ CreatePidFile(c) \/ BindFails(c)
    BY SMTT(60), <1>0, <1>2 DEF Bind, CreateLockFile, CreatePidFile, BindFails, OpenCreate
  <1>3. CASE DropWorkspace(c) \/ Fork(c) \/ Relinquish(c)
    BY SMTT(60), <1>0, <1>3 DEF DropWorkspace, Fork, Relinquish
  <1>4. CASE ForkFails(c) \/ UndoCreate(c)
    BY SMTT(60), <1>0, <1>4 DEF ForkFails, UndoCreate, Unlink, DropLabel, AfterUnlink
  <1>5. CASE StartAttach(c) \/ AttachAfterCreate(c) \/ ValidateSocket(c)
    BY SMTT(60), <1>0, <1>5 DEF StartAttach, AttachAfterCreate, ValidateSocket, AcquireWorkspace, AcquireOrExit
  <1>6. CASE OpenLease(c) \/ TakeLease(c)
    BY SMTT(60), <1>0, <1>6 DEF OpenLease, TakeLease, OpenCreate
  <1>7. CASE Connect(c) \/ BootConnect(c)
    BY SMTT(60), <1>0, <1>7 DEF Connect, BootConnect, ConnectTo
  <1>8. CASE RejoinWorkspace(c)
    BY SMTT(60), <1>0, <1>8 DEF RejoinWorkspace, AcquireWorkspace, AcquireOrExit
  <1>9. CASE ReceiveAttached(c) \/ BootDetach(c)
    BY SMTT(60), <1>0, <1>9 DEF ReceiveAttached, BootDetach, ReadAttached
  <1>10. CASE RecordConnection(c) \/ BootFinish(c)
    BY SMTT(60), <1>0, <1>10 DEF RecordConnection, BootFinish
  <1>11. CASE StartProbe(c) \/ OpenPidFile(c) \/ ProbePidLock(c) \/ ReleasePidLock(c)
    BY SMTT(60), <1>0, <1>11 DEF StartProbe, OpenPidFile, ProbePidLock, ReleasePidLock, NotRunning
  <1>12. CASE CreateMissing(c) \/ ReadPid(c)
    BY SMTT(60), <1>0, <1>12 DEF CreateMissing, ReadPid, AcquireWorkspace, AcquireOrExit
  <1>13. CASE SendSignal(c) \/ WaitForCleanup(c)
    BY SMTT(60), <1>0, <1>13 DEF SendSignal, WaitForCleanup, Die
  <1>14. CASE StartList(c) \/ ScanEndpoint(c) \/ ProbeClientLock(c) \/ ProbeConnect(c)
    BY SMTT(60), <1>0, <1>14 DEF StartList, ScanEndpoint, ProbeClientLock, ProbeConnect
  <1>15. CASE StartDelete(c) \/ CheckNoEndpoint(c)
    BY SMTT(60), <1>0, <1>15 DEF StartDelete, CheckNoEndpoint, AcquireWorkspace
  <1> QED
    BY <1>r, <1>1, <1>2, <1>3, <1>4, <1>5, <1>6, <1>7, <1>8, <1>9, <1>10, <1>11, <1>12, <1>13, <1>14, <1>15 DEF ClientStep

\* What a step of a server can do to the name, and to itself.
LEMMA ServerEffect ==
    ASSUME IInv, NEW s \in Servers, ServerStep(s)
    PROVE  /\ UNCHANGED <<cpc, tgt>>
           /\ sock' \in {sock, None} /\ lastOf' \in {lastOf, None}
           /\ saved => saved'
           /\ greeted' = greeted \/ Greet(s)
           /\ \A t \in Servers :
                /\ spc'[t] = "unborn" <=> spc[t] = "unborn"
                /\ spc[t] \in {"exit", "dead"} => spc'[t] \in {"exit", "dead"}
  <1> USE ConstantsAssumption DEF IInv, TypeOK, SGoto, Hangup, Running, files, locks, conns, servers, clients
  <1>1. CASE ServerOpenPid(s) \/ ServerTakeLease(s) \/ ServerTruncatePid(s) \/ ServerWritePid(s)
    BY SMTT(60), <1>1 DEF ServerOpenPid, ServerTakeLease, ServerTruncatePid, ServerWritePid
  <1>2. CASE Accept(s) \/ Greet(s) \/ GreetFails(s) \/ Setup(s)
    BY SMTT(60), <1>2 DEF Accept, Greet, GreetFails, Setup
  <1>3. CASE Save(s) \/ Stop(s)
    BY SMTT(60), <1>3 DEF Save, Stop
  <1>6. CASE Detach(s) \/ Finish(s)
    <2>1. saved => saved'
      BY ONLY Zenon, <1>6 DEF Detach, Finish
    <2>2. /\ UNCHANGED <<cpc, tgt, sock, lastOf, greeted>>
          /\ spc[s] \in {"attached", "finish"}
          /\ \E l \in {"detached", "unlease"} : spc' = [spc EXCEPT ![s] = l]
      BY ONLY Zenon, <1>6 DEF Detach, Finish, SGoto, Hangup, conns, clients
    <2>3. spc \in [Servers -> ServerPC]
      BY DEF IInv, TypeOK
    <2> QED BY ONLY SMT, s \in Servers, <2>1, <2>2, <2>3
  <1>4. CASE ReleaseLease(s) \/ DropEndpoint(s) \/ RemoveFiles(s)
    BY SMTT(60), <1>4 DEF ReleaseLease, DropEndpoint, DropLabel, RemoveFiles, Unlink, AfterUnlink
  <1>5. CASE ServerExit(s) \/ Crash(s)
    BY SMTT(60), <1>5 DEF ServerExit, Crash, Die
  <1> QED BY <1>1, <1>2, <1>3, <1>4, <1>5, <1>6 DEF ServerStep

\* What a server does to connections.
LEMMA ServerConns ==
    ASSUME IInv, ConnInv, NEW s \in Servers, ServerStep(s)
    PROVE  ConnInv'
  <1> USE ConstantsAssumption DEF IInv, TypeOK, ConnInv, Connected, SGoto, Hangup, locks, conns, servers, clients
  <1>1. CASE ServerOpenPid(s) \/ ServerTakeLease(s) \/ ServerTruncatePid(s) \/ ServerWritePid(s)
    BY SMTT(60), <1>1 DEF ServerOpenPid, ServerTakeLease, ServerTruncatePid, ServerWritePid
  <1>2. CASE Accept(s)
    BY SMTT(60), <1>2 DEF Accept
  <1>3. CASE Greet(s)
    BY SMTT(60), <1>3 DEF Greet
  <1>4. CASE \/ GreetFails(s) \/ Setup(s) \/ Detach(s) \/ Save(s) \/ Stop(s)
             \/ Finish(s) \/ ReleaseLease(s) \/ DropEndpoint(s) \/ RemoveFiles(s)
    <2>1. /\ UNCHANGED <<cpc, tgt, backlog, greeted>>
          /\ peer' = peer \/ peer' = [peer EXCEPT ![s] = None]
      BY ONLY Zenon, <1>4 DEF GreetFails, Setup, Detach, Save, Stop, Finish, ReleaseLease,
                             DropEndpoint, RemoveFiles, Hangup, conns, clients
    <2>2. peer \in [Servers -> Clients \cup {None, Gone}] /\ None \notin Clients
      BY ONLY IInv, ConstantsAssumption DEF IInv, TypeOK, ConstantsAssumption
    <2> QED BY ONLY SMT, s \in Servers, <2>1, <2>2, ConnInv DEF ConnInv, Connected
  <1>6. CASE ServerExit(s) \/ Crash(s)
    BY SMTT(60), <1>6 DEF ServerExit, Crash, Die
  <1> QED BY <1>1, <1>2, <1>3, <1>4, <1>6 DEF ServerStep

\* A server that is settled owns the name, so the path names its socket.
LEMMA SettledOwns ==
    ASSUME IInv, NEW s \in Servers, Settled(s)
    PROVE  sock = s
  BY DEF IInv, EndpointOwned, Owning, Settled, Bound

LEMMA ClientKeepsName ==
    ASSUME IInv, NameInv, NEW c \in Clients, ClientStep(c)
    PROVE  NameInv'
  <1>0. Effect(c) /\ ConnInv'
    BY ClientEffect, ClientConns DEF NameInv
  <1>t. /\ cpc \in [Clients -> ClientPC] /\ tgt \in [Clients -> Servers \cup {None}]
        /\ spc \in [Servers -> ServerPC]
        /\ workspace \in Clients \cup {None} /\ None \notin Clients \cup Servers
    BY ConstantsAssumption DEF IInv, TypeOK
  \* A bind holds the workspace lock, and so does whoever records or deletes.
  <1>1. ASSUME Bind(c), NEW d \in Clients, cpc[d] \in {"hello", "record", "erase"} PROVE FALSE
    BY <1>1, <1>t DEF Bind, IInv, WorkspaceInv, InWorkspace
  <1>2. RecordInv'
    <2> SUFFICES ASSUME NEW d \in Clients, Recording(d)' PROVE sock' \in {None, tgt'[d]}
      BY DEF RecordInv
    <2>1. Recording(d) /\ tgt'[d] = tgt[d]
      <3>1. CASE d # c
        BY <1>0, <3>1 DEF Effect, Recording
      <3>2. CASE d = c /\ cpc'[c] = "record"
        BY <1>0, <1>t, <3>2 DEF Effect, Recording, ReceiveAttached, ReadAttached, Goto
      <3>3. CASE d = c /\ cpc'[c] = "hello" /\ c \in greeted'
        <4>1. cpc[c] = "rejoin" /\ c \in greeted
          BY <1>0, <3>3 DEF Effect, RejoinWorkspace
        <4> QED BY <4>1 DEF NameInv, ConnInv
      <3> QED BY <3>1, <3>2, <3>3 DEF Recording
    <2>2. sock' \in {sock, None}
      BY <1>0, <1>1, <2>1 DEF Effect, Recording
    <2> QED BY <2>1, <2>2 DEF NameInv, RecordInv
  <1>3. LastInv'
    <2> SUFFICES ASSUME NEW s \in Servers, Settled(s)', lastOf' # None PROVE lastOf' = s
      BY DEF LastInv
    <2>1. ASSUME CreatePidFile(c) PROVE FALSE
      BY <2>1 DEF CreatePidFile
    <2>2. Settled(s)
      <3>1. CASE spc'[s] \notin {"unborn", "exit", "dead"}
        <4>1. CASE spc' = spc
          BY <3>1, <4>1 DEF Settled
        <4>2. CASE Fork(c)
          BY <1>t, <3>1, <4>2 DEF Fork, SGoto, Settled
        <4>3. CASE SendSignal(c)
          BY <1>t, <3>1, <4>3
             DEF SendSignal, Die, Moves, Exit, Release, servers, Settled
        <4> QED BY <1>0, <4>1, <4>2, <4>3 DEF Effect
      <3>2. ASSUME NEW d \in Clients, cpc'[d] \in {"unlock", "fork"}, tgt'[d] = s
            PROVE  Settled(s)
        <4>1. CASE d # c
          BY <1>0, <3>2, <4>1 DEF Effect, Settled
        <4>2. CASE d = c
          BY <1>0, <1>t, <2>1, <3>2, <4>2 DEF Effect, DropWorkspace, Goto, Settled
        <4> QED BY <4>1, <4>2
      <3> QED BY <3>1, <3>2 DEF Settled
    <2>3. CASE lastOf' = lastOf
      BY <2>2, <2>3 DEF NameInv, LastInv
    <2>4. CASE RecordConnection(c)
      <3>1. CASE sock # None /\ cpc[c] = "record" /\ lastOf' = tgt[c]
        BY <2>2, <3>1, SettledOwns DEF NameInv, RecordInv, Recording
      <3> QED BY <2>3, <2>4, <3>1 DEF RecordConnection, Exit, files
    <2> QED BY <1>0, <2>3, <2>4 DEF Effect
  <1>4. KillInv'
    <2>1. \A t \in Servers :
            /\ spc'[t] = "unborn" => spc[t] = "unborn"
            /\ spc[t] \in {"exit", "dead"} => spc'[t] \in {"exit", "dead"}
      <3>1. CASE Fork(c)
        BY <1>t, <3>1 DEF Fork, SGoto, IInv, ListenerInv, Creating, Unforked, Bound
      <3>2. CASE SendSignal(c)
        BY <1>t, <3>2 DEF SendSignal, Die, Moves, Exit, Release, servers
      <3> QED BY <1>0, <3>1, <3>2 DEF Effect
    <2> SUFFICES ASSUME NEW d \in Clients, cpc'[d] \in {"wait", "killed"}
                 PROVE  /\ tgt'[d] \in Servers /\ spc'[tgt'[d]] # "unborn"
                        /\ cpc'[d] = "killed" => spc'[tgt'[d]] \in {"exit", "dead"}
      BY DEF KillInv
    <2>2. CASE d # c
      BY <1>0, <2>1, <2>2 DEF Effect, NameInv, KillInv
    <2>3. CASE d = c /\ SendSignal(c)
      <3>1. tgt[c] \in Servers /\ Running(tgt[c]) /\ tgt'[c] = tgt[c] /\ cpc'[c] = "wait"
        BY <1>t, <2>3
           DEF SendSignal, Moves, Goto, Exit, Release, IInv, HandleInv
      <3> QED BY <2>1, <2>3, <3>1 DEF Running
    <2>4. CASE d = c /\ WaitForCleanup(c)
      <3>1. sock = None /\ cpc[c] = "wait" /\ tgt'[c] = tgt[c]
        BY <1>t, <2>4 DEF WaitForCleanup, Moves, Goto, Exit, Release
      <3>2. tgt[c] \in Servers /\ spc[tgt[c]] # "unborn"
        BY <3>1 DEF NameInv, KillInv
      <3>3. spc[tgt[c]] \in {"exit", "dead"}
        BY <1>t, <3>1, <3>2 DEF IInv, EndpointOwned, Owning
      <3> QED BY <2>1, <2>4, <3>1, <3>2, <3>3
    <2> QED BY <1>0, <2>2, <2>3, <2>4 DEF Effect
  <1>5. EraseInv'
    <2> SUFFICES ASSUME NEW d \in Clients, cpc'[d] = "erase" PROVE sock' = None
      BY DEF EraseInv
    <2>1. CASE d # c
      BY <1>0, <1>1, <2>1 DEF Effect, NameInv, EraseInv
    <2>2. CASE d = c
      BY <1>0, <1>t, <2>2
         DEF Effect, CheckNoEndpoint, Moves, Exit, Release, files
    <2> QED BY <2>1, <2>2
  <1> QED BY <1>0, <1>2, <1>3, <1>4, <1>5 DEF NameInv

LEMMA ServerKeepsName ==
    ASSUME IInv, NameInv, NEW s \in Servers, ServerStep(s)
    PROVE  NameInv'
  <1> USE ServerEffect
  <1>t. /\ cpc \in [Clients -> ClientPC] /\ tgt \in [Clients -> Servers \cup {None}]
        /\ spc \in [Servers -> ServerPC] /\ spc' \in [Servers -> ServerPC]
    <2>1. IInv'
      BY ServerPreserves
    <2> QED BY <2>1 DEF IInv, TypeOK
  <1>1. ConnInv'
    BY ServerConns DEF NameInv
  <1>2. RecordInv'
    <2> SUFFICES ASSUME NEW d \in Clients, Recording(d)' PROVE sock' \in {None, tgt'[d]}
      BY DEF RecordInv
    <2>1. CASE Recording(d)
      BY <2>1 DEF NameInv, RecordInv
    <2>2. CASE Greet(s) /\ d = peer[s]
      <3>1. sock = s
        BY <2>2 DEF Greet, IInv, EndpointOwned, Owning
      <3> QED BY <2>2, <3>1 DEF NameInv, ConnInv
    <2> QED BY <2>1, <2>2 DEF Recording, Greet
  <1>3. LastInv'
    <2>1. \A t \in Servers : Settled(t)' => Settled(t)
      BY <1>t DEF Settled
    <2> QED BY <2>1 DEF NameInv, LastInv
  <1>4. KillInv' /\ EraseInv'
    BY DEF NameInv, KillInv, EraseInv
  <1> QED BY <1>1, <1>2, <1>3, <1>4 DEF NameInv

LEMMA NameInductive == IInv /\ NameInv /\ [Next]_vars => NameInv'
  <1>1. ASSUME NameInv, UNCHANGED vars PROVE NameInv'
    BY <1>1 DEF vars, files, conns, servers, clients, NameInv, ConnInv, RecordInv,
                Recording, LastInv, Settled, KillInv, EraseInv
  <1> QED BY <1>1, ClientKeepsName, ServerKeepsName DEF Next

\* The second inductive invariant, which rests on the first.
THEOREM NameInvariance == Spec => []NameInv
  <1>1. Init => NameInv
    BY ConstantsAssumption DEF Init, NameInv, ConnInv, RecordInv, Recording, LastInv, Settled,
                               KillInv, EraseInv
  <1> QED BY <1>1, NameInductive, Invariance, PTL DEF Spec

\* NAME.last never shows the connection to an earlier server while another one
\* runs (record_connection, SessionEndpoint::bind): whoever writes it holds the
\* workspace lock from its Hello on and is recorded under the greeting server.
THEOREM LastIsAlwaysCurrent == Spec => []LastIsCurrent
  <1>1. IInv /\ NameInv => LastIsCurrent
    <2> SUFFICES ASSUME IInv, NameInv, sock # None, Running(sock), Owning(sock)
                 PROVE  lastOf \in {None, sock}
      BY DEF LastIsCurrent
    <2>1. sock \in Servers
      BY DEF IInv, TypeOK
    <2>2. spc[sock] # "exit"
      BY DEF Running, Owning, IInv, ListenerInv, Unforked
    <2> QED BY <2>1, <2>2 DEF NameInv, LastInv, Settled, Running
  <1> QED BY <1>1, NameInvariance, Invariance, PTL

\* When kill reports success the server that it signalled has unlinked its
\* endpoint and is about to end, or has ended (supervisor::kill).
THEOREM KilledIsGone == Spec => []KilledServerIsGone
  <1>1. NameInv => KilledServerIsGone
    BY DEF NameInv, KillInv, KilledServerIsGone
  <1> QED BY <1>1, NameInvariance, PTL

\* delete_saved_in removes a snapshot only while nobody owns the name and no
\* creator has read it.
THEOREM DeletionSparesLive == Spec => DeleteSparesLive
  <1> DEFINE Spares == saved /\ ~saved' =>
                         /\ \A s \in Servers : ~Owning(s)
                         /\ \A c \in Clients : cpc[c] \notin {"stale", "unlink", "bind"}
  <1>1. IInv /\ NameInv /\ [Next]_vars => [Spares]_vars
    <2> SUFFICES ASSUME IInv, NameInv, Next, saved, ~saved' PROVE Spares
      OBVIOUS
    <2>1. \A s \in Servers : ~ServerStep(s)
      BY ServerEffect
    <2>2. PICK c \in Clients : EraseSnapshot(c)
      BY <2>1, ClientEffect DEF Next, Effect
    <2>3. cpc[c] = "erase" /\ sock = None /\ workspace = c
      BY <2>2 DEF EraseSnapshot, NameInv, EraseInv, IInv, WorkspaceInv, InWorkspace
    <2>4. \A s \in Servers : ~Owning(s)
      BY <2>3, ConstantsAssumption DEF IInv, EndpointOwned
    <2>5. \A d \in Clients : cpc[d] \notin {"stale", "unlink", "bind"}
      BY <2>3 DEF IInv, WorkspaceInv, InWorkspace
    <2> QED BY <2>4, <2>5
  <1> QED BY <1>1, NameInvariance, Invariance, PTL DEF Spec, DeleteSparesLive

-----------------------------------------------------------------------------
(* The endpoint implements NameOwner.                                      *)

EndpointVars == <<sock, holders, up>>

\* A step that leaves the path, the listeners and the holders alone.
LEMMA SameEndpoint ==
    ASSUME sock' = sock, listener' = listener,
           \A s \in Servers : Owning(s)' <=> Owning(s)
    PROVE  [Endpoint!Next]_EndpointVars
  BY DEF up, holders, EndpointVars

\* A command that neither creates nor ends concerns no holder.
LEMMA OtherCommand ==
    ASSUME IInv, NEW c \in Clients, sock' = sock, listener' = listener, spc' = spc,
           cpc[c] \notin Bound, NEW label, label \notin Bound,
           cpc' = [cpc EXCEPT ![c] = label],
           \A d \in Clients \ {c} : tgt'[d] = tgt[d]
    PROVE  [Endpoint!Next]_EndpointVars
  <1>1. \A d \in Clients \ {c} : cpc'[d] = cpc[d]
    BY DEF IInv, TypeOK
  <1>2. cpc'[c] \notin Bound BY DEF IInv, TypeOK
  <1>3. \A s \in Servers : Owning(s)' <=> Owning(s)
    BY <1>1, <1>2 DEF Owning
  <1> QED BY <1>3, SameEndpoint

\* Nor does a server that goes on.
LEMMA OtherServer ==
    ASSUME IInv, NEW s \in Servers, sock' = sock, listener' = listener,
           UNCHANGED clients,
           spc[s] \notin {"unborn", "exit", "dead"},
           NEW label, label \notin {"unborn", "exit", "dead"},
           spc' = [spc EXCEPT ![s] = label]
    PROVE  [Endpoint!Next]_EndpointVars
  <1>1. \A t \in Servers : Owning(t)' <=> Owning(t)
    BY DEF IInv, TypeOK, Owning, clients
  <1> QED BY <1>1, SameEndpoint

\* A process that closes its listener, or dies, concerns at most the one
\* endpoint that it keeps open.
LEMMA ClosingStep ==
    ASSUME IInv, NEW p \in Clients \cup Servers, sock' = sock,
           listener' = [s \in Servers |-> listener[s] \ {p}],
           \A s \in Servers : Owning(s)' => Owning(s),
           \A s \in Servers : p \notin listener[s] => (Owning(s)' <=> Owning(s))
    PROVE  [Endpoint!Next]_EndpointVars
  <1>1. \A s, t \in Servers : p \in listener[s] /\ p \in listener[t] => s = t
    BY ConstantsAssumption DEF IInv, ListenerInv
  <1>2. CASE \E s \in Servers : p \in listener[s]
    <2>1. PICK s \in Servers : p \in listener[s] BY <1>2
    <2>2. \A t \in Servers : t # s =>
            /\ listener'[t] = listener[t]
            /\ Owning(t)' <=> Owning(t)
      BY <1>1, <2>1
    <2>3. up' \in {up, up \ {s}} BY <2>2 DEF up
    <2>4. holders' \in {holders, holders \ {s}} BY <2>2 DEF holders
    <2> QED BY <2>3, <2>4 DEF Endpoint!Next, Endpoint!Vanish
  <1>3. CASE \A s \in Servers : p \notin listener[s]
    <2>1. \A s \in Servers : listener'[s] = listener[s] BY <1>3
    <2>2. up' = up BY <2>1 DEF up
    <2>3. holders' = holders BY <1>3 DEF holders
    <2> QED BY <2>2, <2>3 DEF EndpointVars
  <1> QED BY <1>2, <1>3

\* The unlink of an endpoint by the process that owns it.
LEMMA ResigningStep ==
    ASSUME IInv, NEW s \in Servers, Owning(s), ~Owning(s)', sock' = None,
           listener' = listener,
           \A t \in Servers \ {s} : Owning(t)' <=> Owning(t)
    PROVE  [Endpoint!Next]_EndpointVars
  <1>1. sock = s BY DEF IInv, EndpointOwned
  <1>2. holders' = holders \ {s} BY DEF holders
  <1>3. up' = up /\ s \in holders BY DEF up, holders
  <1> QED BY <1>1, <1>2, <1>3 DEF Endpoint!Next, Endpoint!Resign

\* A creator that undoes its bind still owns the path, and alone.
LEMMA CreatorOwns ==
    ASSUME IInv, NEW c \in Clients, cpc[c] \in Bound
    PROVE  /\ tgt[c] \in Servers /\ Owning(tgt[c]) /\ c \in listener[tgt[c]]
           /\ spc[tgt[c]] = "unborn"
           /\ \A d \in Clients \ {c} : cpc[d] \in Bound => tgt[d] # tgt[c]
  <1>1. cpc[c] \in Creating /\ cpc[c] \in Unforked BY DEF Creating, Unforked
  <1>2. tgt[c] \in Servers /\ c \in listener[tgt[c]] /\ spc[tgt[c]] = "unborn"
    BY <1>1 DEF IInv, ListenerInv
  <1>3. Owning(tgt[c]) BY DEF Owning
  <1>4. \A d \in Clients \ {c} : cpc[d] \in Bound => tgt[d] # tgt[c]
    BY <1>1 DEF IInv, ListenerInv, Creating, Unforked
  <1> QED BY <1>2, <1>3, <1>4

LEMMA CreatorResigns ==
    ASSUME IInv, NEW c \in Clients, cpc[c] \in Bound, Goto(c, "exit"),
           sock' = None, listener' = listener, spc' = spc
    PROVE  [Endpoint!Next]_EndpointVars
  <1>1. /\ \A d \in Clients \ {c} : cpc'[d] = cpc[d]
        /\ cpc'[c] \notin Bound /\ tgt' = tgt
    BY DEF Goto, IInv, TypeOK, Bound
  <1>2. PICK s \in Servers : s = tgt[c] BY CreatorOwns
  <1>3. Owning(s) /\ ~Owning(s)' BY <1>1, <1>2, CreatorOwns DEF Owning
  <1>4. \A t \in Servers \ {s} : Owning(t)' <=> Owning(t)
    BY <1>1, <1>2 DEF Owning
  <1> QED BY <1>3, <1>4, ResigningStep

\* A creator that goes on keeps the path.
LEMMA CreatorGoesOn ==
    ASSUME IInv, NEW c \in Clients, cpc[c] \in Bound, NEW label \in Bound,
           Goto(c, label), sock' = sock, listener' = listener, spc' = spc
    PROVE  [Endpoint!Next]_EndpointVars
  <1>1. /\ \A d \in Clients \ {c} : cpc'[d] = cpc[d]
        /\ cpc'[c] \in Bound /\ tgt' = tgt
    BY DEF Goto, IInv, TypeOK
  <1>2. \A t \in Servers : Owning(t)' <=> Owning(t)
    BY <1>1 DEF Owning
  <1> QED BY <1>2, SameEndpoint

LEMMA ExitImplements ==
    ASSUME IInv, NEW c \in Clients, Release(c), sock' = sock
    PROVE  [Endpoint!Next]_EndpointVars
  <1>1. /\ \A d \in Clients \ {c} : cpc'[d] = cpc[d] /\ tgt'[d] = tgt[d]
        /\ cpc'[c] = "idle" /\ spc' = spc
        /\ listener' = [s \in Servers |-> listener[s] \ {c}]
    BY DEF Release, servers, IInv, TypeOK
  <1>2. "idle" \notin Bound BY DEF Bound
  <1>3. \A s \in Servers : Owning(s)' => Owning(s)
    BY <1>1, <1>2 DEF Owning
  <1>4. \A s \in Servers : c \notin listener[s] => (Owning(s)' <=> Owning(s))
    <2> SUFFICES ASSUME NEW s \in Servers, c \notin listener[s], Owning(s)
                 PROVE  Owning(s)'
      BY <1>3
    <2>1. ~(cpc[c] \in Bound /\ tgt[c] = s) BY CreatorOwns
    <2> QED BY <1>1, <2>1 DEF Owning
  <1> QED BY <1>1, <1>3, <1>4, ClosingStep

\* The death of a server, alone or by the signal of a command.
LEMMA DieImplements ==
    ASSUME IInv, NEW s \in Servers, Running(s), Die(s),
           \/ UNCHANGED clients
           \/ \E c \in Clients : cpc[c] = "signal" /\ Goto(c, "wait")
    PROVE  [Endpoint!Next]_EndpointVars
  <1>1. listener' = [t \in Servers |-> listener[t] \ {s}] /\ sock' = sock
    <2>1. \A t \in Servers : s \in listener[t] => t = s
      BY DEF IInv, ListenerInv
    <2> QED BY <2>1 DEF Die, IInv, TypeOK, files
  <1>2. /\ \A t \in Servers \ {s} : spc'[t] = spc[t]
        /\ spc'[s] = "dead"
    BY DEF Die, IInv, TypeOK
  <1>3. \A c \in Clients :
          /\ tgt'[c] = tgt[c]
          /\ cpc'[c] \in Bound <=> cpc[c] \in Bound
    <2>1. CASE UNCHANGED clients BY <2>1 DEF clients
    <2>2. CASE \E c \in Clients : cpc[c] = "signal" /\ Goto(c, "wait")
      BY <2>2 DEF Goto, IInv, TypeOK, Bound
    <2> QED BY <2>1, <2>2
  <1>4. \A t \in Servers : Owning(t)' => Owning(t)
    BY <1>2, <1>3 DEF Owning
  <1>5. \A t \in Servers : s \notin listener[t] => (Owning(t)' <=> Owning(t))
    <2>1. s \in listener[s] BY DEF IInv, ListenerInv
    <2> QED BY <1>2, <1>3, <2>1 DEF Owning
  <1> QED BY <1>1, <1>4, <1>5, ClosingStep

LEMMA ClientImplements ==
    ASSUME IInv, NEW c \in Clients, ClientStep(c)
    PROVE  [Endpoint!Next]_EndpointVars
  <1> USE DEF files, conns
  <1>1. CASE StartNew(c)
    BY <1>1, OtherCommand, ExitImplements DEF StartNew, AcquireWorkspace, Exit, Goto, Bound, servers
  <1>2. CASE LoadSnapshot(c)
    BY <1>2, OtherCommand, ExitImplements DEF LoadSnapshot, Moves, Exit, Goto, Bound, servers
  <1>3. CASE ProbeStale(c)
    BY <1>3, OtherCommand, ExitImplements DEF ProbeStale, Moves, Exit, Goto, Bound, servers
  <1>4. CASE UnlinkStale(c)
    <2>1. CASE Exit(c)
      BY <2>1, ExitImplements DEF Exit
    <2>2. CASE /\ sock # None /\ sock' = None /\ listener' = listener
               /\ spc' = spc /\ Goto(c, "bind")
      <3>1. listener[sock] = {} BY <1>4, <2>2 DEF UnlinkStale, IInv, StaleInv
      <3>2. \A s \in Servers : Owning(s) => listener[s] # {}
        BY CreatorOwns DEF Owning, IInv, ListenerInv, Running
      <3>3. \A s \in Servers : Owning(s)' <=> Owning(s)
        BY <1>4, <2>2 DEF UnlinkStale, Goto, Owning, Bound, IInv, TypeOK
      <3>4. sock \notin up \cup holders BY <3>1, <3>2 DEF up, holders
      <3>5. up' = up /\ holders' = holders BY <2>2, <3>3 DEF up, holders
      <3> QED BY <2>2, <3>4, <3>5 DEF Endpoint!Next, Endpoint!RemoveStale
    <2> QED BY <1>4, <2>1, <2>2 DEF UnlinkStale, servers
  <1>5. CASE Bind(c)
    <2>1. CASE Exit(c)
      BY <2>1, ExitImplements DEF Exit
    <2>2. ASSUME NEW s \in Servers, sock = None, spc[s] = "unborn", listener[s] = {},
                 \A d \in Clients : tgt[d] # s, cpc[c] = "bind", sock' = s,
                 listener' = [listener EXCEPT ![s] = {c}], spc' = spc,
                 tgt' = [tgt EXCEPT ![c] = s],
                 cpc' = [cpc EXCEPT ![c] = "lock_file"]
          PROVE  [Endpoint!Next]_EndpointVars
      <3>1. s \notin up \cup holders BY <2>2 DEF up, holders, Owning
      <3>2. \A t \in Servers :
              listener'[t] # {} <=> t = s \/ listener[t] # {}
        BY <2>2 DEF IInv, TypeOK
      <3>3. up' = up \cup {s} BY <3>2 DEF up
      <3>4. /\ \A d \in Clients \ {c} : cpc'[d] = cpc[d] /\ tgt'[d] = tgt[d]
            /\ cpc'[c] \in Bound /\ tgt'[c] = s /\ cpc[c] \notin Bound
        BY <2>2 DEF IInv, TypeOK, Bound
      <3>5. \A t \in Servers : Owning(t)' <=> t = s \/ Owning(t)
        BY <2>2, <3>4 DEF Owning
      <3>6. holders' = holders \cup {s} BY <3>5 DEF holders
      <3> QED BY <2>2, <3>1, <3>3, <3>6 DEF Endpoint!Next, Endpoint!Claim
    <2> QED BY <1>5, <2>1, <2>2 DEF Bind, servers
  <1>6. CASE CreateLockFile(c)
    BY <1>6, CreatorGoesOn DEF CreateLockFile, OpenCreate, Bound, servers
  <1>7. CASE CreatePidFile(c)
    BY <1>7, CreatorGoesOn DEF CreatePidFile, OpenCreate, Bound, servers
  <1>8. CASE BindFails(c)
    BY <1>8, CreatorResigns DEF BindFails, Bound, servers
  <1>9. CASE DropWorkspace(c)
    BY <1>9, CreatorGoesOn DEF DropWorkspace, Bound, servers
  <1>10. CASE Fork(c)
    <2>1. /\ c \in listener[tgt[c]] /\ tgt[c] \in Servers
          /\ \A d \in Clients \ {c} : cpc[d] \in Bound => tgt[d] # tgt[c]
      BY <1>10, CreatorOwns DEF Fork, Bound
    <2>2. up' = up BY <1>10, <2>1 DEF Fork, up, IInv, TypeOK
    <2>3. /\ \A d \in Clients \ {c} : cpc'[d] = cpc[d]
          /\ tgt' = tgt /\ cpc[c] \in Bound /\ cpc'[c] \notin Bound
          /\ \A t \in Servers \ {tgt[c]} : spc'[t] = spc[t]
          /\ spc'[tgt[c]] = "start"
      BY <1>10, <2>1 DEF Fork, Goto, SGoto, Bound, IInv, TypeOK
    <2>4. \A t \in Servers : Owning(t)' <=> Owning(t) BY <2>3 DEF Owning
    <2>5. holders' = holders BY <2>4 DEF holders
    <2> QED BY <1>10, <2>2, <2>5 DEF Fork, EndpointVars
  <1>11. CASE ForkFails(c)
    <2>1. DropLabel(tgt[c]) = "rm_lock"
      BY <1>11, CreatorOwns DEF ForkFails, Bound, DropLabel, IInv, EndpointOwned
    <2> QED BY <1>11, <2>1, CreatorGoesOn DEF ForkFails, Moves, Bound, servers
  <1>12. CASE UndoCreate(c)
    <2>1. CASE cpc[c] = "rm_sock"
      BY <1>12, <2>1, CreatorResigns DEF UndoCreate, Unlink, AfterUnlink, Bound, servers
    <2>2. CASE cpc[c] # "rm_sock"
      BY <1>12, <2>2, CreatorGoesOn DEF UndoCreate, Unlink, AfterUnlink, Bound, servers
    <2> QED BY <2>1, <2>2
  <1>13. CASE Relinquish(c)
    <2>1. \A s \in Servers : c \in listener[s] <=> tgt[c] = s
      BY <1>13 DEF Relinquish, IInv, ListenerInv, Creating
    <2>2. listener' = [s \in Servers |-> listener[s] \ {c}]
      <3>1. listener' = [listener EXCEPT ![tgt[c]] = @ \ {c}]
        BY <1>13 DEF Relinquish
      <3>2. listener = [s \in Servers |-> listener[s]]
        BY DEF IInv, TypeOK
      <3>3. \A s \in Servers : s # tgt[c] => listener[s] \ {c} = listener[s]
        BY <2>1
      <3> QED BY <3>1, <3>2, <3>3
    <2>3. /\ \A d \in Clients \ {c} : cpc'[d] = cpc[d] /\ tgt'[d] = tgt[d]
          /\ cpc[c] \notin Bound /\ cpc'[c] \notin Bound /\ spc' = spc
      BY <1>13 DEF Relinquish, Bound, servers, IInv, TypeOK
    <2>4. \A s \in Servers : Owning(s)' <=> Owning(s) BY <2>3 DEF Owning
    <2> QED BY <1>13, <2>2, <2>4, ClosingStep DEF Relinquish
  <1>14. CASE StartAttach(c)
    BY <1>14, OtherCommand, ExitImplements DEF StartAttach, AcquireWorkspace, Exit, Goto, Bound, servers
  <1>15. CASE AttachAfterCreate(c)
    BY <1>15, OtherCommand, ExitImplements DEF AttachAfterCreate, AcquireOrExit, AcquireWorkspace, Exit, Goto, Bound, servers
  <1>16. CASE ValidateSocket(c)
    BY <1>16, OtherCommand, ExitImplements DEF ValidateSocket, Moves, Exit, Goto, Bound, servers
  <1>17. CASE OpenLease(c)
    BY <1>17, OtherCommand, ExitImplements DEF OpenLease, OpenCreate, Exit, Goto, Bound, servers
  <1>18. CASE TakeLease(c)
    BY <1>18, OtherCommand, ExitImplements DEF TakeLease, Exit, Goto, Bound, servers
  <1>19. CASE Connect(c)
    <2>1. CASE Exit(c)
      BY <2>1, ExitImplements DEF Exit
    <2>2. CASE ~Exit(c)
      <3>1. \A d \in Clients \ {c} : tgt'[d] = tgt[d]
        BY <1>19, <2>2 DEF Connect, ConnectTo, IInv, TypeOK
      <3> QED BY <1>19, <2>2, <3>1, OtherCommand DEF Connect, ConnectTo, Bound, servers
    <2> QED BY <2>1, <2>2
  <1>20. CASE RejoinWorkspace(c)
    BY <1>20, OtherCommand, ExitImplements DEF RejoinWorkspace, AcquireOrExit, AcquireWorkspace, Exit, Goto, Bound, servers
  <1>21. CASE ReceiveAttached(c)
    BY <1>21, OtherCommand, ExitImplements DEF ReceiveAttached, ReadAttached, Exit, Goto, Bound, servers
  <1>22. CASE RecordConnection(c)
    BY <1>22, OtherCommand, ExitImplements DEF RecordConnection, Exit, Goto, Bound, servers
  <1>23. CASE BootConnect(c)
    <2>1. CASE Exit(c)
      BY <2>1, ExitImplements DEF Exit
    <2>2. CASE ~Exit(c)
      <3>1. \A d \in Clients \ {c} : tgt'[d] = tgt[d]
        BY <1>23, <2>2 DEF BootConnect, ConnectTo, IInv, TypeOK
      <3> QED BY <1>23, <2>2, <3>1, OtherCommand DEF BootConnect, ConnectTo, Bound, servers
    <2> QED BY <2>1, <2>2
  <1>24. CASE BootDetach(c)
    BY <1>24, OtherCommand, ExitImplements DEF BootDetach, ReadAttached, Exit, Goto, Bound, servers
  <1>25. CASE BootFinish(c)
    <2>1. \A d \in Clients \ {c} : tgt'[d] = tgt[d]
      BY <1>25 DEF BootFinish, IInv, TypeOK
    <2> QED BY <1>25, <2>1, OtherCommand DEF BootFinish, Bound, servers
  <1>26. CASE StartProbe(c)
    BY <1>26, OtherCommand, ExitImplements DEF StartProbe, Exit, Goto, Bound, servers
  <1>27. CASE OpenPidFile(c)
    BY <1>27, OtherCommand, ExitImplements DEF OpenPidFile, NotRunning, Exit, Goto, Bound, servers
  <1>28. CASE ProbePidLock(c)
    BY <1>28, OtherCommand, ExitImplements DEF ProbePidLock, Moves, Exit, Goto, Bound, servers
  <1>29. CASE ReleasePidLock(c)
    BY <1>29, OtherCommand, ExitImplements DEF ReleasePidLock, NotRunning, Exit, Goto, Bound, servers
  <1>30. CASE CreateMissing(c)
    BY <1>30, OtherCommand, ExitImplements DEF CreateMissing, AcquireOrExit, AcquireWorkspace, Exit, Goto, Bound, servers
  <1>31. CASE ReadPid(c)
    <2>1. CASE Exit(c)
      BY <2>1, ExitImplements DEF Exit
    <2>2. CASE ~Exit(c)
      <3>1. \A d \in Clients \ {c} : tgt'[d] = tgt[d]
        BY <1>31, <2>2 DEF ReadPid, IInv, TypeOK
      <3>2. PICK label : /\ cpc' = [cpc EXCEPT ![c] = label]
                         /\ label \in {"signal", "lease"}
        BY <1>31, <2>2 DEF ReadPid
      <3> QED BY <1>31, <2>2, <3>1, <3>2, OtherCommand DEF ReadPid, Bound, servers
    <2> QED BY <2>1, <2>2
  <1>32. CASE SendSignal(c)
    <2>1. CASE Exit(c)
      BY <2>1, ExitImplements DEF Exit
    <2>2. tgt[c] \in Servers BY <1>32 DEF SendSignal, IInv, HandleInv
    <2>3. CASE Running(tgt[c]) /\ Die(tgt[c]) /\ Goto(c, "wait")
      BY <1>32, <2>2, <2>3, DieImplements DEF SendSignal
    <2>4. CASE /\ sock' = sock /\ listener' = listener /\ spc' = spc
               /\ Goto(c, "wait")
      BY <1>32, <2>4, OtherCommand DEF SendSignal, Goto, Bound
    <2> QED BY <1>32, <2>1, <2>3, <2>4 DEF SendSignal, Moves, servers
  <1>33. CASE WaitForCleanup(c)
    BY <1>33, OtherCommand, ExitImplements DEF WaitForCleanup, Moves, Exit, Goto, Bound, servers
  <1>34. CASE StartList(c)
    BY <1>34, OtherCommand, ExitImplements DEF StartList, Exit, Goto, Bound, servers
  <1>35. CASE ScanEndpoint(c)
    BY <1>35, OtherCommand, ExitImplements DEF ScanEndpoint, Moves, Exit, Goto, Bound, servers
  <1>36. CASE ProbeClientLock(c)
    BY <1>36, OtherCommand, ExitImplements DEF ProbeClientLock, Moves, Exit, Goto, Bound, servers
  <1>37. CASE ProbeConnect(c)
    BY <1>37, OtherCommand, ExitImplements DEF ProbeConnect, Exit, Goto, Bound, servers
  <1>38. CASE StartDelete(c)
    BY <1>38, OtherCommand, ExitImplements DEF StartDelete, AcquireWorkspace, Exit, Goto, Bound, servers
  <1>39. CASE CheckNoEndpoint(c)
    BY <1>39, OtherCommand, ExitImplements DEF CheckNoEndpoint, Moves, Exit, Goto, Bound, servers
  <1>40. CASE EraseSnapshot(c)
    BY <1>40, ExitImplements DEF EraseSnapshot
  <1>41. CASE Leave(c)
    BY <1>41, OtherCommand, ExitImplements DEF Leave, Exit, Goto, Bound, servers
  <1> QED BY <1>1, <1>2, <1>3, <1>4, <1>5, <1>6, <1>7, <1>8, <1>9, <1>10, <1>11, <1>12, <1>13, <1>14, <1>15, <1>16, <1>17, <1>18, <1>19, <1>20, <1>21, <1>22, <1>23, <1>24, <1>25, <1>26, <1>27, <1>28, <1>29, <1>30, <1>31, <1>32, <1>33, <1>34, <1>35, <1>36, <1>37, <1>38, <1>39, <1>40, <1>41 DEF ClientStep

LEMMA ServerImplements ==
    ASSUME IInv, NEW s \in Servers, ServerStep(s)
    PROVE  [Endpoint!Next]_EndpointVars
  <1> USE DEF files, conns
  <1>1. CASE ServerOpenPid(s)
    BY <1>1, OtherServer DEF ServerOpenPid, OpenCreate, SGoto
  <1>2. CASE ServerTakeLease(s)
    BY <1>2, OtherServer DEF ServerTakeLease, SGoto
  <1>3. CASE ServerTruncatePid(s)
    BY <1>3, OtherServer DEF ServerTruncatePid, SGoto
  <1>4. CASE ServerWritePid(s)
    BY <1>4, OtherServer DEF ServerWritePid, SGoto
  <1>5. CASE Accept(s)
    BY <1>5, OtherServer DEF Accept, SGoto
  <1>6. CASE Greet(s)
    BY <1>6, OtherServer DEF Greet, SGoto
  <1>7. CASE GreetFails(s)
    BY <1>7, OtherServer DEF GreetFails, Hangup, SGoto
  <1>8. CASE Setup(s)
    BY <1>8, OtherServer DEF Setup, Hangup, SGoto
  <1>9. CASE Detach(s)
    BY <1>9, OtherServer DEF Detach, Hangup, SGoto
  <1>10. CASE Save(s)
    BY <1>10, SameEndpoint DEF Save, Owning, servers, clients
  <1>11. CASE Stop(s)
    BY <1>11, OtherServer DEF Stop, Hangup, SGoto
  <1>12. CASE Finish(s)
    BY <1>12, OtherServer DEF Finish, SGoto
  <1>13. CASE ReleaseLease(s)
    BY <1>13, OtherServer DEF ReleaseLease, SGoto
  <1>14. CASE DropEndpoint(s)
    <2>1. DropLabel(s) = "rm_lock"
      BY <1>14 DEF DropEndpoint, DropLabel, Owning, IInv, EndpointOwned
    <2> QED BY <1>14, <2>1, OtherServer DEF DropEndpoint
  <1>15. CASE RemoveFiles(s)
    <2>1. CASE spc[s] = "rm_sock"
      <3>1. /\ \A t \in Servers \ {s} : spc'[t] = spc[t]
            /\ spc'[s] = "exit" /\ UNCHANGED clients
        BY <1>15, <2>1 DEF RemoveFiles, SGoto, AfterUnlink, IInv, TypeOK
      <3>2. Owning(s) BY <2>1 DEF Owning
      <3>3. \A c \in Clients : cpc[c] \in Bound => tgt[c] # s
        BY <2>1, CreatorOwns
      <3>4. ~Owning(s)' BY <3>1, <3>3 DEF Owning, clients
      <3>5. \A t \in Servers \ {s} : Owning(t)' <=> Owning(t)
        BY <3>1 DEF Owning, clients
      <3> QED BY <1>15, <2>1, <3>2, <3>4, <3>5, ResigningStep DEF RemoveFiles, Unlink
    <2>2. CASE spc[s] # "rm_sock"
      <3>1. spc[s] \in {"rm_lock", "rm_pid", "rm_last"}
        BY <1>15, <2>2 DEF RemoveFiles, AfterUnlink
      <3>2. AfterUnlink[spc[s]] \in {"rm_pid", "rm_last", "rm_sock"}
        BY <3>1 DEF AfterUnlink
      <3>3. /\ spc' = [spc EXCEPT ![s] = AfterUnlink[spc[s]]]
            /\ sock' = sock /\ listener' = listener /\ UNCHANGED clients
        BY <1>15, <2>2 DEF RemoveFiles, SGoto, Unlink
      <3> QED BY <3>1, <3>2, <3>3, OtherServer
    <2> QED BY <2>1, <2>2
  <1>16. CASE ServerExit(s)
    BY <1>16, DieImplements DEF ServerExit, Running
  <1>17. CASE Crash(s)
    BY <1>17, DieImplements DEF Crash
  <1> QED BY <1>1, <1>2, <1>3, <1>4, <1>5, <1>6, <1>7, <1>8, <1>9, <1>10, <1>11, <1>12, <1>13, <1>14, <1>15, <1>16, <1>17 DEF ServerStep

\* The files, locks and processes of SessionRuntime implement NameOwner: a
\* name passes from a live owner to nobody only by its own unlink, and to the
\* next one only after the former has gone or was found dead.
THEOREM EndpointImplemented == Spec => EndpointSpec
  <1>1. Init => Endpoint!Init
    BY DEF Init, Endpoint!Init, up, holders, Owning, Bound
  <1>2. IInv /\ [Next]_vars => [Endpoint!Next]_EndpointVars
    <2>1. ASSUME IInv, UNCHANGED vars PROVE [Endpoint!Next]_EndpointVars
      BY <2>1, SameEndpoint DEF vars, files, conns, servers, clients, Owning
    <2> QED BY <2>1, ClientImplements, ServerImplements DEF Next
  <1> QED
    BY <1>1, <1>2, Invariance, PTL
       DEF Spec, EndpointSpec, Endpoint!Spec, Endpoint!vars, EndpointVars
=============================================================================
