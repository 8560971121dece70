--------------------------- MODULE SessionRuntime ---------------------------
(***************************************************************************)
(* The runtime files of ONE session name and the processes that meet on    *)
(* them: src/session.rs and src/session/supervisor.rs.                     *)
(*                                                                         *)
(* A name owns NAME.sock, NAME.lock, NAME.pid, NAME.last (removed with the *)
(* endpoint), NAME.workspace (never unlinked) and a saved snapshot.        *)
(* Nothing coordinates the processes but the file system: which inode a    *)
(* path names, who holds a flock on an inode, and whether a socket still   *)
(* has an open listener.  Every system call that another process can       *)
(* observe is a step of its own.                                           *)
(*                                                                         *)
(* Clients are short-lived command processes (new, attach, kill, list ...);*)
(* Servers are the forked session servers.  A server is also the identity  *)
(* of the socket inode it was bound for and the process id it records.     *)
(***************************************************************************)
EXTENDS Naturals, FiniteSets, TLC

CONSTANTS
    Clients,    \* command processes
    Servers,    \* server processes; each is forked at most once
    Inodes,     \* identities of .lock and .pid files, reused once free
    None,
    Gone,       \* a peer whose client side is closed
    Commands    \* the commands the clients of this instance run

ASSUME ConstantsAssumption ==
    /\ None \notin Clients \cup Servers \cup Inodes
    /\ Gone \notin Clients \cup {None}
    /\ Clients \cap Servers = {}
    /\ Commands \subseteq
         {"new", "attach", "attach_create", "kill", "list", "delete"}

VARIABLES
    sock,       \* server whose socket inode NAME.sock names, or None
    lockFile,   \* inode NAME.lock names, or None
    pidFile,    \* inode NAME.pid names, or None
    lastOf,     \* server whose connection NAME.last records, or None
    saved,      \* a snapshot of the name is on disk
    workspace,  \* holder of the exclusive flock on NAME.workspace
    excl,       \* exclusive flock holder of every inode
    shared,     \* shared flock holders of every inode
    pidRec,     \* contents of every inode used as a pid record
    listener,   \* processes that hold a descriptor of a server's listener
    backlog,    \* connections nobody has accepted yet
    peer,       \* the connection a server has accepted
    greeted,    \* clients whose Attached reply is on its way
    spc, sfd, armed, sig,        \* server: control, pid descriptor, signals
    cpc, op, fd, tgt             \* client: control, command, descriptor, server

files   == <<sock, lockFile, pidFile, lastOf, saved>>
locks   == <<workspace, excl, shared, pidRec>>
conns   == <<listener, backlog, peer, greeted>>
servers == <<spc, sfd, armed, sig>>
clients == <<cpc, op, fd, tgt>>
vars    == <<files, locks, conns, servers, clients>>

ServerPC ==
    {"unborn", "start", "opened", "locked", "truncated", "accept",
     "greet_first", "setup", "attached", "detached", "greet", "finish",
     "unlease", "refused", "drop", "rm_lock", "rm_pid", "rm_last", "rm_sock",
     "exit", "dead"}

ClientPC ==
    {"idle",
     "load", "stale", "unlink", "bind", "lock_file", "pid_file", "unlock",
     "fork", "relinquish", "rm_lock", "rm_pid", "rm_last", "rm_sock",
     "exit",                                                        \* new
     "lease", "validate", "open_lock", "flock", "busy", "connect",
     "rejoin", "hello", "record", "attached",                       \* attach
     "boot", "boot_hello", "boot_detach",                           \* new -d
     "probe", "pid_lock", "pid_held", "pid_read", "create", \* live_server_pid
     "signal", "wait", "killed",                                    \* kill
     "scan", "lock_probe", "lock_held",                             \* list
     "check", "erase"}                                              \* delete

TypeOK ==
    /\ sock \in Servers \cup {None}
    /\ lockFile \in Inodes \cup {None}
    /\ pidFile \in Inodes \cup {None}
    /\ lastOf \in Servers \cup {None}
    /\ saved \in BOOLEAN
    /\ workspace \in Clients \cup {None}
    /\ excl \in [Inodes -> Clients \cup Servers \cup {None}]
    /\ shared \in [Inodes -> SUBSET Clients]
    /\ pidRec \in [Inodes -> Servers \cup {None}]
    /\ listener \in [Servers -> SUBSET (Clients \cup Servers)]
    /\ backlog \in [Servers -> SUBSET Clients]
    /\ peer \in [Servers -> Clients \cup {None, Gone}]
    /\ greeted \in SUBSET Clients
    /\ spc \in [Servers -> ServerPC]
    /\ sfd \in [Servers -> Inodes \cup {None}]
    /\ armed \in [Servers -> BOOLEAN]
    /\ sig \in [Servers -> BOOLEAN]
    /\ cpc \in [Clients -> ClientPC]
    /\ op \in [Clients -> Commands \cup {"none"}]
    /\ fd \in [Clients -> Inodes \cup {None}]
    /\ tgt \in [Clients -> Servers \cup {None}]

Init ==
    /\ sock = None /\ lockFile = None /\ pidFile = None /\ lastOf = None
    /\ saved \in BOOLEAN
    /\ workspace = None
    /\ excl = [i \in Inodes |-> None]
    /\ shared = [i \in Inodes |-> {}]
    /\ pidRec = [i \in Inodes |-> None]
    /\ listener = [s \in Servers |-> {}]
    /\ backlog = [s \in Servers |-> {}]
    /\ peer = [s \in Servers |-> None]
    /\ greeted = {}
    /\ spc = [s \in Servers |-> "unborn"]
    /\ sfd = [s \in Servers |-> None]
    /\ armed = [s \in Servers |-> FALSE]
    /\ sig = [s \in Servers |-> FALSE]
    /\ cpc = [c \in Clients |-> "idle"]
    /\ op = [c \in Clients |-> "none"]
    /\ fd = [c \in Clients |-> None]
    /\ tgt = [c \in Clients |-> None]

-----------------------------------------------------------------------------
(* Helpers.                                                                *)

Running(s) == spc[s] \notin {"unborn", "dead"}

\* An inode is free once no path names it and no descriptor refers to it.
FreeInodes ==
    Inodes \ ({lockFile, pidFile} \cup {fd[c] : c \in Clients}
                \cup {sfd[s] : s \in Servers})

\* connect(2) to NAME.sock succeeds.
Connectable == sock # None /\ listener[sock] # {}

\* Steps of one process: its control alone, and that with nothing else.
Goto(c, label)  == cpc' = [cpc EXCEPT ![c] = label] /\ UNCHANGED <<op, fd, tgt>>
Moves(c, label) == Goto(c, label) /\ UNCHANGED <<files, locks, conns, servers>>

SGoto(s, label) == spc' = [spc EXCEPT ![s] = label] /\ UNCHANGED <<sfd, armed, sig>>

\* The end of a command process, by return, error or signal: the kernel
\* closes its descriptors, which releases its flocks and its connection.
Release(c) ==
    /\ workspace' = IF workspace = c THEN None ELSE workspace
    /\ excl' = [i \in Inodes |-> IF excl[i] = c THEN None ELSE excl[i]]
    /\ shared' = [i \in Inodes |-> shared[i] \ {c}]
    /\ listener' = [s \in Servers |-> listener[s] \ {c}]
    /\ backlog' = [s \in Servers |-> backlog[s] \ {c}]
    /\ peer' = [s \in Servers |-> IF peer[s] = c THEN Gone ELSE peer[s]]
    /\ greeted' = greeted \ {c}
    /\ cpc' = [cpc EXCEPT ![c] = "idle"]
    /\ op' = [op EXCEPT ![c] = "none"]
    /\ fd' = [fd EXCEPT ![c] = None]
    /\ tgt' = [tgt EXCEPT ![c] = None]
    /\ UNCHANGED <<pidRec, servers>>

Exit(c) == Release(c) /\ UNCHANGED files

\* The death of a server: flocks, listener and connection go, files stay.
Die(s) ==
    /\ spc' = [spc EXCEPT ![s] = "dead"]
    /\ excl' = [i \in Inodes |-> IF excl[i] = s THEN None ELSE excl[i]]
    /\ sfd' = [sfd EXCEPT ![s] = None]
    /\ listener' = [listener EXCEPT ![s] = @ \ {s}]
    /\ peer' = [peer EXCEPT ![s] = None]
    /\ armed' = [armed EXCEPT ![s] = FALSE]
    /\ sig' = [sig EXCEPT ![s] = FALSE]
    /\ UNCHANGED <<files, workspace, shared, pidRec, backlog, greeted>>

\* A nonblocking exclusive flock on NAME.workspace; a busy one is an error.
AcquireWorkspace(c, command, label) ==
    /\ workspace = None
    /\ workspace' = c
    /\ op' = [op EXCEPT ![c] = command]
    /\ cpc' = [cpc EXCEPT ![c] = label]
    /\ UNCHANGED <<files, excl, shared, pidRec, conns, servers, fd, tgt>>

AcquireOrExit(c, label) ==
    \/ AcquireWorkspace(c, op[c], label)
    \/ workspace # None /\ Exit(c)

\* open(O_CREAT) of a path: the inode it names, or a fresh empty one.
OpenCreate(path, inode) ==
    \/ path # None /\ inode = path /\ UNCHANGED pidRec
    \/ path = None /\ inode \in FreeInodes /\ pidRec' = [pidRec EXCEPT ![inode] = None]

\* Mutant: the socket disappears before the other files.
AfterUnlinkSocketEarly ==
    [rm_lock |-> "rm_sock", rm_sock |-> "rm_pid", rm_pid |-> "rm_last",
     rm_last |-> "exit"]

\* Drop of a SessionEndpoint compares the path with its own inode and unlinks,
\* by path, the sidecars and then the socket.
AfterUnlink ==
    [rm_lock |-> "rm_pid", rm_pid |-> "rm_last", rm_last |-> "rm_sock",
     rm_sock |-> "exit"]

DropLabel(s) == IF sock = s THEN "rm_lock" ELSE "exit"

Unlink(label) ==
    /\ lockFile' = IF label = "rm_lock" THEN None ELSE lockFile
    /\ pidFile' = IF label = "rm_pid" THEN None ELSE pidFile
    /\ lastOf' = IF label = "rm_last" THEN None ELSE lastOf
    /\ sock' = IF label = "rm_sock" THEN None ELSE sock
    /\ UNCHANGED saved

-----------------------------------------------------------------------------
(* rustmux new: supervisor::create_with_bootstrap, SessionEndpoint::bind.  *)

\* Mutant: no workspace lock around probe and bind.
StartNewUnlocked(c) ==
    /\ "new" \in Commands /\ cpc[c] = "idle"
    /\ op' = [op EXCEPT ![c] = "new"]
    /\ cpc' = [cpc EXCEPT ![c] = "load"]
    /\ UNCHANGED <<files, locks, conns, servers, fd, tgt>>

StartNew(c) ==
    /\ "new" \in Commands /\ cpc[c] = "idle"
    /\ AcquireWorkspace(c, "new", "load")

\* persistence::load: the new server starts from whatever it finds.
LoadSnapshot(c) == cpc[c] = "load" /\ Moves(c, "stale")

\* Mutant: an existing path is taken for a stale one.
ProbeStaleByPath(c) ==
    /\ cpc[c] = "stale"
    /\ Moves(c, IF sock = None THEN "bind" ELSE "unlink")

\* remove_stale_socket: a connection that succeeds means an active endpoint,
ProbeStale(c) ==
    /\ cpc[c] = "stale"
    /\ \/ Connectable /\ Exit(c)
       \/ ~Connectable /\ Moves(c, IF sock = None THEN "bind" ELSE "unlink")

\* a refused one is unlinked, by path.
UnlinkStale(c) ==
    /\ cpc[c] = "unlink"
    /\ \/ /\ sock # None
          /\ sock' = None
          /\ Goto(c, "bind")
          /\ UNCHANGED <<lockFile, pidFile, lastOf, saved, locks, conns, servers>>
       \/ sock = None /\ Exit(c)

\* The identity of a socket is not used again while somebody refers to it.
Bind(c) ==
    /\ cpc[c] = "bind"
    /\ \/ /\ sock = None
          /\ \E s \in Servers :
               /\ spc[s] = "unborn" /\ listener[s] = {}
               /\ \A d \in Clients : tgt[d] # s
               /\ sock' = s
               /\ listener' = [listener EXCEPT ![s] = {c}]
               /\ tgt' = [tgt EXCEPT ![c] = s]
          /\ cpc' = [cpc EXCEPT ![c] = "lock_file"]
          /\ UNCHANGED <<lockFile, pidFile, lastOf, saved, locks, backlog, peer,
                         greeted, servers, op, fd>>
       \/ sock # None /\ Exit(c)

CreateLockFile(c) ==
    /\ cpc[c] = "lock_file"
    /\ \E i \in Inodes : OpenCreate(lockFile, i) /\ lockFile' = i
    /\ Goto(c, "pid_file")
    /\ UNCHANGED <<sock, pidFile, lastOf, saved, workspace, excl, shared, conns, servers>>

\* With it the connection record of an earlier server is removed.
CreatePidFile(c) ==
    /\ cpc[c] = "pid_file"
    /\ \E i \in Inodes : OpenCreate(pidFile, i) /\ pidFile' = i
    /\ lastOf' = None
    /\ Goto(c, "unlock")
    /\ UNCHANGED <<sock, lockFile, saved, workspace, excl, shared, conns, servers>>

\* An error after bind unlinks the socket, by path; files already created stay.
BindFails(c) ==
    /\ cpc[c] \in {"lock_file", "pid_file"}
    /\ sock' = None
    /\ Goto(c, "exit")
    /\ UNCHANGED <<lockFile, pidFile, lastOf, saved, locks, conns, servers>>

DropWorkspace(c) ==
    /\ cpc[c] = "unlock"
    /\ workspace' = None
    /\ Goto(c, "fork")
    /\ UNCHANGED <<files, excl, shared, pidRec, conns, servers>>

Fork(c) ==
    /\ cpc[c] = "fork"
    /\ SGoto(tgt[c], "start")
    /\ listener' = [listener EXCEPT ![tgt[c]] = @ \cup {tgt[c]}]
    /\ Goto(c, "relinquish")
    /\ UNCHANGED <<files, locks, backlog, peer, greeted>>

\* A failed fork drops the endpoint.
ForkFails(c) == cpc[c] = "fork" /\ Moves(c, DropLabel(tgt[c]))

UndoCreate(c) ==
    /\ cpc[c] \in DOMAIN AfterUnlink
    /\ Unlink(cpc[c])
    /\ Goto(c, AfterUnlink[cpc[c]])
    /\ UNCHANGED <<locks, conns, servers>>

\* SessionEndpoint::relinquish closes the parent's listener; a detached
\* creation goes on as the bootstrap client, the others attach.
Relinquish(c) ==
    /\ cpc[c] = "relinquish"
    /\ listener' = [listener EXCEPT ![tgt[c]] = @ \ {c}]
    /\ tgt' = [tgt EXCEPT ![c] = None]
    /\ \E label \in {"lease"} \cup (IF op[c] = "new" THEN {"boot"} ELSE {}) :
         cpc' = [cpc EXCEPT ![c] = label]
    /\ UNCHANGED <<files, locks, backlog, peer, greeted, servers, op, fd>>

-----------------------------------------------------------------------------
(* rustmux attach: session::acquire_client, supervisor::attach_once,       *)
(* client::run.                                                            *)

StartAttach(c) ==
    /\ "attach" \in Commands /\ cpc[c] = "idle"
    /\ AcquireWorkspace(c, "attach", "validate")

\* attach at the end of a creation, or of attach --create on a live server.
AttachAfterCreate(c) == cpc[c] = "lease" /\ AcquireOrExit(c, "validate")

ValidateSocket(c) ==
    /\ cpc[c] = "validate"
    /\ \/ sock = None /\ Exit(c)
       \/ sock # None /\ Moves(c, "open_lock")

OpenLease(c) ==
    /\ cpc[c] = "open_lock"
    /\ \E i \in Inodes :
         /\ OpenCreate(lockFile, i)
         /\ lockFile' = i
         /\ fd' = [fd EXCEPT ![c] = i]
    /\ cpc' = [cpc EXCEPT ![c] = "flock"]
    /\ UNCHANGED <<sock, pidFile, lastOf, saved, workspace, excl, shared, conns,
                   servers, op, tgt>>

\* An exclusive nonblocking flock; "busy" is the error "session already has
\* an attached client".  The workspace lock is released on return.
TakeLease(c) ==
    /\ cpc[c] = "flock"
    /\ workspace' = None
    /\ \/ /\ excl[fd[c]] = None /\ shared[fd[c]] = {}
          /\ excl' = [excl EXCEPT ![fd[c]] = c]
          /\ Goto(c, "connect")
       \/ /\ excl[fd[c]] # None \/ shared[fd[c]] # {}
          /\ Goto(c, "busy") /\ UNCHANGED excl
    /\ UNCHANGED <<files, shared, pidRec, conns, servers>>

\* connect(2) completes in the backlog, before anybody accepts.
ConnectTo(c, from, label) ==
    /\ cpc[c] = from
    /\ \/ /\ Connectable
          /\ backlog' = [backlog EXCEPT ![sock] = @ \cup {c}]
          /\ tgt' = [tgt EXCEPT ![c] = sock]
          /\ cpc' = [cpc EXCEPT ![c] = label]
          /\ UNCHANGED <<files, locks, listener, peer, greeted, servers, op, fd>>
       \/ ~Connectable /\ Exit(c)

Connect(c) == ConnectTo(c, "connect", "rejoin")

\* Mutant: the connection is recorded without the workspace lock.
RejoinUnlocked(c) == cpc[c] = "rejoin" /\ Moves(c, "hello")

\* client::run takes the workspace lock again before it sends Hello and keeps
\* it until the connection has been recorded.
RejoinWorkspace(c) == cpc[c] = "rejoin" /\ AcquireOrExit(c, "hello")

ReadAttached(c, from, label) ==
    /\ cpc[c] = from /\ c \in greeted
    /\ greeted' = greeted \ {c}
    /\ Goto(c, label)
    /\ UNCHANGED <<files, locks, listener, backlog, peer, servers>>

ReceiveAttached(c) == ReadAttached(c, "hello", "record")

\* record_connection writes NAME.last by path; it cannot know whose socket
\* the path names now.
RecordConnection(c) ==
    /\ cpc[c] = "record"
    /\ \/ /\ sock # None
          /\ lastOf' = tgt[c]
          /\ workspace' = None
          /\ Goto(c, "attached")
          /\ UNCHANGED <<sock, lockFile, pidFile, saved, excl, shared, pidRec,
                         conns, servers>>
       \/ sock = None /\ Exit(c)

-----------------------------------------------------------------------------
(* rustmux new --detached: supervisor::start_detached, without a lease.    *)

BootConnect(c) == ConnectTo(c, "boot", "boot_hello")

BootDetach(c) == ReadAttached(c, "boot_hello", "boot_detach")

\* End of file from the server, then the pid record is checked.
BootFinish(c) ==
    /\ cpc[c] = "boot_detach" /\ peer[tgt[c]] # c
    /\ tgt' = [tgt EXCEPT ![c] = None]
    /\ cpc' = [cpc EXCEPT ![c] = "probe"]
    /\ UNCHANGED <<files, locks, conns, servers, op, fd>>

-----------------------------------------------------------------------------
(* session::live_server_pid and the commands that start with it.           *)

StartProbe(c) ==
    /\ cpc[c] = "idle"
    /\ \E command \in {"kill", "attach_create"} \cap Commands :
         op' = [op EXCEPT ![c] = command]
    /\ cpc' = [cpc EXCEPT ![c] = "probe"]
    /\ UNCHANGED <<files, locks, conns, servers, fd, tgt>>

\* "not running": attach --create goes on to create, everything else ends.
NotRunning(c) ==
    \/ /\ op[c] = "attach_create"
       /\ fd' = [fd EXCEPT ![c] = None]
       /\ shared' = [i \in Inodes |-> shared[i] \ {c}]
       /\ cpc' = [cpc EXCEPT ![c] = "create"]
       /\ UNCHANGED <<files, workspace, excl, pidRec, conns, servers, op, tgt>>
    \/ op[c] # "attach_create" /\ Exit(c)

CreateMissing(c) == cpc[c] = "create" /\ AcquireOrExit(c, "load")

OpenPidFile(c) ==
    /\ cpc[c] = "probe"
    /\ \/ /\ sock # None /\ pidFile # None
          /\ fd' = [fd EXCEPT ![c] = pidFile]
          /\ cpc' = [cpc EXCEPT ![c] = "pid_lock"]
          /\ UNCHANGED <<files, locks, conns, servers, op, tgt>>
       \/ (sock = None \/ pidFile = None) /\ NotRunning(c)

\* A shared nonblocking flock that succeeds proves that no server runs; it is
\* held until the function returns.
ProbePidLock(c) ==
    /\ cpc[c] = "pid_lock"
    /\ \/ /\ excl[fd[c]] = None
          /\ shared' = [shared EXCEPT ![fd[c]] = @ \cup {c}]
          /\ Goto(c, "pid_held")
          /\ UNCHANGED <<files, workspace, excl, pidRec, conns, servers>>
       \/ excl[fd[c]] # None /\ Moves(c, "pid_read")

ReleasePidLock(c) == cpc[c] = "pid_held" /\ NotRunning(c)

\* The record is read after the lock has been tried.  An empty record is an
\* error; list and the bootstrap check end here.
ReadPid(c) ==
    /\ cpc[c] = "pid_read"
    /\ \/ /\ pidRec[fd[c]] # None /\ op[c] \in {"kill", "attach_create"}
          /\ tgt' = [tgt EXCEPT ![c] = IF op[c] = "kill" THEN pidRec[fd[c]] ELSE None]
          /\ cpc' = [cpc EXCEPT ![c] = IF op[c] = "kill" THEN "signal" ELSE "lease"]
          /\ fd' = [fd EXCEPT ![c] = None]
          /\ UNCHANGED <<files, locks, conns, servers, op>>
       \/ (pidRec[fd[c]] = None \/ op[c] \in {"list", "new"}) /\ Exit(c)

-----------------------------------------------------------------------------
(* rustmux kill: supervisor::kill.                                         *)

\* SIGTERM.  Once serve_inner has installed its handlers the signal is
\* recorded for the event loop.  Before that it ends the process without
\* running Drop, or is ignored when the creating client had signal-hook
\* handlers installed earlier (unregistering them does not restore SIG_DFL).
SendSignal(c) ==
    /\ cpc[c] = "signal"
    /\ \/ /\ Running(tgt[c]) /\ armed[tgt[c]]
          /\ sig' = [sig EXCEPT ![tgt[c]] = TRUE]
          /\ Goto(c, "wait")
          /\ UNCHANGED <<files, locks, conns, spc, sfd, armed>>
       \/ Running(tgt[c]) /\ ~armed[tgt[c]] /\ Die(tgt[c]) /\ Goto(c, "wait")
       \/ Running(tgt[c]) /\ ~armed[tgt[c]] /\ Moves(c, "wait")
       \/ ~Running(tgt[c]) /\ Exit(c)

\* Success once the path is gone; after three seconds the command gives up.
WaitForCleanup(c) ==
    /\ cpc[c] = "wait"
    /\ \/ sock = None /\ Moves(c, "killed")
       \/ sock # None /\ Exit(c)

-----------------------------------------------------------------------------
(* rustmux list: list_info_in and endpoint_client_state.                   *)

StartList(c) ==
    /\ "list" \in Commands /\ cpc[c] = "idle"
    /\ op' = [op EXCEPT ![c] = "list"]
    /\ cpc' = [cpc EXCEPT ![c] = "scan"]
    /\ UNCHANGED <<files, locks, conns, servers, fd, tgt>>

ScanEndpoint(c) ==
    /\ cpc[c] = "scan"
    /\ \/ /\ sock # None /\ lockFile # None
          /\ fd' = [fd EXCEPT ![c] = lockFile]
          /\ cpc' = [cpc EXCEPT ![c] = "lock_probe"]
          /\ UNCHANGED <<files, locks, conns, servers, op, tgt>>
       \/ lockFile = None /\ Connectable /\ Moves(c, "probe")
       \/ (sock = None \/ (lockFile = None /\ ~Connectable)) /\ Exit(c)

\* An exclusive holder proves an attachment; otherwise the socket is probed
\* while a shared lock is held.
ProbeClientLock(c) ==
    /\ cpc[c] = "lock_probe"
    /\ \/ excl[fd[c]] # None /\ Moves(c, "probe")
       \/ /\ excl[fd[c]] = None
          /\ shared' = [shared EXCEPT ![fd[c]] = @ \cup {c}]
          /\ Goto(c, "lock_held")
          /\ UNCHANGED <<files, workspace, excl, pidRec, conns, servers>>

ProbeConnect(c) ==
    /\ cpc[c] = "lock_held"
    /\ \/ /\ Connectable
          /\ shared' = [shared EXCEPT ![fd[c]] = @ \ {c}]
          /\ Goto(c, "probe")
          /\ UNCHANGED <<files, workspace, excl, pidRec, conns, servers>>
       \/ ~Connectable /\ Exit(c)

-----------------------------------------------------------------------------
(* Deleting a saved workspace: delete_saved_in.                            *)

\* Mutant: deletion does not exclude a creator.
StartDeleteUnlocked(c) ==
    /\ "delete" \in Commands /\ cpc[c] = "idle"
    /\ op' = [op EXCEPT ![c] = "delete"]
    /\ cpc' = [cpc EXCEPT ![c] = "check"]
    /\ UNCHANGED <<files, locks, conns, servers, fd, tgt>>

StartDelete(c) ==
    /\ "delete" \in Commands /\ cpc[c] = "idle"
    /\ AcquireWorkspace(c, "delete", "check")

CheckNoEndpoint(c) ==
    /\ cpc[c] = "check"
    /\ \/ sock # None /\ Exit(c)
       \/ sock = None /\ Moves(c, "erase")

EraseSnapshot(c) ==
    /\ cpc[c] = "erase"
    /\ saved' = FALSE
    /\ Release(c)
    /\ UNCHANGED <<sock, lockFile, pidFile, lastOf>>

-----------------------------------------------------------------------------
(* A command may end at any other point: a detach, a two second handshake  *)
(* or startup timeout, end of file, an error, or a signal.                 *)

Leave(c) == cpc[c] # "idle" /\ Exit(c)

-----------------------------------------------------------------------------
(* The server: supervisor::run_server, terminal::serve_inner.              *)

\* acquire_server opens the pid file and creates it when it is missing,
ServerOpenPid(s) ==
    /\ spc[s] = "start"
    /\ \E i \in Inodes :
         /\ OpenCreate(pidFile, i)
         /\ pidFile' = i
         /\ sfd' = [sfd EXCEPT ![s] = i]
    /\ spc' = [spc EXCEPT ![s] = "opened"]
    /\ UNCHANGED <<sock, lockFile, lastOf, saved, workspace, excl, shared, conns,
                   armed, sig, clients>>

\* takes an exclusive nonblocking flock ("refused" is the error "session
\* already has a server", which drops the endpoint),
ServerTakeLease(s) ==
    /\ spc[s] = "opened"
    /\ \/ /\ excl[sfd[s]] = None /\ shared[sfd[s]] = {}
          /\ excl' = [excl EXCEPT ![sfd[s]] = s]
          /\ SGoto(s, "locked")
       \/ /\ excl[sfd[s]] # None \/ shared[sfd[s]] # {}
          /\ SGoto(s, "refused") /\ UNCHANGED excl
    /\ UNCHANGED <<files, workspace, shared, pidRec, conns, clients>>

\* and replaces the record: set_len(0), then the process id.
ServerTruncatePid(s) ==
    /\ spc[s] = "locked"
    /\ pidRec' = [pidRec EXCEPT ![sfd[s]] = None]
    /\ SGoto(s, "truncated")
    /\ UNCHANGED <<files, workspace, excl, shared, conns, clients>>

ServerWritePid(s) ==
    /\ spc[s] = "truncated"
    /\ pidRec' = [pidRec EXCEPT ![sfd[s]] = s]
    /\ SGoto(s, "accept")
    /\ UNCHANGED <<files, workspace, excl, shared, conns, clients>>

\* accept_peer, and wait_for_client once a session runs.
Accept(s) ==
    /\ spc[s] \in {"accept", "detached"}
    /\ \E c \in backlog[s] :
         /\ peer' = [peer EXCEPT ![s] = c]
         /\ backlog' = [backlog EXCEPT ![s] = @ \ {c}]
    /\ SGoto(s, IF spc[s] = "accept" THEN "greet_first" ELSE "greet")
    /\ UNCHANGED <<files, locks, listener, greeted, clients>>

\* Mutant: Attached is sent without a Hello.
GreetUnasked(s) ==
    /\ spc[s] \in {"greet_first", "greet"}
    /\ greeted' = greeted \cup {peer[s]}
    /\ SGoto(s, IF spc[s] = "greet_first" THEN "setup" ELSE "attached")
    /\ UNCHANGED <<files, locks, listener, backlog, peer, clients>>

\* handshake::server: Hello has arrived, Attached is sent.
Greet(s) ==
    /\ spc[s] \in {"greet_first", "greet"}
    /\ peer[s] \in Clients
    /\ cpc[peer[s]] \in {"hello", "boot_hello"}
    /\ greeted' = greeted \cup {peer[s]}
    /\ SGoto(s, IF spc[s] = "greet_first" THEN "setup" ELSE "attached")
    /\ UNCHANGED <<files, locks, listener, backlog, peer, clients>>

\* The connection of s ends on the server's side.
Hangup(s, label) ==
    /\ peer' = [peer EXCEPT ![s] = None]
    /\ SGoto(s, label)
    /\ UNCHANGED <<locks, listener, backlog, greeted, clients>>

\* A failed handshake belongs to that client: keep accepting.
GreetFails(s) ==
    /\ spc[s] \in {"greet_first", "greet"}
    /\ Hangup(s, IF spc[s] = "greet_first" THEN "accept" ELSE "detached")
    /\ UNCHANGED files

\* serve_inner: shells, services and signal handlers, or an error.
Setup(s) ==
    /\ spc[s] = "setup"
    /\ \/ /\ armed' = [armed EXCEPT ![s] = TRUE]
          /\ spc' = [spc EXCEPT ![s] = "attached"]
          /\ UNCHANGED <<files, locks, conns, sfd, sig, clients>>
       \/ Hangup(s, "unlease") /\ UNCHANGED files

\* The attachment ends; finish_saves may write a checkpoint before the
\* connection is closed.
Detach(s) ==
    /\ spc[s] = "attached"
    /\ saved' \in {saved, TRUE}
    /\ Hangup(s, "detached")
    /\ UNCHANGED <<sock, lockFile, pidFile, lastOf>>

\* A manual save or an autosave completes.
Save(s) ==
    /\ spc[s] \in {"attached", "detached"}
    /\ saved' = TRUE
    /\ UNCHANGED <<sock, lockFile, pidFile, lastOf, locks, conns, servers, clients>>

\* Mutant: a detached server does not look for signals.
StopAttached(s) ==
    /\ spc[s] = "attached"
    /\ Hangup(s, "finish") /\ UNCHANGED files

\* The last pane exits, or the event loop sees the signal.
Stop(s) ==
    /\ spc[s] \in {"attached", "detached"}
    /\ Hangup(s, "finish") /\ UNCHANGED files

\* finish_saves(true) joins the writer before anything is released.
Finish(s) ==
    /\ spc[s] = "finish"
    /\ saved' \in {saved, TRUE}
    /\ SGoto(s, "unlease")
    /\ UNCHANGED <<sock, lockFile, pidFile, lastOf, locks, conns, clients>>

\* run_server drops its locals in reverse order: the server lease first,
ReleaseLease(s) ==
    /\ spc[s] = "unlease"
    /\ excl' = [excl EXCEPT ![sfd[s]] = None]
    /\ sfd' = [sfd EXCEPT ![s] = None]
    /\ spc' = [spc EXCEPT ![s] = "drop"]
    /\ UNCHANGED <<files, workspace, shared, pidRec, conns, armed, sig, clients>>

\* then the endpoint.
DropEndpoint(s) ==
    /\ spc[s] \in {"refused", "drop"}
    /\ sfd' = [sfd EXCEPT ![s] = None]
    /\ spc' = [spc EXCEPT ![s] = DropLabel(s)]
    /\ UNCHANGED <<files, locks, conns, armed, sig, clients>>

RemoveFiles(s) ==
    /\ spc[s] \in DOMAIN AfterUnlink
    /\ Unlink(spc[s])
    /\ SGoto(s, AfterUnlink[spc[s]])
    /\ UNCHANGED <<locks, conns, clients>>

\* The process ends and its listener closes, or it is killed at any point.
ServerExit(s) == spc[s] = "exit" /\ Die(s) /\ UNCHANGED clients
Crash(s) == Running(s) /\ Die(s) /\ UNCHANGED clients

-----------------------------------------------------------------------------

ClientStep(c) ==
    \/ StartNew(c) \/ LoadSnapshot(c) \/ ProbeStale(c) \/ UnlinkStale(c)
    \/ Bind(c) \/ CreateLockFile(c) \/ CreatePidFile(c) \/ BindFails(c)
    \/ DropWorkspace(c) \/ Fork(c) \/ ForkFails(c) \/ UndoCreate(c)
    \/ Relinquish(c)
    \/ StartAttach(c) \/ AttachAfterCreate(c) \/ ValidateSocket(c)
    \/ OpenLease(c) \/ TakeLease(c) \/ Connect(c) \/ RejoinWorkspace(c)
    \/ ReceiveAttached(c) \/ RecordConnection(c)
    \/ BootConnect(c) \/ BootDetach(c) \/ BootFinish(c)
    \/ StartProbe(c) \/ OpenPidFile(c) \/ ProbePidLock(c)
    \/ ReleasePidLock(c) \/ CreateMissing(c) \/ ReadPid(c)
    \/ SendSignal(c) \/ WaitForCleanup(c)
    \/ StartList(c) \/ ScanEndpoint(c) \/ ProbeClientLock(c)
    \/ ProbeConnect(c)
    \/ StartDelete(c) \/ CheckNoEndpoint(c) \/ EraseSnapshot(c)
    \/ Leave(c)

ServerStep(s) ==
    \/ ServerOpenPid(s) \/ ServerTakeLease(s)
    \/ ServerTruncatePid(s) \/ ServerWritePid(s)
    \/ Accept(s) \/ Greet(s) \/ GreetFails(s) \/ Setup(s)
    \/ Detach(s) \/ Save(s) \/ Stop(s) \/ Finish(s) \/ ReleaseLease(s)
    \/ DropEndpoint(s) \/ RemoveFiles(s) \/ ServerExit(s) \/ Crash(s)

Next ==
    \/ \E c \in Clients : ClientStep(c)
    \/ \E s \in Servers : ServerStep(s)

Spec == Init /\ [][Next]_vars

-----------------------------------------------------------------------------
(* What the protocol is for.                                               *)

\* A creator between bind and fork, or while it undoes the bind.
Bound ==
    {"lock_file", "pid_file", "unlock", "fork",
     "rm_lock", "rm_pid", "rm_last", "rm_sock"}

\* The socket of s was bound and has not been unlinked by its owner.
Owning(s) ==
    \/ \E c \in Clients : cpc[c] \in Bound /\ tgt[c] = s
    \/ spc[s] \notin {"unborn", "exit", "dead"}

\* A live endpoint is never replaced: from bind to its own unlink, through
\* fork, relinquish, refusal, shutdown and the creator's death, NAME.sock
\* names the socket of the server that owns it.  Two servers never own the
\* name together.
EndpointOwned == \A s \in Servers : Owning(s) => sock = s

\* kill and the pid checks can find every server that accepts clients: the
\* record they open is the one it has locked and holds its process id.
LeaseReachable ==
    \A s \in Servers :
        spc[s] \in {"accept", "greet_first", "setup", "attached", "detached",
                   "greet", "finish", "unlease"}
        => /\ pidFile # None /\ sfd[s] = pidFile
           /\ excl[pidFile] = s /\ pidRec[pidFile] = s

\* NAME.last shows a connection to the server that runs, not to a former one.
LastIsCurrent ==
    sock # None /\ Running(sock) /\ Owning(sock)
        => lastOf \in {None, sock}

\* kill reports success only when the server it signalled has unlinked its
\* endpoint, so the caller can create the name again at once.
KilledServerIsGone ==
    \A c \in Clients : cpc[c] = "killed" => spc[tgt[c]] \in {"exit", "dead"}

\* A snapshot is deleted only while no server owns the name and no creator
\* has loaded it: it never comes back from a server that outlived it.
DeleteSparesLive ==
    [][saved /\ ~saved' =>
         /\ \A s \in Servers : ~Owning(s)
         /\ \A c \in Clients : cpc[c] \notin {"stale", "unlink", "bind"}]_vars

-----------------------------------------------------------------------------
(* The endpoint implements its abstract promise.                           *)

up == {s \in Servers : listener[s] # {}}

holders == {s \in Servers : Owning(s)}

Endpoint == INSTANCE NameOwner WITH owner <- sock

EndpointSpec == Endpoint!Spec

-----------------------------------------------------------------------------
(* Liveness.  A command never blocks: every wait has a timeout, so it takes *)
(* its next step unless it is an attachment a user keeps open.  The event   *)
(* loop looks for a signal in every iteration, before the attachment or the *)
(* wait for a client can end (terminal.rs), hence SF on that step alone.    *)

ClientProgress(c) ==
    /\ cpc[c] \notin {"idle", "attached"}
    /\ ClientStep(c)

ServerProgress(s) ==
    \/ ServerOpenPid(s) \/ ServerTakeLease(s)
    \/ ServerTruncatePid(s) \/ ServerWritePid(s)
    \/ Accept(s) \/ Greet(s) \/ GreetFails(s) \/ Setup(s)
    \/ Finish(s) \/ ReleaseLease(s)
    \/ DropEndpoint(s) \/ RemoveFiles(s) \/ ServerExit(s)

Signalled(s) == sig[s]

Obeys(s) == Signalled(s) /\ Stop(s)

Fairness ==
    /\ \A c \in Clients : WF_vars(ClientProgress(c))
    /\ \A s \in Servers : WF_vars(ServerProgress(s)) /\ SF_vars(Obeys(s))

FairSpec == Spec /\ Fairness

Holds(c) == workspace = c

\* Identities are only compared for equality (for runs of safety properties).
Symmetry == Permutations(Clients) \cup Permutations(Servers)
              \cup Permutations(Inodes)
=============================================================================
