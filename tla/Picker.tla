-------------------------------- MODULE Picker --------------------------------
(***************************************************************************)
(* The session manager (session/picker.rs, session/picker/worker.rs and its   *)
(* loop in session/supervisor.rs): a list of sessions that a worker thread    *)
(* refreshes while the user moves, searches, renames, deletes, disconnects,   *)
(* and the choice that closes it.                                           *)
(*                                                                         *)
(* Sessions are numbered in name order; `live`, `watched` and `snapshots` are *)
(* the sessions there are, which other processes change too.  A query is the  *)
(* set of names it matches, the edited name the name it spells (0 when it is   *)
(* not a valid one).  The times of connection, which order equal rows, and the *)
(* decoding of escape sequences are left out.                                *)
(***************************************************************************)
EXTENDS Integers, Sequences, FiniteSets, SequencesExt

CONSTANTS
    Names,          \* a set of positive numbers
    Worlds,         \* the sessions there may be at first: [live, watched, snapshots]
    Queries,        \* the sets of names that queries match, with Names
    NewNames,       \* the names typed into the editor
    Readings,       \* of the configuration: nothing new ("same"), an "error", a "right" file
                    \* after one, new "bindings"
    MaxServers,     \* servers that ever run
    MaxChanges,     \* what other processes do, besides
    MaxRequests     \* what the manager asks of its worker

None == 0
NoRequest == [kind |-> "none", name |-> None, new |-> None, pid |-> 0]
Request(kind, name, new, pid) == [kind |-> kind, name |-> name, new |-> new, pid |-> pid]
NoResult == [request |-> NoRequest, ok |-> FALSE]
NoChoice == [kind |-> "none", name |-> None]
Off == -1               \* no name is edited
NoQuery == {None}       \* no search
NoMail == [posted |-> FALSE, listed |-> FALSE, list |-> << >>, current |-> None, result |-> NoResult]
Idle == [request |-> NoRequest, ok |-> FALSE, done |-> FALSE]

VARIABLES
    live,       \* the server under each name, 0 for none
    watched,    \* the servers that have a client
    snapshots,  \* the names that have a snapshot
    servers,    \* how many servers have run
    changes,
    home,       \* the server whose client opened the manager, 0 for none
    \* the worker
    requests,
    queue,      \* the request in its channel, of one place
    work,       \* Idle, or the result it is to post
    alias,      \* the name it knows `home` by
    mail,       \* Updates
    \* the manager
    list, selected, current, armed, source, editor, query, busy, status,
    reloadError, listError, choice

world == <<live, watched, snapshots, servers, changes>>
worker == <<requests, queue, work, alias, mail>>
view == <<list, selected, current, armed, source, editor, query, busy, status,
          reloadError, listError, choice>>
vars == <<world, home, worker, view>>

-----------------------------------------------------------------------------
(* Lists. *)

Rank(row, name) ==
    CASE row.saved -> 3
      [] ~row.saved /\ row.name = name /\ name # None -> 0
      [] ~row.saved /\ row.name # name /\ row.attached -> 1
      [] OTHER -> 2

Before(p, q, name) ==
    Rank(p, name) < Rank(q, name) \/ (Rank(p, name) = Rank(q, name) /\ p.name < q.name)
Ordered(rows, name) == SetToSortSeq(rows, LAMBDA p, q : Before(p, q, name))

Listing ==
    {[name |-> n, saved |-> FALSE, attached |-> live[n] \in watched, pid |-> live[n]]
        : n \in {n \in Names : live[n] # 0}}
    \cup {[name |-> n, saved |-> TRUE, attached |-> FALSE, pid |-> 0]
        : n \in {n \in snapshots : live[n] = 0}}

HomeName == {n \in Names : home # 0 /\ live[n] = home}

Filtered(rows, q) == IF q = NoQuery THEN rows ELSE SelectSeq(rows, LAMBDA r : r.name \in q)
Visible == Filtered(list, query)
At(rows, index) == IF index \in DOMAIN rows THEN {rows[index]} ELSE {}
Chosen == At(Visible, selected)
Place(rows, name) == {i \in DOMAIN rows : rows[i].name = name}
Clamp(index, count) == IF index > count THEN (IF count = 0 THEN 1 ELSE count) ELSE index

DefaultSelection(rows, name) ==
    LET free == {i \in DOMAIN rows : ~rows[i].attached /\ rows[i].name # name} IN
    IF free = {} THEN 1 ELSE CHOOSE i \in free : \A j \in free : i <= j

-----------------------------------------------------------------------------
(* What the manager is opened on. *)

NoArmed == [name |-> None, saved |-> FALSE]
NoSource == [name |-> None, pid |-> 0]

Opened(name, rows) ==
    /\ list = rows /\ selected = DefaultSelection(rows, name)
    /\ current = name
    /\ armed = NoArmed /\ source = NoSource /\ editor = Off /\ query = NoQuery
    /\ busy = "none" /\ status = "none" /\ reloadError = FALSE /\ listError = FALSE
    /\ choice = NoChoice
    /\ queue = NoRequest /\ work = Idle /\ alias = name /\ mail = NoMail

Init ==
    /\ \E w \in Worlds : live = w.live /\ watched = w.watched /\ snapshots = w.snapshots
    /\ servers = Cardinality({n \in Names : live[n] # 0})
    /\ changes = 0 /\ requests = 0
    /\ home \in {0, 1}
    /\ home # 0 => HomeName # {} /\ home \notin watched
    /\ Listing # {}
    /\ LET name == IF home = 0 THEN None ELSE CHOOSE n \in HomeName : TRUE IN
       Opened(name, Ordered(Listing, name))

Browsing == choice = NoChoice

-----------------------------------------------------------------------------
(* Other processes. *)

Changes == changes < MaxChanges /\ changes' = changes + 1

Exits == \E n \in Names :
    /\ Changes /\ live[n] # 0
    /\ live' = [live EXCEPT ![n] = 0] /\ watched' = watched \ {live[n]}
    /\ snapshots' \in {snapshots, snapshots \cup {n}}
    /\ UNCHANGED servers

Starts == \E n \in Names :
    /\ Changes /\ live[n] = 0 /\ servers < MaxServers
    /\ servers' = servers + 1
    /\ live' = [live EXCEPT ![n] = servers + 1]
    /\ watched' = watched \cup {servers + 1}
    /\ UNCHANGED snapshots

Leaves == \E p \in watched :
    /\ Changes /\ watched' = watched \ {p} /\ UNCHANGED <<live, snapshots, servers>>

\* The whole move of one name to another that has neither server nor snapshot.
Moved(old, new) ==
    /\ new \notin snapshots /\ live[new] = 0
    /\ live' = [live EXCEPT ![old] = 0, ![new] = live[old]]
    /\ snapshots' = IF old \in snapshots THEN (snapshots \ {old}) \cup {new} ELSE snapshots
    /\ UNCHANGED <<watched, servers>>

Renames == \E old, new \in Names : Changes /\ live[old] # 0 /\ old # new /\ Moved(old, new)

Elsewhere == (Exits \/ Starts \/ Leaves \/ Renames) /\ UNCHANGED <<home, worker, view>>

-----------------------------------------------------------------------------
(* The worker. *)

Takes ==
    /\ work = Idle /\ queue # NoRequest
    /\ work' = [request |-> queue, ok |-> FALSE, done |-> FALSE] /\ queue' = NoRequest
    /\ UNCHANGED <<world, home, requests, alias, mail, view>>

Fails == UNCHANGED <<live, watched, snapshots, servers>>

Saves(r, ok) ==
    IF ok THEN /\ live[r.name] # 0 /\ snapshots' = snapshots \cup {r.name}
               /\ UNCHANGED <<live, watched, servers>>
    ELSE Fails

Deletes(r, ok) ==
    IF ok THEN /\ live[r.name] = 0 /\ r.name \in snapshots
               /\ snapshots' = snapshots \ {r.name}
               /\ UNCHANGED <<live, watched, servers>>
    ELSE Fails

\* An unchanged saved name is a success that moves nothing.
RenamesFor(r, ok) ==
    IF ~ok THEN Fails
    ELSE IF r.pid # 0 THEN live[r.name] = r.pid /\ r.name # r.new /\ Moved(r.name, r.new)
    ELSE /\ live[r.name] = 0 /\ r.name \in snapshots
         /\ IF r.name = r.new THEN Fails ELSE Moved(r.name, r.new)

\* A disconnect that timed out may still be done.
Disconnects(r, ok) ==
    \/ /\ live[r.name] = r.pid /\ r.pid \in watched
       /\ watched' = watched \ {r.pid} /\ UNCHANGED <<live, snapshots, servers>>
    \/ ~ok /\ Fails

Does == \E ok \in BOOLEAN :
    /\ work # Idle /\ ~work.done
    /\ LET r == work.request IN
       /\ r.kind = "save" => Saves(r, ok)
       /\ r.kind = "delete" => Deletes(r, ok)
       /\ r.kind = "rename" => RenamesFor(r, ok)
       /\ r.kind = "disconnect" => Disconnects(r, ok)
       /\ work' = [request |-> r, ok |-> ok, done |-> TRUE]
    /\ UNCHANGED <<changes, home, requests, queue, alias, mail, view>>

\* The name under which the listing shows the socket of `home`.
Named == IF HomeName # {} THEN CHOOSE n \in HomeName : TRUE ELSE alias

KeptResult(result) == IF result = NoResult THEN mail.result ELSE result

\* Lists, after an operation or every 500 ms, and posts what it knows.
Posts == \E listed \in BOOLEAN :
    /\ work = Idle => queue = NoRequest
    /\ work # Idle => work.done
    /\ LET result == IF work = Idle THEN NoResult ELSE [request |-> work.request, ok |-> work.ok]
       IN
       /\ alias' = IF listed THEN Named ELSE alias
       /\ mail' = [posted |-> TRUE, listed |-> listed,
                   list |-> IF listed THEN Ordered(Listing, alias') ELSE << >>,
                   current |-> alias', result |-> KeptResult(result)]
    /\ work' = Idle
    /\ UNCHANGED <<world, home, requests, queue, view>>

Works == choice.kind # "acted" /\ (Takes \/ Does \/ (Browsing /\ Posts))

-----------------------------------------------------------------------------
(* The manager reads its mail. *)

\* Mutant: the selection is an index, whatever the rows have become.
SelectionByIndex(next) == Clamp(selected, Len(Filtered(next, query)))

Reselected(next) ==
    LET visible == Filtered(next, query)
        same == UNION {Place(visible, r.name) : r \in Chosen}
    IN Clamp(IF same = {} THEN selected ELSE CHOOSE i \in same : TRUE, Len(visible))

Disarmed(next) == IF next = list THEN armed ELSE NoArmed

Polls == \E reading \in Readings :
    LET said == IF mail.posted /\ mail.current # None THEN mail.current ELSE current
        next == IF mail.listed THEN Ordered(ToSet(mail.list), said) ELSE list
        result == mail.result
        request == result.request
        renamed == request.kind = "rename" /\ result.ok
        name == IF renamed /\ said = request.name THEN request.new ELSE said
        rows == IF renamed THEN Ordered(ToSet(next), name) ELSE next
        error == IF reading = "same" THEN reloadError ELSE reading = "error"
    IN
    /\ Browsing /\ (mail.posted \/ reading # "same")
    /\ current' = name /\ list' = rows
    /\ listError' = IF mail.posted THEN ~mail.listed ELSE listError
    /\ query' = IF renamed THEN NoQuery ELSE query
    /\ selected' =
        LET refreshed == IF next = list THEN selected ELSE Reselected(next) IN
        IF renamed
        THEN Clamp(IF Place(rows, request.new) = {} THEN refreshed
                   ELSE CHOOSE i \in Place(rows, request.new) : TRUE, Len(rows))
        ELSE refreshed
    /\ busy' = IF request.kind # "none" THEN "none" ELSE busy
    /\ LET closes == renamed /\ source.name = request.name IN
       /\ source' = IF closes THEN NoSource ELSE source
       /\ editor' = IF closes THEN Off ELSE editor
    /\ reloadError' = error
    /\ status' =
        IF request.kind # "none" THEN "told"
        ELSE IF error # reloadError /\ busy = "none" THEN "none" ELSE status
    /\ armed' = IF reading = "bindings" THEN NoArmed ELSE Disarmed(next)
    /\ mail' = NoMail
    /\ UNCHANGED <<world, home, requests, queue, work, alias, choice>>

-----------------------------------------------------------------------------
(* Keys. *)

\* The channel has one place, and no operation waits while another one is busy.
channel == <<requests, queue, busy>>
Sends(request) ==
    /\ requests < MaxRequests /\ requests' = requests + 1
    /\ queue = NoRequest /\ queue' = request /\ busy' = request.kind

Free == busy = "none"


SaveTarget ==
    IF current # None
    THEN {r.name : r \in {r \in ToSet(list) : r.name = current /\ ~r.saved}}
    ELSE {r.name : r \in {r \in Chosen : ~r.saved}}

SaveKey ==
    /\ armed' = NoArmed
    /\ IF Free
       THEN /\ status' = "told"
            /\ IF SaveTarget = {} THEN UNCHANGED channel
               ELSE \E n \in SaveTarget : Sends(Request("save", n, None, 0))
       ELSE UNCHANGED <<status, channel>>
    /\ UNCHANGED <<list, selected, current, source, editor, query, choice>>

\* Every key but Save first forgets a confirmation and, when idle, the status.
Cleared == IF Free THEN "none" ELSE status
Forgets == armed' = NoArmed /\ status' = Cleared
Ends(kind, name) == choice' = [kind |-> kind, name |-> name]

EditorOpen ==
    /\ armed' = NoArmed /\ busy # "rename"
    /\ IF editor = None THEN status' = "told" /\ UNCHANGED <<channel, choice>>
       ELSE IF source = NoSource
       THEN Ends("create", editor) /\ status' = Cleared /\ UNCHANGED channel
       ELSE /\ UNCHANGED choice
            /\ IF Free
               THEN /\ Sends(Request("rename", source.name, editor, source.pid))
                    /\ status' = "told"
               ELSE status' = Cleared /\ UNCHANGED channel
    /\ UNCHANGED <<list, selected, current, source, editor, query>>

EditorCancel ==
    /\ Forgets /\ editor' = Off /\ source' = NoSource
    /\ UNCHANGED <<list, selected, current, query, channel, choice>>

EditorText == \E name \in NewNames \cup {None} :
    /\ Forgets /\ editor' = IF busy = "rename" THEN editor ELSE name
    /\ UNCHANGED <<list, selected, current, source, query, channel, choice>>

InEditor == editor # Off /\ (EditorOpen \/ EditorCancel \/ EditorText)

Navigates ==
    /\ Forgets /\ Visible # << >>
    /\ LET count == Len(Visible)
           index == Clamp(selected, count) IN
       selected' \in {IF index = 1 THEN count ELSE index - 1, IF index = count THEN 1 ELSE index + 1}
    /\ UNCHANGED <<list, current, source, editor, query, channel, choice>>

RenameKey ==
    /\ Free /\ Forgets
    /\ IF Chosen = {} THEN UNCHANGED <<source, editor>>
       ELSE \E r \in Chosen : source' = [name |-> r.name, pid |-> r.pid] /\ editor' = r.name
    /\ UNCHANGED <<list, selected, current, query, channel, choice>>

DisconnectTarget == {r \in Chosen : r.name # current /\ ~r.saved /\ r.attached /\ r.pid # 0}

DisconnectKey ==
    /\ Free /\ armed' = NoArmed /\ status' = "told"
    /\ IF DisconnectTarget = {} THEN UNCHANGED channel
       ELSE \E r \in DisconnectTarget : Sends(Request("disconnect", r.name, None, r.pid))
    /\ UNCHANGED <<list, selected, current, source, editor, query, choice>>

OpenKey ==
    /\ Forgets /\ \E r \in Chosen : Ends("attach", r.name)
    /\ UNCHANGED <<list, selected, current, source, editor, query, channel>>

SearchText ==
    /\ query # NoQuery /\ Forgets
    /\ \/ query' \in Queries \cup {Names} /\ selected' = 1
       \/ \E r \in Chosen : query' = {r.name} /\ selected' = 1
       \/ /\ query' = NoQuery
          /\ selected' = IF Chosen = {} THEN 1
                         ELSE CHOOSE i \in DOMAIN list : list[i] \in Chosen
    /\ UNCHANGED <<list, current, source, editor, channel, choice>>

CreateOrSearch ==
    /\ query = NoQuery /\ Forgets
    /\ \/ editor' = None /\ UNCHANGED query
       \/ query' = Names /\ UNCHANGED editor
    /\ UNCHANGED <<list, selected, current, source, channel, choice>>

DeleteKey ==
    /\ query = NoQuery
    /\ IF ~Free \/ Chosen = {}
       THEN Forgets /\ UNCHANGED <<channel, choice>>
       ELSE \E r \in Chosen :
            LET this == [name |-> r.name, saved |-> r.saved] IN
            IF armed # this
            THEN armed' = this /\ status' = Cleared /\ UNCHANGED <<channel, choice>>
            ELSE /\ armed' = NoArmed
                 /\ IF r.saved
                    THEN /\ Sends(Request("delete", r.name, None, 0)) /\ status' = "told"
                         /\ UNCHANGED choice
                    ELSE Ends("kill", r.name) /\ status' = Cleared /\ UNCHANGED channel
    /\ UNCHANGED <<list, selected, current, source, editor, query>>

CancelKey ==
    /\ query = NoQuery /\ Forgets /\ Ends("cancel", current)
    /\ UNCHANGED <<list, selected, current, source, editor, query, channel>>

\* The row of a key is clamped to the rows there are.
Table ==
    /\ editor = Off
    /\ \/ Navigates \/ RenameKey \/ DisconnectKey \/ OpenKey
       \/ SearchText \/ CreateOrSearch \/ DeleteKey \/ CancelKey

Presses ==
    /\ Browsing /\ (SaveKey \/ InEditor \/ Table)
    /\ UNCHANGED <<world, home, work, alias, mail, reloadError, listError>>

-----------------------------------------------------------------------------
(* The choice, once the worker has done what it accepted. *)

Joined == queue = NoRequest /\ (work = Idle \/ work.done)
Acted == choice' = [choice EXCEPT !.kind = "acted"]
Leaving == UNCHANGED <<watched, snapshots, changes, home, worker, list, selected, current,
                       armed, source, editor, query, busy, status, reloadError, listError>>

\* A selected session is looked up again, and restored when only its snapshot is left.
Attaches ==
    /\ choice.kind \in {"attach", "create"} /\ Joined
    /\ LET n == choice.name IN
       IF live[n] = 0 /\ (choice.kind = "create" \/ n \in snapshots) /\ servers < MaxServers
       THEN live' = [live EXCEPT ![n] = servers + 1] /\ servers' = servers + 1
       ELSE UNCHANGED <<live, servers>>
    /\ Acted /\ Leaving

Returns ==
    /\ choice.kind = "cancel" /\ Joined
    /\ Acted /\ Leaving /\ UNCHANGED <<live, servers>>

\* kill signals the server that has the name now, and the manager opens again.
Kills ==
    /\ choice.kind = "kill" /\ Joined
    /\ \E n \in {choice.name}, name \in {IF current = choice.name THEN None ELSE current} :
        /\ live[n] # 0
        /\ live' = [live EXCEPT ![n] = 0] /\ watched' = watched \ {live[n]}
        /\ snapshots' \in {snapshots, snapshots \cup {n}}
        /\ home' = IF name = None THEN 0 ELSE live'[name]
        /\ UNCHANGED <<servers, changes>>
        /\ Listing' # {}
        /\ list' = Ordered(Listing', name) /\ selected' = DefaultSelection(list', name)
        /\ current' = name /\ alias' = name
        /\ armed' = NoArmed /\ source' = NoSource /\ editor' = Off /\ query' = NoQuery
        /\ busy' = "none" /\ status' = "none" /\ reloadError' = FALSE /\ listError' = FALSE
        /\ choice' = NoChoice
        /\ requests' = requests /\ queue' = NoRequest /\ work' = Idle /\ mail' = NoMail

Next == Elsewhere \/ Works \/ Polls \/ Presses \/ Attaches \/ Returns \/ Kills
Spec == Init /\ [][Next]_vars

-----------------------------------------------------------------------------

\* The footer (picker_footer): an answer or an error hides the confirmation.
Footer ==
    CASE status # "none" -> "status"
      [] status = "none" /\ (reloadError \/ listError) -> "error"
      [] OTHER -> IF armed # NoArmed THEN "confirm" ELSE "hints"

\* What a second press of the delete key would destroy is the selected row, as it
\* is shown: the same name, and still live or still only saved, whatever lists,
\* answers and bindings came in between.
ConfirmIsShown ==
    armed # NoArmed => \E r \in Chosen : r.name = armed.name /\ r.saved = armed.saved

\* One operation at a time: the manager waits for an answer exactly while one
\* request is in the channel, at the worker or in the mailbox, so that no answer
\* is lost and no key is refused for ever.
Waiting == {r \in {queue, work.request, mail.result.request} : r # NoRequest}
OneOperation ==
    /\ Cardinality({i \in 1..3 : <<queue, work.request, mail.result.request>>[i] # NoRequest}) <= 1
    /\ Browsing => \A k \in {"save", "delete", "rename", "disconnect"} :
            busy = k <=> \E r \in Waiting : r.kind = k

\* A refresh never moves the selection to another session while its own is still
\* shown, and a finished rename selects the session under its new name.
SelectionStays ==
    Browsing /\ Browsing' /\ mail.posted /\ ~mail'.posted =>
        LET renamed == mail.result.request.kind = "rename" /\ mail.result.ok
            names == IF renamed THEN {mail.result.request.new} ELSE {r.name : r \in Chosen}
        IN \A n \in names : Place(Visible', n) # {} => {r.name : r \in Chosen'} = {n}

\* The manager goes on knowing the session it was opened from, whoever renames it:
\* after a refresh, the name to return to is that of the server it came from.
ReturnsHome ==
    (Browsing /\ mail.posted /\ mail.listed /\ ~mail'.posted /\ mail.result.request.kind # "rename"
        /\ home' = home /\ home # 0) =>
        \A r \in ToSet(list') : r.pid = home => current' = r.name
=============================================================================
