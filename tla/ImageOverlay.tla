---------------------------- MODULE ImageOverlay ----------------------------
(***************************************************************************)
(* The pictures of a pane as the terminal outside shows them                *)
(* (graphics/outer.rs, KittyOverlays).  A frame holds only so much: what does *)
(* not fit waits for the next one, a picture on display stays until all that  *)
(* replaces it has been sent, and pictures stay outside, unseen, to be placed  *)
(* again without being sent again.  Whatever was sent has to be taken back one  *)
(* day, by its id: there may be pictures outside that are not ours.            *)
(***************************************************************************)
EXTENDS Naturals, Sequences, FiniteSets, SequencesExt

CONSTANTS
    MaxCached,      \* MAX_CACHED_OUTER_IMAGES
    MaxChanges,     \* bound: changes of the pane
    MaxId           \* bound: pictures sent, and placements of those in the cache

Bands == {"behind", "above"}    \* drawn in this order

\* What a band has: one picture placed whole ("one", with its generation), more
\* that must be composed ("many", two tiles), one scrolled out of sight ("off"), or
\* placeholders of which some are still missing ("sparse").
Content(kind, gen) == [kind |-> kind, gen |-> gen]
Nothing == Content("none", 0)
Contents(band) ==
    {Nothing, Content("one", 1)}
    \cup IF band = "behind" THEN {Content("many", 0)}
         ELSE {Content("one", 2), Content("sparse", 0), Content("off", 0)}

Tiles(content) ==
    CASE content.kind = "many" -> {1, 2}
      [] content.kind \in {"one", "sparse"} -> {1}
      [] OTHER -> {}

VARIABLES
    pane,       \* what is to be shown: content of each band, its revision, its place
    entries,    \* entries: overlays of the scene
    retired,    \* overlays of the scene before, still on display
    staged,     \* staged_placements: entries sent and not yet on display
    deletes,    \* pending_delete
    cached,     \* cached_images: pictures kept outside, the least used first
    deferred,   \* incomplete_virtual: the placeholders waited for
    retry,      \* pending_retry
    shm,        \* shm_supported
    nextId, nextPlacement,
    outside,    \* the terminal: its pictures and their placements
    failed      \* ids the terminal has said to be missing, answers on their way

vars == <<pane, entries, retired, staged, deletes, cached, deferred, retry, shm, nextId,
          nextPlacement, outside, failed>>

NotDeferred == [rev |-> 0, place |-> 0, waiting |-> FALSE, due |-> FALSE]

Init ==
    /\ pane = [content |-> [b \in Bands |-> Nothing], rev |-> 1, place |-> 1]
    /\ entries = {} /\ retired = {} /\ staged = {} /\ deletes = {} /\ cached = << >>
    /\ deferred = NotDeferred /\ retry = FALSE /\ shm \in BOOLEAN
    /\ nextId = 1 /\ nextPlacement = 1
    /\ outside = [pictures |-> {}, shown |-> {}] /\ failed = {}

\* KittyOverlay::deletion: a picture in the cache only loses its placement.
Deletion(o) == [id |-> o.id, placement |-> o.placement]
Whole(id) == [id |-> id, placement |-> 0]

\* The terminal outside, told to delete.
Without(out, gone) ==
    LET hit(s) == \E d \in gone : d.id = s.id /\ d.placement \in {0, s.placement}
    IN  [pictures |-> {p \in out.pictures : Whole(p.id) \notin gone},
         shown |-> {s \in out.shown : ~hit(s)}]

\* Told to place pictures, it places those it has, and names the others.
Has(out, o) == \E p \in out.pictures : p.id = o.id
Places(out, overlays) ==
    [out EXCEPT !.shown = @ \cup {[id |-> o.id, placement |-> o.placement, band |-> o.band,
                                   tile |-> o.tile, place |-> o.place] :
                                     o \in {o \in overlays : Has(out, o)}}]
Missing(out, overlays) == {o.id : o \in {o \in overlays : ~Has(out, o)}}

\* can_retain: the same place, and a picture is still placed in that band.
CanRetain(old) ==
    /\ old.place = pane.place
    /\ pane.content[old.band].kind \in {"one", "many", "off"}

-----------------------------------------------------------------------------
\* A frame under way: what has been written so far.
Frame(fit) ==
    [entries |-> entries, staged |-> staged, retired |-> retired, deletes |-> deletes,
     cached |-> cached, deferred |-> deferred, retry |-> FALSE, nextId |-> nextId,
     nextPlacement |-> nextPlacement, outside |-> outside, failed |-> failed, fit |-> fit]

\* flush_deletes: those that the frame has no room for are left.
Flush(f) ==
    LET left == f.deletes \cap f.fit.undeleted
    IN  [f EXCEPT !.outside = Without(@, f.deletes \ left), !.deletes = left,
                  !.retry = @ \/ left # {}]

\* The overlays of an older scene leave: on display those that can stay until they
\* are replaced; those never placed, and all others, are deleted.
Leaving(f) ==
    LET stay == {o \in f.entries : o.rev = pane.rev /\ o.place = pane.place}
        leave == f.entries \ stay
        kept == {o \in f.retired : CanRetain(o)}
        retire == {o \in leave \ f.staged : CanRetain(o)}
    IN  [f EXCEPT !.entries = stay, !.staged = @ \cap stay, !.retired = kept \cup retire,
                  !.deletes = @ \cup {Deletion(o) : o \in (f.retired \ kept) \cup (leave \ retire)}]

Overlay(band, tile, id, placement) ==
    [band |-> band, tile |-> tile, id |-> id, placement |-> placement,
     rev |-> pane.rev, place |-> pane.place]

Used(f, id) == \E o \in f.entries \cup f.retired : o.id = id

\* make_cache_room: pictures of the cache that nothing refers to.
Victims(f) == {i \in 1..Len(f.cached) : Len(f.cached) >= MaxCached /\ ~Used(f, f.cached[i].id)}

MakeRoom(f) ==
    IF Victims(f) = {} THEN Flush(f)
    ELSE LET i == CHOOSE i \in Victims(f) : \A j \in Victims(f) : i <= j
         IN  Flush([f EXCEPT !.cached = RemoveAt(@, i), !.deletes = @ \cup {Whole(f.cached[i].id)}])

\* A placement is written, or kept back until the scene is complete.
Placing(f, o, staging) ==
    IF staging THEN [f EXCEPT !.entries = @ \cup {o}, !.staged = @ \cup {o}]
    ELSE [f EXCEPT !.entries = @ \cup {o}, !.outside = Places(@, {o}),
                   !.failed = @ \cup Missing(f.outside, {o})]

Sent(f, o, content) ==
    [f EXCEPT !.nextId = @ + 1,
              !.outside.pictures = @ \cup {[id |-> o.id, what |-> content, tile |-> o.tile]}]

\* A picture of the cache is placed again.
PlaceCached(f, band, i, staging) ==
    IF <<band, 1>> \in f.fit.full THEN [f EXCEPT !.retry = TRUE]
    ELSE LET c == f.cached[i]
         IN  [Placing(f, Overlay(band, 1, c.id, f.nextPlacement), staging)
                 EXCEPT !.nextPlacement = @ + 1, !.cached = Append(RemoveAt(@, i), c)]

\* A picture is sent through shared memory, for the cache when it has room.
SendShared(f, band, staging) ==
    LET content == pane.content[band]
        room == MakeRoom(f)
        caches == Len(room.cached) < MaxCached
        o == Overlay(band, 1, f.nextId, IF caches THEN f.nextPlacement ELSE 0)
        sent == Placing(Sent(room, o, content), o, staging)
    IN  IF <<band, 1>> \in f.fit.full THEN [f EXCEPT !.retry = TRUE]
        ELSE IF room.deletes # {} THEN room
        ELSE IF caches
             THEN [sent EXCEPT !.nextPlacement = @ + 1,
                               !.cached = Append(@, [id |-> o.id, gen |-> content.gen])]
             ELSE sent

\* The picture is composed and sent tile by tile.
SendTiles(f, band, staging) ==
    LET content == pane.content[band]
        tile(g, t) ==
            IF t \notin Tiles(content) \/ \E o \in g.entries : o.band = band /\ o.tile = t THEN g
            ELSE IF <<band, t>> \in f.fit.full THEN [g EXCEPT !.retry = TRUE]
            ELSE LET o == Overlay(band, t, g.nextId, 0)
                 IN  Placing(Sent(g, o, content), o, staging)
    IN  tile(tile(f, 1), 2)

\* Placeholders are waited for, each change of the scene anew, until they have been
\* quiet for INCOMPLETE_VIRTUAL_QUIET.
Awaited(d) ==
    LET same == d.rev = pane.rev /\ d.place = pane.place
    IN  IF same THEN [d EXCEPT !.waiting = @ /\ ~d.due]
        ELSE [rev |-> pane.rev, place |-> pane.place, waiting |-> TRUE, due |-> FALSE]

Band(f, band, staging) ==
    LET content == pane.content[band]
        sparse == content.kind = "sparse"
        g == [f EXCEPT !.deferred = IF sparse THEN Awaited(@)
                                    ELSE IF band = "above" THEN NotDeferred ELSE @]
        drawn == \E o \in g.entries : o.band = band
        hits == {i \in 1..Len(g.cached) : g.cached[i].gen = content.gen}
    IN  IF sparse /\ g.deferred.waiting THEN g
        ELSE IF shm /\ content.kind = "one" /\ (drawn \/ hits # {})
             THEN IF drawn THEN g ELSE PlaceCached(g, band, CHOOSE i \in hits : TRUE, staging)
        ELSE IF shm /\ content.kind = "one" /\ g.fit.shared THEN SendShared(g, band, staging)
        ELSE SendTiles(g, band, staging)

\* Mutant: a replacement that is not complete is published.
PublishEarly(f) ==
    LET placed == Places(f.outside, f.staged)
    IN  [f EXCEPT !.outside = Without(placed, {Deletion(o) : o \in f.retired}),
                  !.failed = @ \cup Missing(f.outside, f.staged),
                  !.staged = {}, !.retired = {}]

\* publish_replacement: in one frame or not at all.
Publish(f) ==
    LET placed == Places(f.outside, f.staged)
    IN  IF f.retry \/ (f.retired = {} /\ f.staged = {}) THEN f
        ELSE IF <<"publish", 0>> \in f.fit.full THEN [f EXCEPT !.retry = TRUE]
        ELSE [f EXCEPT !.outside = Without(placed, {Deletion(o) : o \in f.retired}),
                       !.failed = @ \cup Missing(f.outside, f.staged),
                       !.staged = {}, !.retired = {}]

\* KittyOverlays::render
Bare == \A b \in Bands : pane.content[b] = Nothing

Draws(f, staging) ==
    IF f.deletes # {} THEN f
    ELSE Publish(IF Bare \/ (~retry /\ f.entries # {}) THEN f
                 ELSE Band(Band(f, "behind", staging), "above", staging))
DrawsOn(f) == Draws(f, f.retired # {} \/ f.staged # {})

Rendered(fit) ==
    LET stale == deferred.rev # pane.rev \/ deferred.place # pane.place \/ Bare
    IN  DrawsOn(Flush(Leaving([Frame(fit) EXCEPT !.deferred =
                                  IF stale THEN NotDeferred ELSE @])))

Adopt(f) ==
    /\ entries' = f.entries /\ staged' = f.staged /\ retired' = f.retired
    /\ deletes' = f.deletes /\ cached' = f.cached /\ deferred' = f.deferred
    /\ retry' = f.retry /\ nextId' = f.nextId /\ nextPlacement' = f.nextPlacement
    /\ outside' = f.outside /\ failed' = f.failed

\* What a frame may have no room for, and whether shared memory can be had.
Fits ==
    LET old == entries \cup retired
        publish == IF old = {} THEN {} ELSE {<<"publish", 0>>}
    IN  [full : SUBSET ({x \in Bands \X {1, 2} : x[2] \in Tiles(pane.content[x[1]])} \cup publish),
         undeleted : {{}, deletes \cup {Deletion(o) : o \in old}
                            \cup {Whole(cached[i].id) : i \in 1..Len(cached)}},
         shared : IF shm THEN BOOLEAN ELSE {FALSE}]

Covers == {fit \in Fits : fit.full = {} /\ ~fit.shared}

Render ==
    /\ nextId + 2 <= MaxId /\ nextPlacement + 1 <= MaxId
    /\ \E fit \in Fits : Adopt(Rendered(fit))
    /\ UNCHANGED <<pane, shm>>

\* KittyOverlays::clear: a prompt, a help page or the history covers the pane.  A
\* placement of a picture in the cache goes with that picture.
Cleared(f) ==
    Flush([f EXCEPT !.entries = {}, !.retired = {}, !.staged = {}, !.deferred = NotDeferred,
                    !.cached = << >>,
                    !.deletes = @ \cup {Whole(o.id) : o \in {e \in f.entries \cup f.retired : e.placement = 0}}
                                  \cup {Whole(f.cached[i].id) : i \in 1..Len(f.cached)}])

Cover ==
    /\ \E fit \in Covers : Adopt(Cleared(Frame(fit)))
    /\ UNCHANGED <<pane, shm>>

\* enable_shared_memory
EnableShared ==
    /\ ~shm /\ shm' = TRUE
    /\ \E fit \in Covers : Adopt(Cleared(Frame(fit)))
    /\ UNCHANGED pane

\* The terminal outside drops a picture that is not on display, without a word.
Forgets ==
    /\ \E p \in outside.pictures :
          /\ \A s \in outside.shown : s.id # p.id
          /\ \A o \in staged : o.id # p.id
          /\ outside' = [outside EXCEPT !.pictures = @ \ {p}]
    /\ UNCHANGED <<pane, entries, retired, staged, deletes, cached, deferred, retry, shm,
                   nextId, nextPlacement, failed>>

\* invalidate_cached_image: the answer to a placement of a picture that is missing.
Invalidate ==
    \E id \in failed :
       LET i == {j \in 1..Len(cached) : cached[j].id = id}
           other(overlays) == {o \in overlays : o.id # id}
       IN  /\ failed' = failed \ {id}
           /\ IF i = {} THEN UNCHANGED <<entries, retired, staged, deletes, cached, retry>>
              ELSE /\ cached' = RemoveAt(cached, CHOOSE j \in i : TRUE)
                   /\ entries' = other(entries) /\ retired' = other(retired)
                   /\ staged' = other(staged)
                   /\ deletes' = deletes \cup {Whole(id)} /\ retry' = TRUE
           /\ UNCHANGED <<pane, deferred, shm, nextId, nextPlacement, outside>>

\* The quiet time of the placeholders is over.
QuietPasses ==
    /\ deferred.waiting /\ ~deferred.due
    /\ deferred' = [deferred EXCEPT !.due = TRUE]
    /\ UNCHANGED <<pane, entries, retired, staged, deletes, cached, retry, shm, nextId,
                   nextPlacement, outside, failed>>

\* The program draws, or the pane moves.
Changes ==
    /\ pane.rev <= MaxChanges
    /\ \/ \E band \in Bands : \E content \in Contents(band) \ {pane.content[band]} :
             pane' = [pane EXCEPT !.content[band] = content, !.rev = @ + 1]
       \/ pane' = [pane EXCEPT !.place = 3 - @]
    /\ UNCHANGED <<entries, retired, staged, deletes, cached, deferred, retry, shm, nextId,
                   nextPlacement, outside, failed>>

Next == Render \/ Cover \/ EnableShared \/ Forgets \/ Invalidate \/ QuietPasses \/ Changes

Spec == Init /\ [][Next]_vars

-----------------------------------------------------------------------------
\* Every picture outside is one that will be deleted: of the scene, of the scene
\* before, of the cache, or waiting to be deleted; and every placement belongs to an
\* overlay, or goes with what is waiting to be deleted.
NothingIsLost ==
    LET overlays == entries \cup retired
        known == {o.id : o \in overlays} \cup {cached[i].id : i \in 1..Len(cached)}
                    \cup {d.id : d \in {d \in deletes : d.placement = 0}}
    IN  /\ \A p \in outside.pictures : p.id \in known
        /\ \A s \in outside.shown :
              \/ \E o \in overlays \ staged : o.id = s.id /\ o.placement = s.placement
              \/ \E d \in deletes : d.id = s.id /\ d.placement \in {0, s.placement}

AllThere == failed = {} /\ \A i \in 1..Len(cached) : \E p \in outside.pictures : p.id = cached[i].id

Sees(out, band) == {s \in out.shown : s.band = band}

\* While a band goes on having a picture at the same place, a frame never leaves it
\* bare: its picture stays until the new one is there.
NeverBare ==
    AllThere =>
         \A band \in Bands :
            /\ Sees(outside, band) # {}
            /\ \A s \in Sees(outside, band) : s.place = pane.place
            /\ \A d \in deletes : \A s \in Sees(outside, band) : d.id # s.id
            /\ pane.content[band].kind \in {"one", "many"}
            => Sees(outside', band) # {}

\* What the bands have that are not waiting for placeholders, tile by tile.
Wanted(waits) ==
    {[band |-> band, tile |-> t, what |-> pane.content[band]] :
        band \in {b \in Bands : ~(waits /\ pane.content[b].kind = "sparse")}, t \in {1, 2}}

Visible(out) ==
    {[band |-> x[1].band, tile |-> x[1].tile, what |-> x[2].what] :
        x \in {y \in out.shown \X out.pictures : y[1].id = y[2].id}}

Scene(waits) == {w \in Wanted(waits) : w.tile \in Tiles(w.what)}

\* A frame that leaves nothing for the next one shows the pane as it is, and nothing
\* else.
FrameIsScene ==
    AllThere /\ ~retry' => Visible(outside') = Scene(deferred'.waiting)

FrameIsTrue == Render => NeverBare /\ FrameIsScene
=============================================================================
