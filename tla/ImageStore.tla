----------------------------- MODULE ImageStore -----------------------------
(***************************************************************************)
(* The pictures of one pane (graphics/store.rs): uploads with an identity of *)
(* the client, a number or none, placements, quotas and deletions.           *)
(*                                                                         *)
(* A picture is its upload: the generation the store gives it.  A placement  *)
(* lies in an area of a grid, or has no place on the screen (virtual).  The   *)
(* selectors of a deletion by cell, row, column, layer or screen pick areas.  *)
(***************************************************************************)
EXTENDS Naturals, Sequences, SequencesExt, FiniteSets, FiniteSetsExt

CONSTANTS
    TopId,          \* u32::MAX
    Numbers,        \* image numbers
    Sizes,          \* sizes of an upload
    Grids,          \* the main and the alternate grid
    Areas,          \* areas of a grid
    MaxImages,      \* MAX_PANE_IMAGES
    MaxBytes,       \* MAX_PANE_IMAGE_BYTES
    MaxPlacements,  \* MAX_PANE_PLACEMENTS
    MaxUploads      \* bound

Ids == 1..TopId
None == 0
Virtual == [grid |-> "none", area |-> "none"]
Places == [grid : Grids, area : Areas] \cup {Virtual}

VARIABLES
    images,     \* images, image_generations: id -> its picture
    private,    \* private_images
    number,     \* numbered_images: id -> number and order
    transient,  \* transient_images
    dimensions, \* decoded_dimensions: id -> the picture they are of
    oldest,     \* oldest
    placements, \* placements, with the picture that was placed
    bytes,      \* total_bytes
    uploads,    \* NEXT_IMAGE_GENERATION
    replied     \* the result of the last command

store == [images |-> images, private |-> private, number |-> number,
          transient |-> transient, dimensions |-> dimensions, oldest |-> oldest,
          placements |-> placements, bytes |-> bytes]
vars == <<images, private, number, transient, dimensions, oldest, placements, bytes,
          uploads, replied>>

Empty == [images |-> << >>, private |-> {}, number |-> << >>, transient |-> {},
          dimensions |-> << >>, oldest |-> << >>, placements |-> << >>, bytes |-> 0]

Becomes(s) ==
    /\ images' = s.images /\ private' = s.private /\ number' = s.number
    /\ transient' = s.transient /\ dimensions' = s.dimensions /\ oldest' = s.oldest
    /\ placements' = s.placements /\ bytes' = s.bytes

Init ==
    /\ images = Empty.images /\ private = {} /\ number = << >> /\ transient = {}
    /\ dimensions = << >> /\ oldest = << >> /\ placements = << >> /\ bytes = 0
    /\ uploads = 0
    /\ replied = "ok"

Without(f, ids) == [x \in DOMAIN f \ ids |-> f[x]]
With(f, x, v) == [y \in DOMAIN f \cup {x} |-> IF y = x THEN v ELSE f[y]]

PlacedIn(s) == {p.image : p \in Range(s.placements)}

-----------------------------------------------------------------------------
(* Helpers of the store *)

\* A picture goes with all that is known of it.
Drop(s, id) ==
    IF id \notin DOMAIN s.images THEN s
    ELSE [images |-> Without(s.images, {id}),
          private |-> s.private \ {id},
          number |-> Without(s.number, {id}),
          transient |-> s.transient \ {id},
          dimensions |-> Without(s.dimensions, {id}),
          oldest |-> SelectSeq(s.oldest, LAMBDA x : x # id),
          placements |-> SelectSeq(s.placements, LAMBDA p : p.image # id),
          bytes |-> s.bytes - s.images[id].size]

DropAll(s, ids) == FoldSet(LAMBDA id, t : Drop(t, id), s, ids)

\* reap_unplaced_private_images: a picture nobody can name lives as long as it shows.
Reap(s) == DropAll(s, {id \in s.private : id \notin PlacedIn(s)})

FirstFree(s) == Min(Ids \ DOMAIN s.images)
FirstFreePrivate(s) == Max(Ids \ DOMAIN s.images)

\* Mutant: the placements stay behind when a private picture moves.
RelocateLeaves(s, id) ==
    IF id \notin s.private THEN s
    ELSE LET to == FirstFreePrivate(s)
             move(f) == IF id \in DOMAIN f
                        THEN With(Without(f, {id}), to, f[id]) ELSE f
             swap(x) == IF x = id THEN to ELSE x
         IN  [s EXCEPT !.images = move(@), !.dimensions = move(@),
                       !.private = {swap(x) : x \in @},
                       !.transient = {swap(x) : x \in @},
                       !.oldest = [i \in DOMAIN @ |-> swap(@[i])]]

\* A client may use the id of a private picture, which then gets another one.
Relocate(s, id) ==
    IF id \notin s.private THEN s
    ELSE LET to == FirstFreePrivate(s)
             move(f) == IF id \in DOMAIN f
                        THEN With(Without(f, {id}), to, f[id]) ELSE f
             swap(x) == IF x = id THEN to ELSE x
         IN  [s EXCEPT !.images = move(@), !.dimensions = move(@),
                       !.private = {swap(x) : x \in @},
                       !.transient = {swap(x) : x \in @},
                       !.oldest = [i \in DOMAIN @ |-> swap(@[i])],
                       !.placements = [i \in DOMAIN @ |->
                                          [@[i] EXCEPT !.image = swap(@)]]]

Newest(s, n) ==
    LET ids == {id \in DOMAIN s.number : s.number[id].number = n}
    IN  CHOOSE id \in ids : \A other \in ids : s.number[other].order <= s.number[id].order
Numbered(s, n) == \E id \in DOMAIN s.number : s.number[id].number = n

-----------------------------------------------------------------------------
(* Placements *)

\* place_with_geometry
Placed(s, id, placement, place) ==
    LET others == IF placement = None THEN s.placements
                  ELSE SelectSeq(s.placements,
                                 LAMBDA p : p.image # id \/ p.placement # placement)
        room == IF Len(others) >= MaxPlacements THEN Tail(others) ELSE others
        new == [image |-> id, placement |-> placement, place |-> place,
                shows |-> s.images[id].generation]
    IN  Reap([s EXCEPT !.placements = Append(room, new)])

\* image_dimensions: they are kept once they are known.
Measured(s, id) == [s EXCEPT !.dimensions = With(@, id, s.images[id].generation)]

Place(name, placement, place, sized) ==
    LET known == IF name.by = "id" THEN TRUE ELSE Numbered(store, name.value)
        id == IF name.by = "id" THEN name.value ELSE Newest(store, name.value)
    IN
    IF known /\ id \in DOMAIN images \ private
    THEN /\ Becomes(Placed(IF sized THEN store ELSE Measured(store, id),
                           id, placement, place))
         /\ replied' = "ok"
         /\ UNCHANGED uploads
    ELSE /\ replied' = "refused"
         /\ UNCHANGED <<images, private, number, transient, dimensions, oldest,
                        placements, bytes, uploads>>

-----------------------------------------------------------------------------
(* Uploads *)

\* What the quota takes first: transient pictures without a place, other ones
\* without a place, any.  The oldest of each.
Victim(s) ==
    LET first(test(_)) == SelectSeq(s.oldest, test)
        free(id) == id \notin PlacedIn(s)
        passing(id) == free(id) /\ id \in s.transient
    IN  IF first(passing) # << >> THEN Head(first(passing))
        ELSE IF first(free) # << >> THEN Head(first(free))
        ELSE Head(s.oldest)

Full(s, size) ==
    Cardinality(DOMAIN s.images) >= MaxImages \/ s.bytes + size > MaxBytes
\* At most all of the pictures have to go.
Roomy(s, size) ==
    LET step[n \in 0..MaxImages] ==
            IF n = 0 THEN s
            ELSE IF Full(step[n - 1], size)
                 THEN Drop(step[n - 1], Victim(step[n - 1])) ELSE step[n - 1]
    IN  step[MaxImages]

\* insert_inner of a transfer that is valid.  A picture that replaces another one
\* keeps its number, and takes its placements away.
Inserted(s, id, u) ==
    LET free == Drop(Relocate(s, id), id)
        room == Roomy(free, u.size)
        order == Max({0} \cup {s.number[x].order : x \in DOMAIN s.number}) + 1
        named == IF u.name.by = "number"
                 THEN With(room.number, id, [number |-> u.name.value, order |-> order])
                 ELSE IF id \in DOMAIN s.number
                 THEN With(room.number, id, s.number[id]) ELSE room.number
    IN  [room EXCEPT
            !.images = With(@, id, [size |-> u.size, generation |-> uploads + 1]),
            !.private = IF u.name.by = "none" THEN @ \cup {id} ELSE @,
            !.number = named,
            !.transient = IF u.transient THEN @ \cup {id} ELSE @,
            \* They are known when the picture is shown.
            !.dimensions = IF u.display = "yes" THEN With(@, id, uploads + 1) ELSE @,
            !.oldest = Append(@, id),
            !.bytes = @ + u.size]

\* A virtual placement needs a picture its client can name; a picture without a
\* name has to be shown; data that cannot be decoded is refused.
Valid(u) ==
    /\ u.data = "good"
    /\ u.name.by = "none" => u.display # "no" /\ u.place # Virtual

\* The store changes only when all of the command is known to be good.
Upload(u) ==
    /\ uploads < MaxUploads
    /\ LET id == CASE u.name.by = "none" -> FirstFreePrivate(store)
                   [] u.name.by = "id" -> u.name.value
                   [] u.name.by = "number" -> FirstFree(store)
       IN  IF Valid(u)
           THEN /\ Becomes(IF u.display = "yes"
                           THEN Placed(Inserted(store, id, u), id,
                                       IF u.name.by = "none" THEN None ELSE u.placement, u.place)
                           ELSE Inserted(store, id, u))
                /\ uploads' = uploads + 1
                /\ replied' = "ok"
           ELSE /\ replied' = "refused"
                /\ UNCHANGED <<images, private, number, transient, dimensions, oldest,
                               placements, bytes, uploads>>

-----------------------------------------------------------------------------
(* Deletions *)

\* delete_matching_placements: a hard deletion frees what no longer shows.
Deleted(s, matches, hard) ==
    LET rest == [s EXCEPT !.placements = SelectSeq(@, LAMBDA p : p \notin matches)]
        touched == {p.image : p \in matches}
    IN  Reap(IF hard THEN DropAll(rest, touched \ PlacedIn(rest)) ELSE rest)

DeleteRegion(grid, areas, hard) ==
    /\ Becomes(Deleted(store, {p \in Range(placements) :
                                  p.place.grid = grid /\ p.place.area \in areas}, hard))
    /\ replied' = "ok"
    /\ UNCHANGED uploads

\* delete_placements: one picture, by its id or its number.
DeletePicture(name, placement, hard) ==
    LET known == IF name.by = "id" THEN name.value \notin private
                 ELSE Numbered(store, name.value)
        id == IF name.by = "id" THEN name.value ELSE Newest(store, name.value)
        rest == [store EXCEPT !.placements = SelectSeq(@, LAMBDA p :
                    p.image # id \/ (placement # None /\ p.placement # placement))]
    IN
    /\ known
    /\ Becomes(Reap(IF hard /\ id \notin PlacedIn(rest) THEN Drop(rest, id) ELSE rest))
    /\ replied' = "ok"
    /\ UNCHANGED uploads

\* delete_image_range: all that clients can name, placed or not.
DeleteRange(first, last, hard) ==
    LET ids == (first..last) \ private
        rest == Deleted(store, {p \in Range(placements) : p.image \in ids}, FALSE)
    IN
    /\ Becomes(IF hard THEN DropAll(rest, (DOMAIN rest.images \cap ids) \ PlacedIn(rest))
               ELSE rest)
    /\ replied' = "ok"
    /\ UNCHANGED uploads

\* clear_screen_placements, when a grid was cleared.
ClearScreen(grid) ==
    /\ Becomes(Deleted(store, {p \in Range(placements) : p.place.grid = grid}, FALSE))
    /\ replied' = "ok"
    /\ UNCHANGED uploads

\* The program of the pane is gone.
Clear == Becomes(Empty) /\ replied' = "ok" /\ UNCHANGED uploads

-----------------------------------------------------------------------------
Names == [by : {"id"}, value : Ids] \cup [by : {"number"}, value : Numbers]
Unnamed == [by |-> "none", value |-> None]
Placements == {None, 1}
Kinds == [name : Names \cup {Unnamed}, size : Sizes, transient : BOOLEAN,
          data : {"good", "bad"}, display : {"yes", "no"},
          placement : Placements, place : Places]
\* Placements without a place are looked up by their picture only.
Nameable(placement, place) == placement # None => place # Virtual
\* What is not displayed has no place.  One kind of bad data, and one kind of
\* transient pictures, are enough.
Uploads == {u \in Kinds :
    /\ u.display = "no" => u.placement = None /\ u.place = Virtual
    /\ u.data = "bad" => ~u.transient /\ u.size = Min(Sizes) /\ u.display = "no"
    /\ u.transient => u.name.by = "id" /\ u.display = "no"
    /\ u.display = "yes" /\ u.name.by # "id" => u.placement = None
    /\ Nameable(u.placement, u.place)}

Next ==
    \/ \E u \in Uploads : Upload(u)
    \/ \E name \in Names, p \in Placements, place \in Places, sized \in BOOLEAN :
          Nameable(p, place) /\ Place(name, p, place, sized)
    \/ \E grid \in Grids, areas \in (SUBSET Areas) \ {{}}, hard \in BOOLEAN :
          DeleteRegion(grid, areas, hard)
    \/ \E name \in Names, p \in Placements, hard \in BOOLEAN : DeletePicture(name, p, hard)
    \/ \E last \in Ids, hard \in BOOLEAN : DeleteRange(1, last, hard)
    \/ \E grid \in Grids : ClearScreen(grid)
    \/ Clear

Spec == Init /\ [][Next]_vars

-----------------------------------------------------------------------------
\* Every table of the store speaks of the pictures that are there: whatever shows
\* still shows the picture that was placed, sizes are those of the picture they
\* are kept for, a picture nobody can name shows somewhere, and the order and the
\* bytes the quota works with are right.
StoreWhole ==
    /\ \A p \in Range(placements) :
          p.image \in DOMAIN images /\ images[p.image].generation = p.shows
    /\ \A id \in DOMAIN dimensions :
          id \in DOMAIN images /\ dimensions[id] = images[id].generation
    /\ private \subseteq PlacedIn(store)
    /\ private \cap DOMAIN number = {}
    /\ transient \cup DOMAIN number \subseteq DOMAIN images
    /\ Range(oldest) = DOMAIN images /\ Len(oldest) = Cardinality(DOMAIN images)
    /\ bytes = MapThenSumSet(LAMBDA id : images[id].size, DOMAIN images)
    /\ bytes <= MaxBytes /\ Len(oldest) <= MaxImages /\ Len(placements) <= MaxPlacements

\* No upload takes away a picture that shows while one that does not is kept, and a
\* command that is refused takes nothing away.
ShownOutliveUploads ==
    /\ uploads' > uploads =>
            LET kept == {images'[id].generation : id \in DOMAIN images'}
                old == {images[id].generation : id \in DOMAIN images}
                shown == {p.shows : p \in Range(placements)}
                \* The picture that was replaced.
                replaced == {images[id].generation : id \in
                    {x \in DOMAIN images : x \in DOMAIN images'
                                         /\ images'[x].generation = uploads'}}
            IN  /\ (old \cap shown) \ (kept \cup replaced) # {} =>
                       \A g \in old \cap kept : g \in shown
    /\ replied' = "refused" => store' = store
=============================================================================
