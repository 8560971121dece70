---------------------------- MODULE ImageTransfer ----------------------------
(***************************************************************************)
(* The graphics commands of a program, in the order it sent them: chunks are *)
(* put together (graphics/transfer.rs), and every command is answered or not  *)
(* (graphics/reply.rs, pane.rs process_output_inner).  What the store does    *)
(* with a transfer is ImageStore; here it takes it or refuses it.             *)
(***************************************************************************)
EXTENDS Naturals, Sequences, SequencesExt

CONSTANT MaxCommands    \* bound

Quiet == {"all", "errors", "none"}     \* q = 0, 1, 2: what is still answered

\* A command is the first chunk of an upload or a query, a further chunk, the
\* name of a file, a placement, or nothing that is understood.
Commands ==
    LET c(kind, action, named, more, q) ==
            [kind |-> kind, action |-> action, named |-> named, more |-> more, quiet |-> q]
    IN  {c("first", "t", TRUE, more, q) : more \in BOOLEAN, q \in Quiet}
        \cup {c("first", "t", FALSE, more, "all") : more \in BOOLEAN}
        \cup {c("first", "q", TRUE, more, "all") : more \in BOOLEAN}
        \cup {c("next", action, FALSE, more, "unset") : action \in {"t", "none"}, more \in BOOLEAN}
        \cup {c("next", "none", FALSE, FALSE, "none")}
        \cup {c("file", action, TRUE, FALSE, "all") : action \in {"t", "q"}}
        \cup {c("place", "p", TRUE, FALSE, q) : q \in {"all", "none"}}
        \cup {c("bad", "none", FALSE, FALSE, "all")}

VARIABLES
    display,    \* the terminal outside can show pictures (answer_graphics)
    pending,    \* DirectTransferAssembler: the positions of its chunks
    quiet,      \* q of the pending transfer
    sent,       \* the commands so far
    stored,     \* transfers the store has taken, as positions of chunks
    answers     \* answers[i]: what command i was answered

vars == <<display, pending, quiet, sent, stored, answers>>

Init ==
    /\ display \in BOOLEAN
    /\ pending = << >> /\ quiet = "all" /\ sent = << >> /\ stored = {} /\ answers = << >>

Pos == Len(sent) + 1
First(chunks) == (sent')[chunks[1]]

\* The answer to a command that gave a name, as q allows.
Said(ok, q) ==
    IF ~display \/ q = "none" \/ (q = "errors" /\ ok) THEN "nothing"
    ELSE IF ok THEN "ok" ELSE "error"

\* A transfer is complete: a query is only answered, an upload stored or refused.
\* A stray further chunk lacks what a first one says, and comes to nothing.
Complete(chunks, q) ==
    LET first == First(chunks) IN
    \E ok \in BOOLEAN :
       IF first.kind = "next" THEN UNCHANGED stored /\ answers' = Append(answers, "nothing")
       ELSE /\ stored' = IF ok /\ first.action = "t" THEN stored \cup {chunks} ELSE stored
            /\ answers' = Append(answers, IF first.named THEN Said(ok, q) ELSE "nothing")

Nothing == UNCHANGED stored /\ answers' = Append(answers, "nothing")

\* A chunk of a pending transfer repeats its action, or names none.
Continues(c) ==
    c.kind = "next" /\ (c.action = "none" \/ c.action = sent[pending[1]].action)

\* DirectTransferAssembler::accept
Chunk(c) ==
    /\ c.kind \in {"first", "next"}
    /\ sent' = Append(sent, c)
    /\ LET chunks == IF pending = << >> THEN <<Pos>>
                     ELSE IF Continues(c) THEN Append(pending, Pos) ELSE << >>
           q == IF pending = << >> THEN c.quiet
                ELSE IF c.quiet = "unset" THEN quiet ELSE c.quiet
       IN  /\ pending' = IF c.more THEN chunks ELSE << >>
           /\ quiet' = IF c.more /\ chunks # << >> THEN (IF q = "unset" THEN "all" ELSE q)
                       ELSE "all"
           /\ IF chunks # << >> /\ ~c.more
              THEN Complete(chunks, IF q = "unset" THEN "all" ELSE q)
              ELSE Nothing
    /\ UNCHANGED display

\* A file is complete at once.  Whatever is pending is lost.
File(c) ==
    /\ c.kind = "file"
    /\ sent' = Append(sent, c)
    /\ pending' = << >> /\ quiet' = "all"
    /\ Complete(<<Pos>>, c.quiet)
    /\ UNCHANGED display

\* Control commands have no data: the assembler drops what it has.
Control(c) ==
    /\ c.kind \in {"place", "bad"}
    /\ sent' = Append(sent, c)
    /\ pending' = << >> /\ quiet' = "all"
    /\ IF c.kind = "place" /\ c.named
       THEN \E ok \in BOOLEAN : UNCHANGED stored /\ answers' = Append(answers, Said(ok, c.quiet))
       ELSE Nothing
    /\ UNCHANGED display

\* The client went, or another one came: the pane draws pictures or drops them.
Attach ==
    /\ display' = ~display
    /\ UNCHANGED <<pending, quiet, sent, stored, answers>>

Next ==
    \/ Len(sent) < MaxCommands /\ \E c \in Commands : Chunk(c) \/ File(c) \/ Control(c)
    \/ Attach

Spec == Init /\ [][Next]_vars

-----------------------------------------------------------------------------
\* The chunks of one upload: a first one, and those right behind it, of which the
\* last one says so.
IsUpload(run) ==
    /\ \A i \in DOMAIN run : run[i] = run[1] + i - 1
    /\ sent[run[1]].kind \in {"first", "file"} /\ sent[run[1]].action = "t"
    /\ \A i \in 2..Len(run) :
          sent[run[i]].kind = "next" /\ sent[run[i]].action \in {"none", "t"}
    /\ \A i \in DOMAIN run : sent[run[i]].more <=> i < Len(run)

\* What is stored is one whole upload: chunks of two of them, or with a gap, are
\* never put together, and no part of one is stored twice.
StoredIsWhole ==
    /\ \A run \in stored : IsUpload(run)
    /\ \A r, s \in stored : r # s => Range(r) \cap Range(s) = {}

\* A program that waits for an answer gets one for what it sent, and no other: at
\* most one for a whole transfer, at its last chunk, none that q forbids, and no
\* "ok" for an upload that is not stored.
AnswersAreTrue ==
    \A i \in DOMAIN answers :
        /\ answers[i] # "nothing" => ~sent[i].more /\ sent[i].quiet # "none"
        /\ answers[i] = "ok" => sent[i].quiet # "errors"
        /\ answers[i] = "ok" /\ sent[i].kind \in {"first", "next"} =>
              \E j \in 1..i :
                 /\ sent[j].kind = "first" /\ sent[j].named
                 /\ \A k \in (j + 1)..i : sent[k].kind = "next"
                 /\ sent[j].action = "t" => [k \in 1..(i - j + 1) |-> j + k - 1] \in stored
=============================================================================
