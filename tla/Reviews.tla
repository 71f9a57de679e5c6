------------------------------- MODULE Reviews -------------------------------
(***************************************************************************)
(* Reviews and their comments (routers/reviews.py and the reviews part of  *)
(* crud.py) beside scripts/import_resenas.py, which fills an empty table.  *)
(*                                                                         *)
(* A request is one transaction that checks and then writes one row, and   *)
(* nothing is deleted, so that requests are single steps. The script is    *)
(* not: it counts the reviews before its transaction begins with the first *)
(* INSERT, which takes SQLite's write lock until the commit. A client that *)
(* reads page after page is several requests.                              *)
(***************************************************************************)
EXTENDS Integers, Sequences, FiniteSets, Functions

CONSTANTS
    MaxRating,     \* stars go from 1 to MaxRating
    Times,         \* readings of the clock, in any order: it may be set back
    Entries,       \* what _parse finds in resenas.md: [rating, reply]
    Importers,     \* processes that run the script
    Readers,       \* clients that read the list page by page
    Limit,         \* rows of a page
    MaxReviews, MaxComments   \* bounds: rows of each table, replies not counted

Ratings == 1..MaxRating

\* An entry's number, or none: written by a request.
Origins == 0..Len(Entries)

ASSUME ReviewsAssumption ==
    /\ MaxRating \in Nat \ {0} /\ Limit \in Nat \ {0}
    /\ Times \subseteq Nat
    /\ Entries \in Seq([rating : Ratings, reply : BOOLEAN]) /\ Entries # <<>>
    /\ MaxReviews \in Nat /\ MaxComments \in Nat

VARIABLES
    db,         \* the committed rows; a row's id is its place
    draft,      \* the rows as a writing script's transaction sees them, else none
    script,     \* where each run of the script is
    twice,      \* a script was started beside another that had not ended
    reader      \* what each client asks for and has seen

vars == <<db, draft, script, twice, reader>>

Review == [rating : Ratings, created : Times, from : Origins]
Comment == [review : Nat \ {0}, from : Origins, edited : BOOLEAN]
Rows == [reviews : Seq(Review), comments : Seq(Comment)]

\* pos: how many entries the transaction holds.
Script == [pc : {"off", "counted", "writing"}, pos : 0..Len(Entries)]
Off == [pc |-> "off", pos |-> 0]

\* owed: the reviews that matched when the client began and that it was not
\* shown yet.
Reader == [pc : {"idle", "reading", "done"}, min : Ratings, offset : Nat,
           owed : SUBSET (Nat \ {0})]
Idle == [pc |-> "idle", min |-> 1, offset |-> 0, owed |-> {}]

TypeOK ==
    /\ db \in Rows /\ draft \in Rows
    /\ script \in [Importers -> Script]
    /\ twice \in BOOLEAN
    /\ reader \in [Readers -> Reader]
    /\ \A r \in {db, draft} : \A c \in Range(r.comments) : c.review \in DOMAIN r.reviews

NoRows == [reviews |-> <<>>, comments |-> <<>>]

Init ==
    /\ db = NoRows
    /\ draft = NoRows
    /\ script = [i \in Importers |-> Off]
    /\ twice = FALSE
    /\ reader = [r \in Readers |-> Idle]

-----------------------------------------------------------------------------
(* Requests                                                                *)

\* Another connection's open write transaction makes a write wait.
Unlocked == \A i \in Importers : script[i].pc # "writing"

Written(rows) == Unlocked /\ db' = rows /\ UNCHANGED <<draft, script, twice>>

CreateReview(rating, time) ==
    /\ Len(db.reviews) < MaxReviews
    /\ Written([db EXCEPT !.reviews =
                   Append(@, [rating |-> rating, created |-> time, from |-> 0])])
    /\ UNCHANGED reader

\* A rating that falls below a client's filter pulls later rows over a page
\* boundary: that client is owed nothing any more.
Noticed(id, rating) ==
    [r \in Readers |->
        IF db.reviews[id].rating >= reader[r].min /\ rating < reader[r].min
        THEN [reader[r] EXCEPT !.owed = {}] ELSE reader[r]]

\* Fault: the edit renews created_at.
UpdateReviewMoving(id, rating) ==
    /\ id \in DOMAIN db.reviews
    /\ \E time \in Times :
           Written([db EXCEPT !.reviews[id].rating = rating, !.reviews[id].created = time])
    /\ reader' = Noticed(id, rating)

UpdateReview(id, rating) ==
    /\ id \in DOMAIN db.reviews
    /\ Written([db EXCEPT !.reviews[id].rating = rating])
    /\ reader' = Noticed(id, rating)

\* Fault: the review is not looked up and foreign keys are off.
CreateCommentUnchecked(id) ==
    /\ Len(db.comments) < MaxComments
    /\ Written([db EXCEPT !.comments =
                   Append(@, [review |-> id, from |-> 0, edited |-> FALSE])])
    /\ UNCHANGED reader

CreateComment(id) ==
    /\ Len(db.comments) < MaxComments
    /\ id \in DOMAIN db.reviews
    /\ Written([db EXCEPT !.comments =
                   Append(@, [review |-> id, from |-> 0, edited |-> FALSE])])
    /\ UNCHANGED reader

\* The comment must be one of the review in the path.
UpdateComment(id, comment) ==
    /\ comment \in DOMAIN db.comments /\ db.comments[comment].review = id
    /\ Written([db EXCEPT !.comments[comment].edited = TRUE])
    /\ UNCHANGED reader

-----------------------------------------------------------------------------
(* A client reads the list                                                 *)

Matching(min) == {id \in DOMAIN db.reviews : db.reviews[id].rating >= min}

\* ORDER BY created_at DESC, id DESC.
Newer(a, b) ==
    LET Created(id) == db.reviews[id].created
    IN  Created(a) > Created(b) \/ (Created(a) = Created(b) /\ a > b)

\* list_reviews: LIMIT rows after the first OFFSET rows.
Page(min, offset) ==
    LET place(id) == Cardinality({other \in Matching(min) : Newer(other, id)})
    IN  {id \in Matching(min) : place(id) \in offset..offset + Limit - 1}

StartReading(r, min) ==
    /\ reader[r].pc = "idle"
    /\ reader' = [reader EXCEPT ![r] =
                     [Idle EXCEPT !.pc = "reading", !.min = min, !.owed = Matching(min)]]
    /\ UNCHANGED <<db, draft, script, twice>>

\* The client goes on until a page is not full.
ReadPage(r) ==
    LET page == Page(reader[r].min, reader[r].offset)
        owed == reader[r].owed \ page
    IN
    /\ reader[r].pc = "reading"
    /\ reader' = [reader EXCEPT ![r] =
                     IF Cardinality(page) < Limit
                     THEN [Idle EXCEPT !.pc = "done", !.owed = owed]
                     ELSE [reader[r] EXCEPT !.offset = @ + Limit, !.owed = owed]]
    /\ UNCHANGED <<db, draft, script, twice>>

-----------------------------------------------------------------------------
(* import_resenas.py                                                       *)

\* SELECT COUNT(*): it opens no transaction, and the script ends when there
\* are reviews.
Count(i) ==
    /\ script[i].pc = "off"
    /\ db.reviews = <<>>
    /\ script' = [script EXCEPT ![i] = [pc |-> "counted", pos |-> 0]]
    /\ twice' = (twice \/ \E j \in Importers : script[j].pc # "off")
    /\ UNCHANGED <<db, draft, reader>>

\* A review and, when the entry has one, the restaurant's reply to it, under
\* the id the INSERT returned.
WithEntry(rows, n, time) ==
    [reviews |-> Append(rows.reviews,
                        [rating |-> Entries[n].rating, created |-> time, from |-> n]),
     comments |-> IF Entries[n].reply
                  THEN Append(rows.comments, [review |-> Len(rows.reviews) + 1,
                                              from |-> n, edited |-> FALSE])
                  ELSE rows.comments]

\* Fault: every entry is committed at once.
InsertDurably(i, time) ==
    LET n == script[i].pos + 1 IN
    /\ n \in DOMAIN Entries /\ Len(db.reviews) < MaxReviews
    /\ script[i].pc = "writing" \/ (script[i].pc = "counted" /\ Unlocked)
    /\ db' = WithEntry(db, n, time)
    /\ draft' = db'
    /\ script' = [script EXCEPT ![i] = [pc |-> "writing", pos |-> n]]
    /\ UNCHANGED <<twice, reader>>

\* The first INSERT begins the transaction.
Insert(i, time) ==
    LET n == script[i].pos + 1
        rows == IF script[i].pc = "writing" THEN draft ELSE db
    IN
    /\ n \in DOMAIN Entries /\ Len(rows.reviews) < MaxReviews
    /\ script[i].pc = "writing" \/ (script[i].pc = "counted" /\ Unlocked)
    /\ draft' = WithEntry(rows, n, time)
    /\ script' = [script EXCEPT ![i] = [pc |-> "writing", pos |-> n]]
    /\ UNCHANGED <<db, twice, reader>>

Commit(i) ==
    /\ script[i].pc = "writing" /\ script[i].pos = Len(Entries)
    /\ db' = draft
    /\ draft' = NoRows
    /\ script' = [script EXCEPT ![i] = Off]
    /\ UNCHANGED <<twice, reader>>

\* The process is killed, or a statement raises (the database stays locked).
Abort(i) ==
    /\ script[i].pc # "off"
    /\ script' = [script EXCEPT ![i] = Off]
    /\ draft' = IF script[i].pc = "writing" THEN NoRows ELSE draft
    /\ UNCHANGED <<db, twice, reader>>

-----------------------------------------------------------------------------

Request ==
    \/ \E rating \in Ratings, time \in Times : CreateReview(rating, time)
    \/ \E id \in 1..MaxReviews :
           \/ \E rating \in Ratings : UpdateReview(id, rating)
           \/ CreateComment(id)
           \/ \E comment \in DOMAIN db.comments : UpdateComment(id, comment)

Import ==
    \E i \in Importers :
        Count(i) \/ (\E time \in Times : Insert(i, time)) \/ Commit(i) \/ Abort(i)

Next ==
    \/ Request
    \/ \E r \in Readers : (\E min \in Ratings : StartReading(r, min)) \/ ReadPage(r)
    \/ Import

Spec == Init /\ [][Next]_vars

-----------------------------------------------------------------------------
(* Properties                                                              *)

\* A client that has read to the last page was shown every review that was
\* there when it began, although reviews are created, edited and imported
\* between its pages and every new one shifts the rest; only a rating that
\* drops out of the client's filter may cost it a page boundary.
PagingComplete ==
    \A r \in Readers : reader[r].pc = "done" => reader[r].owed = {}

Imported(n) == {id \in DOMAIN db.reviews : db.reviews[id].from = n}

Replies(id) == {c \in Range(db.comments) : c.review = id /\ c.from # 0}

\* What an import leaves behind, whatever else was written meanwhile and
\* wherever it was killed: all entries or none, each with its own reply and no
\* other, and once only unless two runs of the script overlapped.
ImportFaithful ==
    \A n \in DOMAIN Entries :
        /\ Cardinality(Imported(n)) = Cardinality(Imported(1))
        /\ ~twice => Cardinality(Imported(n)) <= 1
        /\ \A id \in Imported(n) :
               {c.from : c \in Replies(id)} = IF Entries[n].reply THEN {n} ELSE {}
=============================================================================
