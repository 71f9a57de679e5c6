----------------------------- MODULE ReviewsProofs -----------------------------
(***************************************************************************)
(* Proofs about Reviews, for all values of its constants: an import leaves *)
(* all of its entries or none, each with its own reply, and a client that  *)
(* reads to the last page misses nothing it was owed.                      *)
(*                                                                         *)
(* Neither is inductive.  CountInv adds what the script that holds the     *)
(* write lock has in its transaction, PageInv that no review a client is   *)
(* still owed has moved in front of the rows it has asked for.             *)
(***************************************************************************)
EXTENDS Reviews, SequenceTheorems, FiniteSetTheorems, WellFoundedInduction, TLAPS

\* The rows of a list q of reviews that come from an entry.
From(q, n) == {id \in DOMAIN q : q[id].from = n}

\* A reply stands under the review of its own entry, and no entry is without
\* the reply it has.
RepliesRight(rows) ==
    /\ \A k \in DOMAIN rows.comments :
          rows.comments[k].from # 0 =>
             /\ rows.reviews[rows.comments[k].review].from = rows.comments[k].from
             /\ Entries[rows.comments[k].from].reply
    /\ \A id \in DOMAIN rows.reviews :
          rows.reviews[id].from # 0 /\ Entries[rows.reviews[id].from].reply =>
             \E k \in DOMAIN rows.comments :
                /\ rows.comments[k].review = id
                /\ rows.comments[k].from = rows.reviews[id].from

Right(rows) ==
    /\ rows \in Rows
    /\ \A k \in DOMAIN rows.comments : rows.comments[k].review \in DOMAIN rows.reviews
    /\ RepliesRight(rows)

RowInv ==
    /\ Right(db) /\ Right(draft)
    /\ script \in [Importers -> Script]
    /\ twice \in BOOLEAN
    /\ reader \in [Readers -> Reader]

\* The rows of longer begin with those of q.
Holds(q, longer) == Len(q) <= Len(longer) /\ \A id \in DOMAIN q : longer[id] = q[id]

Writing(i) == script[i].pc = "writing"

\* What the script that writes will commit: one more copy of each entry it has
\* come to.
DraftInv ==
    /\ \A i, j \in Importers : Writing(i) /\ Writing(j) => i = j
    /\ \A i \in Importers : script[i].pc = "counted" => script[i].pos = 0
    /\ \A i \in Importers : Writing(i) =>
          /\ script[i].pos # 0
          /\ Holds(db.reviews, draft.reviews)
          /\ \A n \in DOMAIN Entries :
                Cardinality(From(draft.reviews, n)) =
                    Cardinality(From(db.reviews, n))
                        + (IF n <= script[i].pos THEN 1 ELSE 0)

CountInv ==
    /\ DraftInv
    /\ \A n \in DOMAIN Entries :
          /\ Cardinality(From(db.reviews, n)) = Cardinality(From(db.reviews, 1))
          /\ ~twice => Cardinality(From(db.reviews, n)) <= 1
    /\ ~twice => \A i \in Importers : script[i].pc # "off" =>
          /\ \A j \in Importers : script[j].pc # "off" => j = i
          /\ \A n \in DOMAIN Entries : From(db.reviews, n) = {}

\* The filtered list, and the place of a review in it.
Rated(q, min) == {id \in DOMAIN q : q[id].rating >= min}
Before(q, a, b) == q[a].created > q[b].created \/ (q[a].created = q[b].created /\ a > b)
Ahead(q, min, id) == {other \in Rated(q, min) : Before(q, other, id)}
Place(q, min, id) == Cardinality(Ahead(q, min, id))

PageInv ==
    \A r \in Readers :
        /\ reader[r].pc = "done" => reader[r].owed = {}
        /\ reader[r].pc = "reading" =>
              \A id \in reader[r].owed :
                 /\ id \in Rated(db.reviews, reader[r].min)
                 /\ Place(db.reviews, reader[r].min, id) >= reader[r].offset

ReviewInv == RowInv /\ CountInv /\ PageInv

-----------------------------------------------------------------------------
(* Rows written                                                            *)

LEMMA EntriesTyped ==
    /\ Len(Entries) \in Nat \ {0}
    /\ DOMAIN Entries = 1..Len(Entries)
    /\ \A n \in DOMAIN Entries :
          /\ n \in Origins \ {0}
          /\ Entries[n].rating \in Ratings /\ Entries[n].reply \in BOOLEAN
<1>1. Entries \in Seq([rating : Ratings, reply : BOOLEAN]) /\ Entries # <<>>
  BY ReviewsAssumption
<1>2. Len(Entries) \in Nat /\ DOMAIN Entries = 1..Len(Entries) /\ Len(Entries) # 0
  BY <1>1
<1>3. ASSUME NEW n \in DOMAIN Entries
      PROVE  Entries[n] \in [rating : Ratings, reply : BOOLEAN]
  BY <1>1, <1>2, ElementOfSeq
<1> QED BY <1>2, <1>3 DEF Origins

\* A row of reviews, read from a list of them.
LEMMA ReviewRead ==
    ASSUME NEW q \in Seq(Review), NEW id \in DOMAIN q
    PROVE  /\ q[id] \in Review
           /\ id \in Nat \ {0} /\ id \in 1..Len(q)
           /\ q[id].rating \in Nat /\ q[id].created \in Nat /\ q[id].from \in Nat
<1>1. q[id] \in Review /\ id \in 1..Len(q) /\ Len(q) \in Nat
  OBVIOUS
<1>2. q[id].rating \in Ratings /\ q[id].created \in Nat /\ q[id].from \in Origins
  BY <1>1, ReviewsAssumption DEF Review
<1>3. Len(Entries) \in Nat /\ MaxRating \in Nat
  BY EntriesTyped, ReviewsAssumption
<1> QED BY <1>1, <1>2, <1>3 DEF Ratings, Origins

LEMMA ReviewAppended ==
    ASSUME NEW rows, Right(rows), NEW review \in Review, review.from = 0
    PROVE  Right([rows EXCEPT !.reviews = Append(@, review)])
<1> DEFINE more == [rows EXCEPT !.reviews = Append(@, review)]
<1>1. rows.reviews \in Seq(Review) /\ rows.comments \in Seq(Comment) /\ rows \in Rows
  BY DEF Right, Rows
<1>2. more.reviews = Append(rows.reviews, review) /\ more.comments = rows.comments
  BY <1>1 DEF Rows
<1>3. /\ more.reviews \in Seq(Review)
      /\ DOMAIN more.reviews = DOMAIN rows.reviews \cup {Len(rows.reviews) + 1}
      /\ \A id \in DOMAIN rows.reviews : more.reviews[id] = rows.reviews[id]
      /\ more.reviews[Len(rows.reviews) + 1] = review
  <2> HIDE DEF more
  <2> QED BY <1>1, <1>2
<1>4. more \in Rows
  BY <1>1, <1>2, <1>3 DEF Rows
<1> HIDE DEF more
<1>5. \A k \in DOMAIN more.comments : more.comments[k].review \in DOMAIN more.reviews
  BY <1>2, <1>3 DEF Right
<1>6. RepliesRight(more)
  <2>1. ASSUME NEW k \in DOMAIN more.comments, more.comments[k].from # 0
        PROVE  /\ more.reviews[more.comments[k].review].from = more.comments[k].from
               /\ Entries[more.comments[k].from].reply
    BY <2>1, <1>2, <1>3 DEF Right, RepliesRight
  <2>2. ASSUME NEW id \in DOMAIN more.reviews, more.reviews[id].from # 0,
               Entries[more.reviews[id].from].reply
        PROVE  \E k \in DOMAIN more.comments :
                  /\ more.comments[k].review = id
                  /\ more.comments[k].from = more.reviews[id].from
    <3>1. id \in DOMAIN rows.reviews /\ more.reviews[id] = rows.reviews[id]
      BY <2>2, <1>3
    <3> QED BY <2>2, <3>1, <1>2 DEF Right, RepliesRight
  <2> QED BY <2>1, <2>2 DEF RepliesRight
<1>7. Right(more)
  BY <1>4, <1>5, <1>6 DEF Right
<1> QED BY <1>7 DEF more

LEMMA ReviewRated ==
    ASSUME NEW rows, Right(rows), NEW id \in DOMAIN rows.reviews, NEW rating \in Ratings
    PROVE  Right([rows EXCEPT !.reviews[id].rating = rating])
<1> DEFINE more == [rows EXCEPT !.reviews[id].rating = rating]
<1>1. rows.reviews \in Seq(Review) /\ rows.comments \in Seq(Comment) /\ rows \in Rows
  BY DEF Right, Rows
<1>2. /\ more.reviews = [rows.reviews EXCEPT ![id] = [rows.reviews[id] EXCEPT !.rating = rating]]
      /\ more.comments = rows.comments
  BY <1>1 DEF Rows
<1>3. rows.reviews[id] \in Review
  BY <1>1
<1>4. /\ [rows.reviews[id] EXCEPT !.rating = rating] \in Review
      /\ [rows.reviews[id] EXCEPT !.rating = rating].from = rows.reviews[id].from
  BY <1>3 DEF Review
<1>5. /\ more.reviews \in Seq(Review)
      /\ DOMAIN more.reviews = DOMAIN rows.reviews
      /\ \A other \in DOMAIN rows.reviews : more.reviews[other].from = rows.reviews[other].from
  <2> HIDE DEF more
  <2>1. more.reviews \in Seq(Review)
    BY <1>1, <1>2, <1>4
  <2> QED BY <1>1, <1>2, <1>4, <2>1
<1>6. more \in Rows
  BY <1>1, <1>2, <1>5 DEF Rows
<1> HIDE DEF more
<1>7. Right(more)
  BY <1>2, <1>5, <1>6 DEF Right, RepliesRight
<1> QED BY <1>7 DEF more

LEMMA CommentAppended ==
    ASSUME NEW rows, Right(rows), NEW comment \in Comment, comment.from = 0,
           comment.review \in DOMAIN rows.reviews
    PROVE  Right([rows EXCEPT !.comments = Append(@, comment)])
<1> DEFINE more == [rows EXCEPT !.comments = Append(@, comment)]
<1>1. rows.reviews \in Seq(Review) /\ rows.comments \in Seq(Comment) /\ rows \in Rows
  BY DEF Right, Rows
<1>2. more.comments = Append(rows.comments, comment) /\ more.reviews = rows.reviews
  BY <1>1 DEF Rows
<1>3. /\ more.comments \in Seq(Comment)
      /\ DOMAIN more.comments = DOMAIN rows.comments \cup {Len(rows.comments) + 1}
      /\ \A k \in DOMAIN rows.comments : more.comments[k] = rows.comments[k]
      /\ more.comments[Len(rows.comments) + 1] = comment
  <2> HIDE DEF more
  <2> QED BY <1>1, <1>2
<1>4. more \in Rows
  BY <1>1, <1>2, <1>3 DEF Rows
<1> HIDE DEF more
<1>5. \A k \in DOMAIN more.comments : more.comments[k].review \in DOMAIN more.reviews
  BY <1>2, <1>3 DEF Right
<1>6. RepliesRight(more)
  <2>1. ASSUME NEW k \in DOMAIN more.comments, more.comments[k].from # 0
        PROVE  /\ more.reviews[more.comments[k].review].from = more.comments[k].from
               /\ Entries[more.comments[k].from].reply
    BY <2>1, <1>2, <1>3 DEF Right, RepliesRight
  <2>2. ASSUME NEW id \in DOMAIN more.reviews, more.reviews[id].from # 0,
               Entries[more.reviews[id].from].reply
        PROVE  \E k \in DOMAIN more.comments :
                  /\ more.comments[k].review = id
                  /\ more.comments[k].from = more.reviews[id].from
    <3>1. PICK k \in DOMAIN rows.comments :
                  /\ rows.comments[k].review = id
                  /\ rows.comments[k].from = rows.reviews[id].from
      BY <2>2, <1>2 DEF Right, RepliesRight
    <3> QED BY <3>1, <1>2, <1>3
  <2> QED BY <2>1, <2>2 DEF RepliesRight
<1>7. Right(more)
  BY <1>4, <1>5, <1>6 DEF Right
<1> QED BY <1>7 DEF more

LEMMA CommentEdited ==
    ASSUME NEW rows, Right(rows), NEW k \in DOMAIN rows.comments
    PROVE  Right([rows EXCEPT !.comments[k].edited = TRUE])
<1> DEFINE more == [rows EXCEPT !.comments[k].edited = TRUE]
<1>1. rows.reviews \in Seq(Review) /\ rows.comments \in Seq(Comment) /\ rows \in Rows
  BY DEF Right, Rows
<1>2. /\ more.comments = [rows.comments EXCEPT ![k] = [rows.comments[k] EXCEPT !.edited = TRUE]]
      /\ more.reviews = rows.reviews
  BY <1>1 DEF Rows
<1>3. rows.comments[k] \in Comment
  BY <1>1
<1>4. PICK edited : edited = [rows.comments[k] EXCEPT !.edited = TRUE]
  OBVIOUS
<1>5. /\ edited \in Comment
      /\ edited.from = rows.comments[k].from /\ edited.review = rows.comments[k].review
  BY <1>3, <1>4 DEF Comment
<1>6. /\ more.comments \in Seq(Comment)
      /\ DOMAIN more.comments = DOMAIN rows.comments
      /\ \A other \in DOMAIN rows.comments :
            /\ more.comments[other].from = rows.comments[other].from
            /\ more.comments[other].review = rows.comments[other].review
  <2> HIDE DEF more
  <2>1. more.comments = [rows.comments EXCEPT ![k] = edited]
    BY <1>2, <1>4
  <2>2. more.comments \in Seq(Comment)
    BY <1>1, <2>1, <1>5
  <2> QED BY <1>1, <2>1, <1>5, <2>2
<1>7. more \in Rows
  BY <1>1, <1>2, <1>6 DEF Rows
<1> HIDE DEF more
<1>8. Right(more)
  BY <1>2, <1>6, <1>7 DEF Right, RepliesRight
<1> QED BY <1>8 DEF more

LEMMA EntryTyped ==
    ASSUME NEW n \in DOMAIN Entries, NEW time \in Times, NEW id \in Nat
    PROVE  /\ [rating |-> Entries[n].rating, created |-> time, from |-> n] \in Review
           /\ [review |-> id + 1, from |-> n, edited |-> FALSE] \in Comment
<1>1. Entries[n].rating \in Ratings /\ time \in Nat /\ n \in Origins
  BY EntriesTyped, ReviewsAssumption
<1> QED BY <1>1 DEF Review, Comment

\* A review and its reply are inserted under the id the review was given.
LEMMA EntryWritten ==
    ASSUME NEW rows, Right(rows), NEW n \in DOMAIN Entries, NEW time \in Times
    PROVE  Right(WithEntry(rows, n, time))
<1>1. rows.reviews \in Seq(Review) /\ rows.comments \in Seq(Comment) /\ rows \in Rows
  BY DEF Right, Rows
<1>2. PICK review : review = [rating |-> Entries[n].rating, created |-> time, from |-> n]
  OBVIOUS
<1>3. PICK reply : reply = [review |-> Len(rows.reviews) + 1, from |-> n, edited |-> FALSE]
  OBVIOUS
<1>4. review \in Review /\ reply \in Comment
  BY <1>1, <1>2, <1>3, EntryTyped
<1>5. PICK more : more = WithEntry(rows, n, time)
  OBVIOUS
<1>6. /\ more.reviews = Append(rows.reviews, review)
      /\ more.comments = IF Entries[n].reply THEN Append(rows.comments, reply)
                                             ELSE rows.comments
      /\ more = [reviews |-> more.reviews, comments |-> more.comments]
  BY <1>2, <1>3, <1>5 DEF WithEntry
<1>7. /\ more.reviews \in Seq(Review)
      /\ DOMAIN more.reviews = DOMAIN rows.reviews \cup {Len(rows.reviews) + 1}
      /\ Len(rows.reviews) + 1 \notin DOMAIN rows.reviews
      /\ \A id \in DOMAIN rows.reviews : more.reviews[id] = rows.reviews[id]
      /\ more.reviews[Len(rows.reviews) + 1] = review
  BY <1>1, <1>4, <1>6
<1>8. review.from = n /\ reply.from = n /\ reply.review = Len(rows.reviews) + 1 /\ n # 0
  BY <1>2, <1>3, EntriesTyped
<1>9. \A k \in DOMAIN rows.comments :
         /\ rows.comments[k].review \in DOMAIN rows.reviews
         /\ rows.comments[k].from # 0 =>
               /\ rows.reviews[rows.comments[k].review].from = rows.comments[k].from
               /\ Entries[rows.comments[k].from].reply
  BY DEF Right, RepliesRight
<1>10. \A id \in DOMAIN rows.reviews :
          rows.reviews[id].from # 0 /\ Entries[rows.reviews[id].from].reply =>
             \E k \in DOMAIN rows.comments :
                /\ rows.comments[k].review = id
                /\ rows.comments[k].from = rows.reviews[id].from
  BY DEF Right, RepliesRight
<1>11. CASE Entries[n].reply
  <2>1. /\ more.comments \in Seq(Comment)
        /\ DOMAIN more.comments = DOMAIN rows.comments \cup {Len(rows.comments) + 1}
        /\ \A k \in DOMAIN rows.comments : more.comments[k] = rows.comments[k]
        /\ more.comments[Len(rows.comments) + 1] = reply
    BY <1>1, <1>4, <1>6, <1>11
  <2>2. ASSUME NEW k \in DOMAIN more.comments
        PROVE  /\ more.comments[k].review \in DOMAIN more.reviews
               /\ more.comments[k].from # 0 =>
                     /\ more.reviews[more.comments[k].review].from = more.comments[k].from
                     /\ Entries[more.comments[k].from].reply
    <3>1. CASE k \in DOMAIN rows.comments
      <4>1. more.comments[k] = rows.comments[k]
        BY <3>1, <2>1
      <4>2. rows.comments[k].review \in DOMAIN rows.reviews
        BY <3>1, <1>9
      <4>3. more.reviews[rows.comments[k].review] = rows.reviews[rows.comments[k].review]
        BY <4>2, <1>7
      <4>4. rows.comments[k].review \in DOMAIN more.reviews
        BY <4>2, <1>7
      <4> QED BY <3>1, <4>1, <4>3, <4>4, <1>9
    <3>2. CASE k = Len(rows.comments) + 1
      BY <3>2, <2>1, <1>7, <1>8, <1>11
    <3> QED BY <3>1, <3>2, <2>1
  <2>3. ASSUME NEW id \in DOMAIN more.reviews, more.reviews[id].from # 0,
               Entries[more.reviews[id].from].reply
        PROVE  \E k \in DOMAIN more.comments :
                  /\ more.comments[k].review = id
                  /\ more.comments[k].from = more.reviews[id].from
    <3>1. CASE id \in DOMAIN rows.reviews
      <4>1. PICK k \in DOMAIN rows.comments :
                  /\ rows.comments[k].review = id
                  /\ rows.comments[k].from = rows.reviews[id].from
        BY <2>3, <3>1, <1>7, <1>10
      <4> QED BY <4>1, <3>1, <1>7, <2>1
    <3>2. CASE id = Len(rows.reviews) + 1
      BY <3>2, <1>7, <1>8, <2>1
    <3> QED BY <3>1, <3>2, <1>7
  <2>4. RepliesRight(more)
    BY <2>2, <2>3 DEF RepliesRight
  <2>5. more \in Rows
    BY <1>6, <1>7, <2>1 DEF Rows
  <2> QED BY <1>5, <2>2, <2>4, <2>5 DEF Right
<1>12. CASE ~Entries[n].reply
  <2>1. more.comments = rows.comments
    BY <1>6, <1>12
  <2>2. \A k \in DOMAIN more.comments :
           /\ more.comments[k].review \in DOMAIN more.reviews
           /\ more.comments[k].from # 0 =>
                 /\ more.reviews[more.comments[k].review].from = more.comments[k].from
                 /\ Entries[more.comments[k].from].reply
    BY <2>1, <1>7, <1>9
  <2>3. ASSUME NEW id \in DOMAIN more.reviews, more.reviews[id].from # 0,
               Entries[more.reviews[id].from].reply
        PROVE  \E k \in DOMAIN more.comments :
                  /\ more.comments[k].review = id
                  /\ more.comments[k].from = more.reviews[id].from
    <3>1. id \in DOMAIN rows.reviews /\ more.reviews[id] = rows.reviews[id]
      BY <2>3, <1>7, <1>8, <1>12
    <3> QED BY <2>1, <2>3, <3>1, <1>10
  <2>4. RepliesRight(more)
    BY <2>2, <2>3 DEF RepliesRight
  <2>5. more \in Rows
    BY <1>1, <1>6, <1>7, <2>1 DEF Rows
  <2> QED BY <1>5, <2>2, <2>4, <2>5 DEF Right
<1> QED BY <1>11, <1>12

-----------------------------------------------------------------------------
(* The rows are right                                                      *)

LEMMA NoRowsRight == Right(NoRows)
<1>1. NoRows.reviews = <<>> /\ NoRows.comments = <<>>
  BY DEF NoRows
<1>2. NoRows \in Rows
  BY DEF NoRows, Rows
<1> QED BY <1>1, <1>2 DEF Right, RepliesRight

LEMMA OffTyped == Off \in Script
BY EntriesTyped DEF Off, Script

\* What a client's state is after it asked for the list or for a page.
LEMMA Begun ==
    ASSUME NEW old \in Reader, NEW owed \in SUBSET (Nat \ {0}), NEW min \in Ratings
    PROVE  [old EXCEPT !.pc = "reading", !.min = min, !.owed = owed] \in Reader
BY DEF Reader

LEMMA Ended ==
    ASSUME NEW old \in Reader, NEW owed \in SUBSET (Nat \ {0})
    PROVE  /\ [old EXCEPT !.pc = "done", !.owed = owed] \in Reader
           /\ [old EXCEPT !.pc = "done", !.owed = owed].pc = "done"
           /\ [old EXCEPT !.pc = "done", !.owed = owed].owed = owed
BY DEF Reader

LEMMA Advanced ==
    ASSUME NEW old \in Reader, NEW owed \in SUBSET (Nat \ {0}), NEW offset \in Nat
    PROVE  [old EXCEPT !.offset = offset, !.owed = owed] \in Reader
BY DEF Reader

LEMMA IdleTyped == Idle \in Reader /\ Idle.offset = 0
<1>1. 1 \in Ratings
  BY ReviewsAssumption DEF Ratings
<1> QED BY <1>1 DEF Idle, Reader

LEMMA CommittedRows ==
    ASSUME RowInv
    PROVE  /\ db \in Rows /\ db.reviews \in Seq(Review) /\ db.comments \in Seq(Comment)
           /\ draft \in Rows /\ draft.reviews \in Seq(Review)
           /\ Len(db.reviews) \in Nat /\ Len(draft.reviews) \in Nat
BY DEF RowInv, Right, Rows

\* What a request leaves alone.
LEMMA RowsStay ==
    ASSUME RowInv, UNCHANGED <<draft, script, twice>>, Right(db)',
           reader' \in [Readers -> Reader]
    PROVE  RowInv'
BY DEF RowInv, Right, RepliesRight

LEMMA NoticedTyped ==
    ASSUME RowInv, NEW id, NEW rating
    PROVE  Noticed(id, rating) \in [Readers -> Reader]
BY DEF RowInv, Noticed, Reader

LEMMA CreateReviewRows ==
    ASSUME RowInv, NEW rating \in Ratings, NEW time \in Times, CreateReview(rating, time)
    PROVE  RowInv'
<1>1. PICK review : review = [rating |-> rating, created |-> time, from |-> 0]
  OBVIOUS
<1>2. review \in Review /\ review.from = 0
  BY <1>1, EntriesTyped, ReviewsAssumption DEF Review, Origins
<1>3. Right([db EXCEPT !.reviews = Append(@, review)])
  BY <1>2, ReviewAppended DEF RowInv
<1>4. db' = [db EXCEPT !.reviews = Append(@, review)]
  BY <1>1 DEF CreateReview, Written
<1>5. Right(db')
  BY <1>3, <1>4
<1> QED BY <1>5, RowsStay DEF CreateReview, Written, Right, RowInv, RepliesRight

LEMMA UpdateReviewRows ==
    ASSUME RowInv, NEW id, NEW rating \in Ratings, UpdateReview(id, rating)
    PROVE  RowInv'
<1>1. Right([db EXCEPT !.reviews[id].rating = rating])
  BY ReviewRated DEF RowInv, UpdateReview
<1>2. Right(db')
  BY <1>1 DEF UpdateReview, Written
<1>3. reader' \in [Readers -> Reader]
  BY NoticedTyped DEF UpdateReview
<1> QED BY <1>2, <1>3, RowsStay DEF UpdateReview, Written, Right, RowInv, RepliesRight

LEMMA CreateCommentRows ==
    ASSUME RowInv, NEW id, CreateComment(id)
    PROVE  RowInv'
<1>1. PICK comment : comment = [review |-> id, from |-> 0, edited |-> FALSE]
  OBVIOUS
<1>2. id \in Nat \ {0}
  BY CommittedRows DEF CreateComment
<1>3. comment \in Comment /\ comment.from = 0 /\ comment.review \in DOMAIN db.reviews
  BY <1>1, <1>2, EntriesTyped DEF Comment, Origins, CreateComment
<1>4. Right([db EXCEPT !.comments = Append(@, comment)])
  BY <1>3, CommentAppended DEF RowInv
<1>5. Right(db')
  BY <1>1, <1>4 DEF CreateComment, Written
<1> QED BY <1>5, RowsStay DEF CreateComment, Written, Right, RowInv, RepliesRight

LEMMA UpdateCommentRows ==
    ASSUME RowInv, NEW id, NEW comment, UpdateComment(id, comment)
    PROVE  RowInv'
<1>1. Right([db EXCEPT !.comments[comment].edited = TRUE])
  BY CommentEdited DEF RowInv, UpdateComment
<1>2. Right(db')
  BY <1>1 DEF UpdateComment, Written
<1> QED BY <1>2, RowsStay DEF UpdateComment, Written, Right, RowInv, RepliesRight

LEMMA StartReadingRows ==
    ASSUME RowInv, NEW r \in Readers, NEW min \in Ratings, StartReading(r, min)
    PROVE  RowInv'
<1>1. Matching(min) \in SUBSET (Nat \ {0})
  BY CommittedRows DEF Matching
<1>2. [Idle EXCEPT !.pc = "reading", !.min = min, !.owed = Matching(min)] \in Reader
  BY <1>1, IdleTyped, Begun
<1>3. reader' \in [Readers -> Reader]
  BY <1>2 DEF RowInv, StartReading
<1> QED BY <1>3 DEF RowInv, Right, RepliesRight, StartReading

LEMMA ReadPageRows ==
    ASSUME RowInv, NEW r \in Readers, ReadPage(r)
    PROVE  RowInv'
<1>1. PICK page : page = Page(reader[r].min, reader[r].offset)
  OBVIOUS
<1>2. PICK owed : owed = reader[r].owed \ page
  OBVIOUS
<1>3. reader[r] \in Reader /\ owed \in SUBSET (Nat \ {0}) /\ Limit \in Nat
  BY <1>2, ReviewsAssumption DEF RowInv, Reader
<1>4. [Idle EXCEPT !.pc = "done", !.owed = owed] \in Reader
  BY <1>3, IdleTyped, Ended
<1>5. [reader[r] EXCEPT !.offset = @ + Limit, !.owed = owed] \in Reader
  <2>1. PICK offset : offset = reader[r].offset + Limit
    OBVIOUS
  <2>2. offset \in Nat
    BY <1>3, <2>1 DEF Reader
  <2>3. [reader[r] EXCEPT !.offset = offset, !.owed = owed] \in Reader
    BY <1>3, <2>2, Advanced
  <2> QED BY <2>1, <2>3
<1>6. reader' = [reader EXCEPT ![r] =
                    IF Cardinality(page) < Limit
                    THEN [Idle EXCEPT !.pc = "done", !.owed = owed]
                    ELSE [reader[r] EXCEPT !.offset = @ + Limit, !.owed = owed]]
  BY <1>1, <1>2 DEF ReadPage
<1>7. reader' \in [Readers -> Reader]
  BY <1>4, <1>5, <1>6 DEF RowInv
<1> QED BY <1>7 DEF RowInv, Right, RepliesRight, ReadPage

LEMMA CountRows ==
    ASSUME RowInv, NEW i \in Importers, Count(i)
    PROVE  RowInv'
<1>1. [pc |-> "counted", pos |-> 0] \in Script
  BY EntriesTyped DEF Script
<1>2. script' \in [Importers -> Script] /\ twice' \in BOOLEAN
  BY <1>1 DEF RowInv, Count
<1> QED BY <1>2 DEF RowInv, Right, RepliesRight, Count

LEMMA InsertRows ==
    ASSUME RowInv, NEW i \in Importers, NEW time \in Times, Insert(i, time)
    PROVE  RowInv'
<1>1. PICK n : n = script[i].pos + 1
  OBVIOUS
<1>2. PICK rows : rows = IF script[i].pc = "writing" THEN draft ELSE db
  OBVIOUS
<1>3. /\ n \in DOMAIN Entries /\ Right(rows)
      /\ draft' = WithEntry(rows, n, time)
      /\ script' = [script EXCEPT ![i] = [pc |-> "writing", pos |-> n]]
      /\ UNCHANGED <<db, twice, reader>>
  BY <1>1, <1>2 DEF Insert, RowInv
<1>4. Right(draft')
  BY <1>3, EntryWritten
<1>5. [pc |-> "writing", pos |-> n] \in Script
  BY <1>3, EntriesTyped DEF Script
<1>6. script' \in [Importers -> Script]
  BY <1>3, <1>5 DEF RowInv
<1> QED BY <1>3, <1>4, <1>6 DEF RowInv, Right, RepliesRight

LEMMA CommitRows ==
    ASSUME RowInv, NEW i \in Importers, Commit(i) \/ Abort(i)
    PROVE  RowInv'
<1>1. Right(db') /\ Right(draft')
  BY NoRowsRight DEF RowInv, Commit, Abort
<1>2. script' \in [Importers -> Script]
  BY OffTyped DEF RowInv, Commit, Abort
<1> QED BY <1>1, <1>2 DEF RowInv, Right, RepliesRight, Commit, Abort

LEMMA RowInit == Init => RowInv
BY NoRowsRight, OffTyped, IdleTyped DEF Init, RowInv

LEMMA RowStep == RowInv /\ [Next]_vars => RowInv'
<1> SUFFICES ASSUME RowInv, [Next]_vars PROVE RowInv'
  OBVIOUS
<1>1. CASE Request
  BY <1>1, CreateReviewRows, UpdateReviewRows, CreateCommentRows, UpdateCommentRows DEF Request
<1>2. CASE \E r \in Readers : (\E min \in Ratings : StartReading(r, min)) \/ ReadPage(r)
  BY <1>2, StartReadingRows, ReadPageRows
<1>3. CASE Import
  BY <1>3, CountRows, InsertRows, CommitRows DEF Import
<1>4. CASE UNCHANGED vars
  BY <1>4 DEF vars, RowInv, Right, RepliesRight
<1> QED BY <1>1, <1>2, <1>3, <1>4 DEF Next

LEMMA RowsHold == Spec => []RowInv
BY RowInit, RowStep, PTL DEF Spec

\* The reviews and comments are typed, and every comment is on a review that
\* is there, whether its row was written by a request or by the script.
THEOREM ReviewTypesCorrect == Spec => []TypeOK
<1>1. ASSUME RowInv PROVE TypeOK
  <2>1. ASSUME NEW rows, Right(rows)
        PROVE  \A c \in Range(rows.comments) : c.review \in DOMAIN rows.reviews
    BY <2>1 DEF Right, Range
  <2> QED BY <1>1, <2>1, CommittedRows DEF TypeOK, RowInv
<1> QED BY <1>1, RowsHold, PTL

-----------------------------------------------------------------------------
(* The copies of an entry are counted                                      *)

LEMMA FromFinite ==
    ASSUME NEW q \in Seq(Review), NEW n
    PROVE  IsFiniteSet(From(q, n)) /\ Cardinality(From(q, n)) \in Nat
<1>1. IsFiniteSet(1..Len(q))
  BY FS_Interval
<1>2. From(q, n) \in SUBSET (1..Len(q))
  BY DEF From
<1>3. IsFiniteSet(From(q, n))
  BY <1>1, <1>2, FS_Subset
<1> QED BY <1>3, FS_CardinalityType

LEMMA FromAppended ==
    ASSUME NEW q \in Seq(Review), NEW review \in Review, NEW n
    PROVE  /\ review.from # n => From(Append(q, review), n) = From(q, n)
           /\ Cardinality(From(Append(q, review), n)) =
                  Cardinality(From(q, n)) + (IF review.from = n THEN 1 ELSE 0)
<1>1. PICK more : more = Append(q, review)
  OBVIOUS
<1>2. /\ Len(q) \in Nat
      /\ DOMAIN q = 1..Len(q) /\ DOMAIN more = 1..(Len(q) + 1)
      /\ \A id \in 1..Len(q) : more[id] = q[id]
      /\ more[Len(q) + 1] = review
  BY <1>1
<1>3. CASE review.from = n
  <2>1. From(more, n) = From(q, n) \cup {Len(q) + 1}
    BY <1>2, <1>3 DEF From
  <2>2. Len(q) + 1 \notin From(q, n)
    BY <1>2 DEF From
  <2> QED BY <1>1, <1>3, <2>1, <2>2, FromFinite, FS_AddElement
<1>4. CASE review.from # n
  <2>1. From(more, n) = From(q, n)
    BY <1>2, <1>4 DEF From
  <2> QED BY <1>1, <1>4, <2>1, FromFinite
<1> QED BY <1>3, <1>4

LEMMA CountInit == Init => CountInv
<1> SUFFICES ASSUME Init PROVE CountInv
  OBVIOUS
<1>1. /\ db.reviews = <<>>
      /\ \A i \in Importers : script[i].pc = "off"
  BY DEF Init, NoRows, Off
<1>2. \A n : From(db.reviews, n) = {}
  BY <1>1 DEF From
<1>3. \A n : Cardinality(From(db.reviews, n)) = 0
  BY <1>2, FS_EmptySet
<1>4. DraftInv
  BY <1>1 DEF DraftInv, Writing
<1> QED BY <1>1, <1>3, <1>4 DEF CountInv

\* A request writes while no script does, and no copy of an entry.
LEMMA CountStays ==
    ASSUME CountInv, UNCHANGED <<script, twice>>, Unlocked,
           \A n \in DOMAIN Entries : From(db.reviews', n) = From(db.reviews, n)
    PROVE  CountInv'
<1>1. \A i \in Importers : script'[i] = script[i] /\ ~Writing(i)
  BY DEF Unlocked, Writing
<1>2. From(db.reviews', 1) = From(db.reviews, 1)
  BY EntriesTyped
<1>3. DraftInv'
  BY <1>1 DEF CountInv, DraftInv, Writing
<1>4. \A n \in DOMAIN Entries :
         /\ Cardinality(From(db.reviews', n)) = Cardinality(From(db.reviews', 1))
         /\ ~twice' => Cardinality(From(db.reviews', n)) <= 1
  BY <1>2 DEF CountInv
<1>5. ~twice' => \A i \in Importers : script'[i].pc # "off" =>
         /\ \A j \in Importers : script'[j].pc # "off" => j = i
         /\ \A n \in DOMAIN Entries : From(db.reviews', n) = {}
  BY <1>1 DEF CountInv
<1> QED BY <1>3, <1>4, <1>5 DEF CountInv

LEMMA RequestCount ==
    ASSUME RowInv, CountInv, Request
    PROVE  CountInv'
<1>1. UNCHANGED <<script, twice>> /\ Unlocked
  BY DEF Request, CreateReview, UpdateReview, CreateComment, UpdateComment, Written
<1>2. ASSUME NEW n \in DOMAIN Entries
      PROVE  From(db.reviews', n) = From(db.reviews, n)
  <2>1. ASSUME NEW rating \in Ratings, NEW time \in Times, CreateReview(rating, time)
        PROVE  From(db.reviews', n) = From(db.reviews, n)
    <3>1. PICK review : review = [rating |-> rating, created |-> time, from |-> 0]
      OBVIOUS
    <3>2. review \in Review /\ review.from # n
      BY <3>1, EntriesTyped, ReviewsAssumption DEF Review, Origins
    <3>3. db'.reviews = Append(db.reviews, review)
      BY <2>1, <3>1, CommittedRows DEF CreateReview, Written, Rows
    <3> QED BY <3>2, <3>3, FromAppended, CommittedRows
  <2>2. ASSUME NEW id, NEW rating \in Ratings, UpdateReview(id, rating)
        PROVE  From(db.reviews', n) = From(db.reviews, n)
    <3>1. PICK review : review = [db.reviews[id] EXCEPT !.rating = rating]
      OBVIOUS
    <3>2. db.reviews[id] \in Review /\ id \in DOMAIN db.reviews
      BY <2>2, CommittedRows, ReviewRead DEF UpdateReview
    <3>3. review.from = db.reviews[id].from
      BY <3>1, <3>2 DEF Review
    <3>4. db'.reviews = [db.reviews EXCEPT ![id] = review]
      BY <2>2, <3>1, CommittedRows DEF UpdateReview, Written, Rows
    <3> QED BY <3>2, <3>3, <3>4, CommittedRows DEF From
  <2>3. ASSUME NEW id, CreateComment(id) \/ \E comment : UpdateComment(id, comment)
        PROVE  From(db.reviews', n) = From(db.reviews, n)
    <3>1. db'.reviews = db.reviews
      BY <2>3, CommittedRows DEF CreateComment, UpdateComment, Written, Rows
    <3> QED BY <3>1
  <2> QED BY <2>1, <2>2, <2>3 DEF Request
<1> QED BY <1>1, <1>2, CountStays

LEMMA CountCount ==
    ASSUME RowInv, CountInv, NEW i \in Importers, Count(i)
    PROVE  CountInv'
<1>1. /\ db' = db /\ draft' = draft /\ db.reviews = <<>>
      /\ script'[i] = [pc |-> "counted", pos |-> 0]
      /\ \A j \in Importers : j # i => script'[j] = script[j]
      /\ ~twice' => ~twice /\ \A j \in Importers : script[j].pc = "off"
  BY DEF RowInv, Count
<1>2. \A n : From(db.reviews', n) = {} /\ From(db.reviews, n) = {}
  BY <1>1 DEF From
<1>3. DraftInv'
  <2>1. \A j, k \in Importers : Writing(j)' /\ Writing(k)' => j = k
    BY <1>1 DEF CountInv, DraftInv, Writing
  <2>2. \A j \in Importers : script'[j].pc = "counted" => script'[j].pos = 0
    BY <1>1 DEF CountInv, DraftInv
  <2>3. \A j \in Importers : Writing(j)' => script'[j] = script[j] /\ Writing(j)
    BY <1>1 DEF Writing
  <2> QED BY <1>1, <2>1, <2>2, <2>3 DEF CountInv, DraftInv
<1>4. \A n \in DOMAIN Entries :
         /\ Cardinality(From(db.reviews', n)) = Cardinality(From(db.reviews', 1))
         /\ ~twice' => Cardinality(From(db.reviews', n)) <= 1
  BY <1>2, FS_EmptySet
<1>5. ~twice' => \A j \in Importers : script'[j].pc # "off" =>
         /\ \A k \in Importers : script'[k].pc # "off" => k = j
         /\ \A n \in DOMAIN Entries : From(db.reviews', n) = {}
  BY <1>1, <1>2
<1> QED BY <1>3, <1>4, <1>5 DEF CountInv

LEMMA InsertCount ==
    ASSUME RowInv, CountInv, NEW i \in Importers, NEW time \in Times, Insert(i, time)
    PROVE  CountInv'
<1>1. PICK n : n = script[i].pos + 1
  OBVIOUS
<1>2. PICK rows : rows = IF Writing(i) THEN draft ELSE db
  OBVIOUS
<1>3. /\ n \in DOMAIN Entries /\ Right(rows)
      /\ Writing(i) \/ (script[i].pc = "counted" /\ Unlocked)
      /\ draft' = WithEntry(rows, n, time)
      /\ db' = db /\ twice' = twice
      /\ script'[i] = [pc |-> "writing", pos |-> n]
      /\ \A j \in Importers : j # i => script'[j] = script[j]
  BY <1>1, <1>2 DEF Insert, RowInv, Writing
<1>4. PICK review : review = [rating |-> Entries[n].rating, created |-> time, from |-> n]
  OBVIOUS
<1>5. review \in Review /\ review.from = n
  BY <1>3, <1>4, EntryTyped
<1>6. draft'.reviews = Append(rows.reviews, review) /\ rows.reviews \in Seq(Review)
  BY <1>3, <1>4 DEF WithEntry, Right, Rows
<1>7. \A j \in Importers : Writing(j) => j = i
  BY <1>3 DEF CountInv, DraftInv, Unlocked, Writing
<1>8. Holds(db.reviews, rows.reviews)
  BY <1>2, CommittedRows DEF CountInv, DraftInv, Holds
<1>9. Holds(db'.reviews, draft'.reviews)
  BY <1>3, <1>5, <1>6, <1>8, CommittedRows DEF Holds
<1>10. script[i].pos \in Nat /\ n \in Nat /\ DOMAIN Entries \subseteq Nat \ {0}
  BY <1>1, EntriesTyped DEF RowInv, Script
<1>11. ASSUME NEW m \in DOMAIN Entries
       PROVE  Cardinality(From(draft'.reviews, m)) =
                  Cardinality(From(db'.reviews, m)) + (IF m <= n THEN 1 ELSE 0)
  <2>1. Cardinality(From(draft'.reviews, m)) =
            Cardinality(From(rows.reviews, m)) + (IF m = n THEN 1 ELSE 0)
    BY <1>5, <1>6, FromAppended
  <2>2. Cardinality(From(rows.reviews, m)) =
            Cardinality(From(db.reviews, m)) + (IF m < n THEN 1 ELSE 0)
    <3>1. CASE Writing(i)
      BY <3>1, <1>1, <1>2, <1>10 DEF CountInv, DraftInv
    <3>2. CASE ~Writing(i)
      <4>1. rows = db /\ script[i].pos = 0 /\ n = 1
        BY <3>2, <1>1, <1>2, <1>3 DEF CountInv, DraftInv
      <4> QED BY <4>1, <1>10, FromFinite, CommittedRows
    <3> QED BY <3>1, <3>2
  <2>3. Cardinality(From(db.reviews, m)) \in Nat
    BY FromFinite, CommittedRows
  <2> QED BY <1>3, <1>10, <2>1, <2>2, <2>3
<1>12. DraftInv'
  <2>1. \A j, k \in Importers : Writing(j)' /\ Writing(k)' => j = k
    BY <1>3, <1>7 DEF Writing
  <2>2. \A j \in Importers : script'[j].pc = "counted" => script'[j].pos = 0
    BY <1>3 DEF CountInv, DraftInv
  <2>3. \A j \in Importers : Writing(j)' => j = i
    BY <1>3, <1>7 DEF Writing
  <2>4. script'[i].pos = n /\ n # 0
    BY <1>3, <1>10
  <2> QED BY <2>1, <2>2, <2>3, <2>4, <1>9, <1>11 DEF DraftInv
<1>13. ~twice' => \A j \in Importers : script'[j].pc # "off" =>
          /\ \A k \in Importers : script'[k].pc # "off" => k = j
          /\ \A m \in DOMAIN Entries : From(db.reviews', m) = {}
  <2>1. \A j \in Importers : script'[j].pc # "off" => script[j].pc # "off"
    BY <1>3 DEF Writing
  <2> QED BY <2>1, <1>3 DEF CountInv
<1> QED BY <1>3, <1>12, <1>13 DEF CountInv

LEMMA CommitCount ==
    ASSUME RowInv, CountInv, NEW i \in Importers, Commit(i)
    PROVE  CountInv'
<1>1. /\ db' = draft /\ twice' = twice
      /\ script'[i] = Off /\ script[i].pos = Len(Entries) /\ Writing(i)
      /\ \A j \in Importers : j # i => script'[j] = script[j]
  BY DEF Commit, RowInv, Writing
<1>2. \A j \in Importers : ~Writing(j)'
  BY <1>1 DEF CountInv, DraftInv, Writing, Off
<1>3. DraftInv'
  BY <1>1, <1>2 DEF CountInv, DraftInv, Off
<1>4. ASSUME NEW n \in DOMAIN Entries
      PROVE  Cardinality(From(db'.reviews, n)) = Cardinality(From(db.reviews, n)) + 1
  <2>1. n <= Len(Entries)
    BY EntriesTyped
  <2> QED BY <1>1, <2>1 DEF CountInv, DraftInv
<1>5. 1 \in DOMAIN Entries
  BY EntriesTyped
<1>6. ASSUME NEW n \in DOMAIN Entries
      PROVE  /\ Cardinality(From(db'.reviews, n)) = Cardinality(From(db'.reviews, 1))
             /\ ~twice' => Cardinality(From(db'.reviews, n)) <= 1
  <2>1. Cardinality(From(db.reviews, n)) = Cardinality(From(db.reviews, 1))
    BY DEF CountInv
  <2>2. ~twice => Cardinality(From(db.reviews, n)) = 0
    BY <1>1, FS_EmptySet DEF CountInv, Writing
  <2> QED BY <1>1, <1>4, <1>5, <2>1, <2>2
<1>7. ~twice' => \A j \in Importers : script'[j].pc = "off"
  BY <1>1 DEF CountInv, Writing, Off
<1> QED BY <1>3, <1>6, <1>7 DEF CountInv

LEMMA AbortCount ==
    ASSUME RowInv, CountInv, NEW i \in Importers, Abort(i)
    PROVE  CountInv'
<1>1. /\ db' = db /\ twice' = twice /\ script'[i] = Off
      /\ \A j \in Importers : j # i => script'[j] = script[j]
      /\ ~Writing(i) => draft' = draft
  BY DEF Abort, RowInv, Writing
<1>2. \A j \in Importers : Writing(j)' => j # i /\ Writing(j) /\ draft' = draft
  BY <1>1 DEF CountInv, DraftInv, Writing, Off
<1>3. DraftInv'
  <2>1. \A j, k \in Importers : Writing(j)' /\ Writing(k)' => j = k
    BY <1>2 DEF CountInv, DraftInv
  <2>2. \A j \in Importers : script'[j].pc = "counted" => script'[j].pos = 0
    BY <1>1 DEF CountInv, DraftInv, Off
  <2>3. \A j \in Importers : Writing(j)' => script'[j] = script[j] /\ Writing(j)
    BY <1>1, <1>2
  <2> QED BY <1>1, <1>2, <2>1, <2>2, <2>3 DEF CountInv, DraftInv
<1>4. ~twice' => \A j \in Importers : script'[j].pc # "off" =>
         /\ \A k \in Importers : script'[k].pc # "off" => k = j
         /\ \A n \in DOMAIN Entries : From(db.reviews', n) = {}
  BY <1>1 DEF CountInv, Off
<1> QED BY <1>1, <1>3, <1>4 DEF CountInv

LEMMA CountStep == RowInv /\ CountInv /\ [Next]_vars => CountInv'
<1> SUFFICES ASSUME RowInv, CountInv, [Next]_vars PROVE CountInv'
  OBVIOUS
<1>1. CASE Request
  BY <1>1, RequestCount
<1>2. CASE UNCHANGED <<db, draft, script, twice>>
  BY <1>2 DEF CountInv, DraftInv, Writing
<1>3. CASE Import
  BY <1>3, CountCount, InsertCount, CommitCount, AbortCount DEF Import
<1>4. CASE \E r \in Readers : (\E min \in Ratings : StartReading(r, min)) \/ ReadPage(r)
  BY <1>4, <1>2 DEF StartReading, ReadPage
<1> QED BY <1>1, <1>2, <1>3, <1>4 DEF Next, vars

LEMMA CountHolds == Spec => [](RowInv /\ CountInv)
BY RowInit, RowStep, CountInit, CountStep, PTL DEF Spec

\* Whatever requests write meanwhile, and wherever a script is killed, the
\* list has as many copies of every entry as of the first, one at most unless
\* two scripts overlapped, and under each its own reply and no other.
THEOREM ImportsAreFaithful == Spec => []ImportFaithful
<1>1. ASSUME RowInv, CountInv PROVE ImportFaithful
  <2>1. \A n : Imported(n) = From(db.reviews, n)
    BY DEF Imported, From
  <2>2. ASSUME NEW n \in DOMAIN Entries, NEW id \in Imported(n)
        PROVE  {c.from : c \in Replies(id)} = IF Entries[n].reply THEN {n} ELSE {}
    <3>1. id \in DOMAIN db.reviews /\ db.reviews[id].from = n /\ n # 0
      BY <2>2, EntriesTyped DEF Imported
    <3>2. \A c \in Replies(id) : c.from = n /\ Entries[n].reply
      BY <1>1, <3>1 DEF Replies, Range, RowInv, Right, RepliesRight
    <3>3. Entries[n].reply => \E c \in Replies(id) : c.from = n
      BY <1>1, <3>1 DEF Replies, Range, RowInv, Right, RepliesRight
    <3> QED BY <3>2, <3>3
  <2> QED BY <1>1, <2>1, <2>2 DEF ImportFaithful, CountInv
<1> QED BY <1>1, CountHolds, PTL

-----------------------------------------------------------------------------
(* Places in the list                                                      *)

LessThan == {ss \in Nat \X Nat : ss[1] < ss[2]}

LEMMA LessThanWellFounded == IsWellFoundedOn(LessThan, Nat)
BY NatLessThanWellFounded DEF OpToRel, LessThan

\* A set of numbers that is not empty has a least one.
LEMMA Least ==
    ASSUME NEW S \in SUBSET Nat, S # {}
    PROVE  \E n \in S : \A k \in S : n <= k
<1>1. PICK n \in S : \A k \in S : ~(<<k, n>> \in LessThan)
  BY LessThanWellFounded, WFMin
<1>2. ASSUME NEW k \in S PROVE n <= k
  <2>1. ~(<<k, n>> \in LessThan) /\ n \in Nat /\ k \in Nat
    BY <1>1
  <2> QED BY <2>1 DEF LessThan
<1> QED BY <1>2

LEMMA PlaceIsNumber ==
    ASSUME NEW q \in Seq(Review), NEW min, NEW id
    PROVE  /\ IsFiniteSet(Rated(q, min)) /\ IsFiniteSet(Ahead(q, min, id))
           /\ Place(q, min, id) \in Nat /\ Place(q, min, id) <= Len(q)
<1>1. IsFiniteSet(1..Len(q)) /\ Cardinality(1..Len(q)) = Len(q)
  <2>1. 1 \in Int /\ Len(q) \in Int /\ Len(q) >= 0
    OBVIOUS
  <2> QED BY <2>1, FS_Interval
<1>2. Rated(q, min) \in SUBSET (1..Len(q)) /\ Ahead(q, min, id) \in SUBSET Rated(q, min)
  BY DEF Rated, Ahead
<1>3. IsFiniteSet(Rated(q, min))
  BY <1>1, <1>2, FS_Subset
<1>4. IsFiniteSet(Ahead(q, min, id))
  BY <1>2, <1>3, FS_Subset
<1>5. Place(q, min, id) <= Len(q)
  BY <1>1, <1>2, FS_Subset DEF Place
<1> QED BY <1>3, <1>4, <1>5, FS_CardinalityType DEF Place

\* ORDER BY created_at DESC, id DESC is a total order.
LEMMA BeforeIsOrder ==
    ASSUME NEW q \in Seq(Review)
    PROVE  \A a, b \in DOMAIN q :
              /\ ~Before(q, a, a)
              /\ a # b => Before(q, a, b) \/ Before(q, b, a)
              /\ Before(q, a, b) =>
                    /\ ~Before(q, b, a)
                    /\ \A c \in DOMAIN q : Before(q, b, c) => Before(q, a, c)
<1>1. \A a \in DOMAIN q : q[a].created \in Nat /\ a \in Nat
  BY ReviewRead
<1> QED BY <1>1 DEF Before

\* No place is empty: whatever place a review has, every earlier one is taken.
LEMMA EarlierPlaceTaken ==
    ASSUME NEW q \in Seq(Review), NEW min, NEW id \in Rated(q, min),
           NEW k \in Nat, k <= Place(q, min, id)
    PROVE  \E y \in Rated(q, min) : Place(q, min, y) = k
<1> DEFINE S == {p \in Nat : p >= k /\ \E y \in Rated(q, min) : Place(q, min, y) = p}
<1>1. Place(q, min, id) \in S
  BY PlaceIsNumber
<1>2. PICK m \in S : \A p \in S : m <= p
  BY <1>1, Least
<1>3. PICK x \in Rated(q, min) : Place(q, min, x) = m
  BY <1>2
<1>4. SUFFICES ASSUME m # k PROVE FALSE
  BY <1>3
<1>5. m \in Nat /\ m > k
  BY <1>2, <1>4
<1>6. Ahead(q, min, x) # {}
  <2>1. Cardinality(Ahead(q, min, x)) # 0
    BY <1>3, <1>5 DEF Place
  <2> QED BY <2>1, FS_EmptySet
\* Of those ahead of x, the one that has the most ahead of it.
<1> DEFINE D == {d \in Nat : \E z \in Ahead(q, min, x) : d = Len(q) - Place(q, min, z)}
<1>7. \A z \in Ahead(q, min, x) :
         /\ z \in Rated(q, min) /\ z \in DOMAIN q
         /\ Place(q, min, z) \in Nat /\ Len(q) - Place(q, min, z) \in Nat
  <2> SUFFICES ASSUME NEW z \in Ahead(q, min, x)
               PROVE  /\ z \in Rated(q, min) /\ z \in DOMAIN q
                      /\ Place(q, min, z) \in Nat /\ Len(q) - Place(q, min, z) \in Nat
    OBVIOUS
  <2>1. Place(q, min, z) \in Nat /\ Place(q, min, z) <= Len(q) /\ Len(q) \in Nat
    BY PlaceIsNumber
  <2>2. z \in Rated(q, min) /\ z \in DOMAIN q
    BY DEF Ahead, Rated
  <2>3. Len(q) - Place(q, min, z) \in Nat
    BY <2>1
  <2> QED BY <2>1, <2>2, <2>3
<1>8. D # {}
  BY <1>6, <1>7
<1>9. PICK least \in D : \A d \in D : least <= d
  BY <1>8, Least
<1>10. PICK y \in Ahead(q, min, x) : least = Len(q) - Place(q, min, y)
  BY <1>9
<1>11. \A z \in Ahead(q, min, x) : Place(q, min, z) <= Place(q, min, y)
  BY <1>7, <1>9, <1>10
<1> HIDE DEF S, D
<1>12. x \in DOMAIN q /\ y \in DOMAIN q /\ Before(q, y, x)
  BY <1>7, <1>10 DEF Rated, Ahead
<1>13. Ahead(q, min, x) = Ahead(q, min, y) \cup {y}
  <2>1. ASSUME NEW z \in Ahead(q, min, y) PROVE z \in Ahead(q, min, x)
    BY <1>12, BeforeIsOrder DEF Ahead, Rated
  <2>2. ASSUME NEW z \in Ahead(q, min, x), z # y, z \notin Ahead(q, min, y)
        PROVE  FALSE
    <3>1. z \in DOMAIN q /\ ~Before(q, z, y)
      BY <1>7, <2>2 DEF Ahead
    <3>2. Before(q, y, z)
      BY <1>12, <2>2, <3>1, BeforeIsOrder
    <3>3. Ahead(q, min, y) \cup {y} \in SUBSET Ahead(q, min, z)
      BY <1>10, <1>12, <3>1, <3>2, BeforeIsOrder DEF Ahead, Rated
    <3>4. y \notin Ahead(q, min, y)
      BY <1>12, BeforeIsOrder DEF Ahead
    <3>5. Cardinality(Ahead(q, min, y) \cup {y}) = Place(q, min, y) + 1
      BY <3>4, PlaceIsNumber, FS_AddElement DEF Place
    <3>6. Cardinality(Ahead(q, min, y) \cup {y}) <= Place(q, min, z)
      BY <3>3, PlaceIsNumber, FS_Subset DEF Place
    <3> QED BY <1>7, <1>10, <1>11, <2>2, <3>5, <3>6
  <2> QED BY <1>10, <2>1, <2>2
<1>14. m = Place(q, min, y) + 1
  <2>1. y \notin Ahead(q, min, y)
    BY <1>12, BeforeIsOrder DEF Ahead
  <2> QED BY <1>3, <1>13, <2>1, PlaceIsNumber, FS_AddElement DEF Place
<1>15. Place(q, min, y) \in S
  BY <1>5, <1>7, <1>10, <1>14 DEF S
<1> QED BY <1>2, <1>5, <1>7, <1>10, <1>14, <1>15

PageRows(q, min, offset) ==
    {id \in Rated(q, min) : Place(q, min, id) \in offset..offset + Limit - 1}

\* A page that is not full is the last one.
LEMMA ShortPageIsLast ==
    ASSUME NEW q \in Seq(Review), NEW min, NEW offset \in Nat,
           Cardinality(PageRows(q, min, offset)) < Limit,
           NEW id \in Rated(q, min), Place(q, min, id) >= offset
    PROVE  id \in PageRows(q, min, offset)
<1>1. SUFFICES ASSUME id \notin PageRows(q, min, offset) PROVE FALSE
  OBVIOUS
<1>2. Limit \in Nat /\ Limit # 0 /\ Place(q, min, id) \in Nat
  BY ReviewsAssumption, PlaceIsNumber
<1>3. Place(q, min, id) >= offset + Limit
  BY <1>1, <1>2 DEF PageRows
<1> DEFINE places == offset..offset + Limit - 1
<1> DEFINE at == [k \in places |-> CHOOSE y \in Rated(q, min) : Place(q, min, y) = k]
<1>4. IsFiniteSet(places) /\ Cardinality(places) = Limit
  <2>1. PICK last : last = offset + Limit - 1
    OBVIOUS
  <2>2. /\ offset \in Int /\ last \in Int
        /\ (IF offset > last THEN 0 ELSE last - offset + 1) = Limit
    BY <1>2, <2>1
  <2>3. IsFiniteSet(offset..last) /\ Cardinality(offset..last) = Limit
    BY <2>2, FS_Interval
  <2> QED BY <2>1, <2>3
<1>5. ASSUME NEW k \in places
      PROVE  at[k] \in Rated(q, min) /\ Place(q, min, at[k]) = k
  <2>1. k \in Nat /\ k <= Place(q, min, id)
    BY <1>2, <1>3
  <2>2. \E y \in Rated(q, min) : Place(q, min, y) = k
    BY <2>1, EarlierPlaceTaken
  <2> QED BY <2>2
<1>6. at \in [places -> PageRows(q, min, offset)]
  BY <1>5 DEF PageRows
<1>7. PageRows(q, min, offset) \in SUBSET Rated(q, min)
  BY DEF PageRows
<1>8. IsFiniteSet(PageRows(q, min, offset))
  BY <1>7, PlaceIsNumber, FS_Subset
<1> HIDE DEF places, at
<1>9. \E k, l \in places : k # l /\ at[k] = at[l]
  BY <1>4, <1>6, <1>8, FS_PigeonHole
<1> QED BY <1>5, <1>9

\* What a step may do to the list: rows stay, in their order, and those that
\* match the filter match it still.
Grows(q, longer, min) ==
    /\ Len(q) <= Len(longer)
    /\ \A id \in DOMAIN q :
          /\ longer[id].created = q[id].created
          /\ q[id].rating >= min => longer[id].rating >= min

LEMMA PlaceGrows ==
    ASSUME NEW q \in Seq(Review), NEW longer \in Seq(Review), NEW min, Grows(q, longer, min),
           NEW id \in Rated(q, min)
    PROVE  id \in Rated(longer, min) /\ Place(q, min, id) <= Place(longer, min, id)
<1>1. \A other \in Rated(q, min) : other \in Rated(longer, min)
  BY DEF Rated, Grows
<1>2. Ahead(q, min, id) \in SUBSET Ahead(longer, min, id)
  BY <1>1 DEF Ahead, Rated, Grows, Before
<1>3. Place(q, min, id) <= Place(longer, min, id)
  BY <1>2, PlaceIsNumber, FS_Subset DEF Place
<1> QED BY <1>1, <1>3

-----------------------------------------------------------------------------
(* A client misses nothing                                                 *)

LEMMA PageInit == Init => PageInv
BY DEF Init, PageInv, Idle

\* A write moves the rows a client is owed to later places, or the client is
\* owed nothing any more.
LEMMA PageStays ==
    ASSUME RowInv, RowInv', PageInv,
           \A r \in Readers :
              /\ reader'[r].pc = reader[r].pc
              /\ \/ reader'[r].owed = {}
                 \/ /\ reader'[r] = reader[r]
                    /\ Grows(db.reviews, db'.reviews, reader[r].min)
    PROVE  PageInv'
<1> SUFFICES ASSUME NEW r \in Readers, reader'[r].owed # {}
             PROVE  /\ reader'[r].pc = "done" => reader'[r].owed = {}
                    /\ reader'[r].pc = "reading" =>
                          \A id \in reader'[r].owed :
                             /\ id \in Rated(db'.reviews, reader'[r].min)
                             /\ Place(db'.reviews, reader'[r].min, id) >= reader'[r].offset
  BY DEF PageInv
<1>1. reader'[r] = reader[r] /\ Grows(db.reviews, db'.reviews, reader[r].min)
  OBVIOUS
<1>2. db.reviews \in Seq(Review) /\ db'.reviews \in Seq(Review)
  BY DEF RowInv, Right, Rows
<1>3. ASSUME reader[r].pc = "reading", NEW id \in reader[r].owed
      PROVE  /\ id \in Rated(db'.reviews, reader[r].min)
             /\ Place(db'.reviews, reader[r].min, id) >= reader[r].offset
  <2>1. /\ id \in Rated(db.reviews, reader[r].min)
        /\ Place(db.reviews, reader[r].min, id) >= reader[r].offset
    BY <1>3 DEF PageInv
  <2>2. /\ id \in Rated(db'.reviews, reader[r].min)
        /\ Place(db.reviews, reader[r].min, id) <= Place(db'.reviews, reader[r].min, id)
    BY <1>1, <1>2, <2>1, PlaceGrows
  <2>3. /\ Place(db.reviews, reader[r].min, id) \in Nat
        /\ Place(db'.reviews, reader[r].min, id) \in Nat
        /\ reader[r].offset \in Nat
    BY <1>2, PlaceIsNumber DEF RowInv, Reader
  <2> QED BY <2>1, <2>2, <2>3
<1> QED BY <1>1, <1>3 DEF PageInv

LEMMA CreateReviewPages ==
    ASSUME RowInv, RowInv', PageInv,
           NEW rating \in Ratings, NEW time \in Times, CreateReview(rating, time)
    PROVE  PageInv'
<1>1. PICK review : review = [rating |-> rating, created |-> time, from |-> 0]
  OBVIOUS
<1>2. db'.reviews = Append(db.reviews, review) /\ reader' = reader
  BY <1>1, CommittedRows DEF CreateReview, Written, Rows
<1>3. \A min : Grows(db.reviews, db'.reviews, min)
  BY <1>2, CommittedRows DEF Grows
<1> QED BY <1>2, <1>3, PageStays

LEMMA UpdateReviewPages ==
    ASSUME RowInv, RowInv', PageInv, NEW id, NEW rating \in Ratings, UpdateReview(id, rating)
    PROVE  PageInv'
<1>1. PICK review : review = [db.reviews[id] EXCEPT !.rating = rating]
  OBVIOUS
<1>2. db.reviews[id] \in Review /\ id \in DOMAIN db.reviews
  BY CommittedRows, ReviewRead DEF UpdateReview
<1>3. review.created = db.reviews[id].created /\ review.rating = rating
  BY <1>1, <1>2 DEF Review
<1>4. db'.reviews = [db.reviews EXCEPT ![id] = review] /\ reader' = Noticed(id, rating)
  BY <1>1, CommittedRows DEF UpdateReview, Written, Rows
<1>5. ASSUME NEW r \in Readers
      PROVE  /\ reader'[r].pc = reader[r].pc
             /\ \/ reader'[r].owed = {}
                \/ /\ reader'[r] = reader[r]
                   /\ Grows(db.reviews, db'.reviews, reader[r].min)
  <2>1. reader[r] \in Reader
    BY DEF RowInv
  <2>2. CASE db.reviews[id].rating >= reader[r].min /\ rating < reader[r].min
    <3>1. reader'[r] = [reader[r] EXCEPT !.owed = {}]
      BY <1>4, <2>2 DEF Noticed
    <3> QED BY <2>1, <3>1 DEF Reader
  <2>3. CASE ~(db.reviews[id].rating >= reader[r].min /\ rating < reader[r].min)
    <3>1. reader'[r] = reader[r]
      BY <1>4, <2>3 DEF Noticed
    <3>2. db.reviews[id].rating >= reader[r].min => rating >= reader[r].min
      BY <2>1, <2>3, ReviewsAssumption DEF Reader, Ratings
    <3>3. Grows(db.reviews, db'.reviews, reader[r].min)
      BY <1>2, <1>3, <1>4, <3>2, CommittedRows DEF Grows
    <3> QED BY <3>1, <3>3
  <2> QED BY <2>2, <2>3
<1> QED BY <1>5, PageStays

\* Comments, and what a script does before it commits.
LEMMA ListStays ==
    ASSUME RowInv, RowInv', PageInv, db'.reviews = db.reviews, reader' = reader
    PROVE  PageInv'
<1>1. \A min : Grows(db.reviews, db'.reviews, min)
  BY CommittedRows DEF Grows
<1> QED BY <1>1, PageStays

LEMMA CommitPages ==
    ASSUME RowInv, RowInv', CountInv, PageInv, NEW i \in Importers, Commit(i)
    PROVE  PageInv'
<1>1. db' = draft /\ reader' = reader /\ Holds(db.reviews, draft.reviews)
  BY DEF Commit, CountInv, DraftInv, Writing
<1>2. \A min : Grows(db.reviews, db'.reviews, min)
  BY <1>1 DEF Grows, Holds
<1> QED BY <1>1, <1>2, PageStays

LEMMA StartReadingPages ==
    ASSUME RowInv, PageInv, NEW r \in Readers, NEW min \in Ratings, StartReading(r, min)
    PROVE  PageInv'
<1>1. Matching(min) \in SUBSET (Nat \ {0}) /\ Matching(min) = Rated(db.reviews, min)
  BY CommittedRows DEF Matching, Rated
<1>2. PICK next : next = [Idle EXCEPT !.pc = "reading", !.min = min, !.owed = Matching(min)]
  OBVIOUS
<1>3. /\ next.pc = "reading" /\ next.min = min /\ next.offset = 0
      /\ next.owed = Rated(db.reviews, min)
  <2>1. PICK owed : owed = Matching(min)
    OBVIOUS
  <2>2. next = [Idle EXCEPT !.pc = "reading", !.min = min, !.owed = owed] /\ Idle \in Reader
    BY <1>2, <2>1, IdleTyped
  <2>3. next.pc = "reading" /\ next.min = min /\ next.offset = Idle.offset /\ next.owed = owed
    BY <2>2 DEF Reader
  <2> QED BY <1>1, <2>1, <2>3, IdleTyped
<1>4. /\ db' = db /\ reader'[r] = next
      /\ \A other \in Readers : other # r => reader'[other] = reader[other]
  BY <1>2 DEF StartReading, RowInv
<1>5. \A id : Place(db.reviews, min, id) >= 0
  BY CommittedRows, PlaceIsNumber
<1> QED BY <1>3, <1>4, <1>5 DEF PageInv

LEMMA PageIsRows ==
    ASSUME NEW min, NEW offset
    PROVE  Page(min, offset) = PageRows(db.reviews, min, offset)
BY DEF Page, PageRows, Place, Ahead, Before, Rated, Matching, Newer

LEMMA ReadPagePages ==
    ASSUME RowInv, PageInv, NEW r \in Readers, ReadPage(r)
    PROVE  PageInv'
<1>1. PICK min : min = reader[r].min
  OBVIOUS
<1>2. PICK offset : offset = reader[r].offset
  OBVIOUS
<1>3. PICK page : page = PageRows(db.reviews, min, offset)
  OBVIOUS
<1>4. PICK owed : owed = reader[r].owed \ page
  OBVIOUS
<1>5. PICK next : next = IF Cardinality(page) < Limit
                         THEN [Idle EXCEPT !.pc = "done", !.owed = owed]
                         ELSE [reader[r] EXCEPT !.offset = offset + Limit, !.owed = owed]
  OBVIOUS
<1>6. /\ db' = db /\ reader[r].pc = "reading"
      /\ reader' = [reader EXCEPT ![r] = next]
  BY <1>1, <1>2, <1>3, <1>4, <1>5, PageIsRows DEF ReadPage
<1>7. /\ reader'[r] = next
      /\ \A other \in Readers : other # r => reader'[other] = reader[other]
  BY <1>6 DEF RowInv
<1>8. /\ reader[r] \in Reader /\ owed \in SUBSET (Nat \ {0})
      /\ offset \in Nat /\ Limit \in Nat /\ offset + Limit \in Nat
      /\ db.reviews \in Seq(Review)
  BY <1>2, <1>4, CommittedRows, ReviewsAssumption DEF RowInv, Reader
<1>9. \A id \in reader[r].owed :
         id \in Rated(db.reviews, min) /\ Place(db.reviews, min, id) >= offset
  BY <1>1, <1>2, <1>6 DEF PageInv
<1>10. CASE Cardinality(page) < Limit
  <2>1. next.pc = "done" /\ next.owed = owed
    BY <1>5, <1>8, <1>10, IdleTyped, Ended
  <2>2. owed = {}
    <3>1. ASSUME NEW id \in reader[r].owed PROVE id \in page
      BY <1>3, <1>8, <1>9, <1>10, ShortPageIsLast
    <3> QED BY <1>4, <3>1
  <2> QED BY <1>6, <1>7, <2>1, <2>2 DEF PageInv
<1>11. CASE ~(Cardinality(page) < Limit)
  <2>1. PICK further : further = offset + Limit
    OBVIOUS
  <2>2. next = [reader[r] EXCEPT !.offset = further, !.owed = owed] /\ further \in Nat
    BY <1>5, <1>8, <1>11, <2>1
  <2>3. /\ next.pc = "reading" /\ next.min = min
        /\ next.offset = offset + Limit /\ next.owed = owed
    <3>1. /\ next.pc = reader[r].pc /\ next.min = reader[r].min
          /\ next.offset = further /\ next.owed = owed
      BY <1>8, <2>2 DEF Reader
    <3> QED BY <1>1, <1>6, <2>1, <3>1
  <2>4. ASSUME NEW id \in owed
        PROVE  /\ id \in Rated(db.reviews, min)
               /\ Place(db.reviews, min, id) >= offset + Limit
    <3>1. /\ id \in Rated(db.reviews, min) /\ Place(db.reviews, min, id) >= offset
          /\ id \notin page
      BY <1>4, <1>9
    <3>2. Place(db.reviews, min, id) \in Nat
      BY <1>8, PlaceIsNumber
    <3> QED BY <1>3, <1>8, <3>1, <3>2 DEF PageRows
  <2> QED BY <1>6, <1>7, <2>3, <2>4 DEF PageInv
<1> QED BY <1>10, <1>11

LEMMA PageStep == RowInv /\ CountInv /\ PageInv /\ [Next]_vars => PageInv'
<1> SUFFICES ASSUME RowInv, CountInv, PageInv, [Next]_vars PROVE PageInv'
  OBVIOUS
<1>1. RowInv'
  BY RowStep
<1>2. CASE Request
  <2>1. ASSUME NEW id, CreateComment(id) \/ \E comment : UpdateComment(id, comment)
        PROVE  db'.reviews = db.reviews /\ reader' = reader
    BY <2>1, CommittedRows DEF CreateComment, UpdateComment, Written, Rows
  <2> QED BY <1>1, <1>2, <2>1, CreateReviewPages, UpdateReviewPages, ListStays DEF Request
<1>3. CASE \E r \in Readers : (\E min \in Ratings : StartReading(r, min)) \/ ReadPage(r)
  BY <1>3, StartReadingPages, ReadPagePages
<1>4. CASE Import
  <2>1. PICK i \in Importers :
           Count(i) \/ (\E time \in Times : Insert(i, time)) \/ Commit(i) \/ Abort(i)
    BY <1>4 DEF Import
  <2>2. CASE Commit(i)
    BY <1>1, <2>2, CommitPages
  <2>3. CASE ~Commit(i)
    <3>1. db' = db /\ reader' = reader
      BY <2>1, <2>3 DEF Count, Insert, Abort
    <3> QED BY <1>1, <3>1, ListStays
  <2> QED BY <2>2, <2>3
<1>5. CASE UNCHANGED vars
  BY <1>1, <1>5, ListStays DEF vars
<1> QED BY <1>2, <1>3, <1>4, <1>5 DEF Next

LEMMA ReviewInvHolds == Spec => []ReviewInv
<1>1. Init => ReviewInv
  BY RowInit, CountInit, PageInit DEF ReviewInv
<1>2. ReviewInv /\ [Next]_vars => ReviewInv'
  BY RowStep, CountStep, PageStep DEF ReviewInv
<1> QED BY <1>1, <1>2, PTL DEF Spec

\* A client that reads the pages one after the other is shown every review that
\* matched when it began, however many are created, edited and imported between
\* two of its requests: a new row only moves the others to later pages, and no
\* place of the list is empty, so that a page that is not full is the last.  The
\* exception is a rating that drops out of its filter: it is owed nothing then.
THEOREM PagesMissNothing == Spec => []PagingComplete
<1>1. ReviewInv => PagingComplete
  BY DEF ReviewInv, PageInv, PagingComplete
<1> QED BY <1>1, ReviewInvHolds, PTL

=============================================================================
