----------------------------- MODULE CursorPages -----------------------------
(***************************************************************************)
(* Keyset pagination over a collection that changes between the requests   *)
(* (web/pagination: the MongoDB strategy and its default builders, the     *)
(* signed cursor, the page mappers), and the links of offset pages.  A     *)
(* document is its sort key <<created_at, _id>>, 0 a field it does not     *)
(* have; MongoDB sorts a missing field lowest and no comparison matches it. *)
(* Signature and JSON are kept as what they do: a cursor comes back as it  *)
(* was made, or is refused.                                                *)
(***************************************************************************)
EXTENDS Integers, Sequences, FiniteSets, SequencesExt

CONSTANTS Times,        \* values of created_at, 0 for none
          Ids,
          PageSize,
          CursorLife,   \* expires_in_seconds, 0 for none
          MaxSeconds, MaxWrites   \* bounds

ASSUME PagesAssumption ==
  /\ Times \subseteq Nat /\ Ids \subseteq Nat \ {0} /\ PageSize \in Nat \ {0}
  /\ CursorLife \in Nat /\ MaxSeconds \in Nat /\ MaxWrites \in Nat

VARIABLES seconds,  \* the clock
          docs,     \* the collection
          writes,   \* so far
          page,     \* the page the client has got, or the error
          walk,     \* history: what it has seen going next only, from the first page
          steady,   \* history: documents that were there during all of the walk
          back,     \* history: items of the page before, while no write came between
          sheet     \* the offset page, and the indices seen on the way from the first

pagesVars == <<seconds, docs, writes, page, walk, steady, back, sheet>>

Keys == Times \X Ids
Fields == 1..2
NoCursor == [from |-> <<0, 0>>, direction |-> "next", until |-> 0]
NoPage == [items |-> << >>, next |-> NoCursor, prev |-> NoCursor, error |-> "none", made |-> 0, asOf |-> 0]

PagesTypeOK ==
  /\ seconds \in 0..MaxSeconds /\ writes \in 0..MaxWrites
  /\ docs \subseteq Keys /\ steady \subseteq docs
  /\ page.error \in {"none", "invalid", "expired", "key"} /\ page.made <= seconds
  /\ Len(page.items) <= PageSize /\ ToSet(page.items) \subseteq Keys
  /\ ToSet(walk) \subseteq Keys
  /\ sheet.offset \in Nat /\ sheet.offset <= sheet.total /\ sheet.seen \subseteq 0..sheet.total-1

PagesInit ==
  /\ seconds = 0 /\ writes = 0
  /\ docs \in {s \in SUBSET Keys : IsFiniteSet(s) /\ \A a, b \in s : a[2] = b[2] => a = b}
  /\ page = NoPage /\ walk = << >> /\ steady = {} /\ back = << >>
  /\ sheet = [offset |-> 0, total |-> Cardinality(docs),
              seen |-> 0..((IF PageSize < Cardinality(docs) THEN PageSize ELSE Cardinality(docs)) - 1)]
-------------------------------------------------------------------------------
(* $lt for the next page, $gt for the one before. *)
Beyond(direction, a, b) == IF direction = "next" THEN a < b ELSE a > b

MutClause(cursor, d, i) == Beyond(cursor.direction, d[i], cursor.from[i]) /\ d[i] # 0

(* One clause of $or: the fields before the i-th are equal. *)
Clause(cursor, d, i) ==
  /\ \A j \in 1..i-1 : d[j] = cursor.from[j]
  /\ Beyond(cursor.direction, d[i], cursor.from[i]) /\ d[i] # 0

Matches(cursor, d) == cursor = NoCursor \/ \E i \in Fields : Clause(cursor, d, i)

(* The sort: every field descending for the next page, ascending for the   *)
(* one before.                                                             *)
Sorts(direction, a, b) ==
  \E i \in Fields : Beyond(direction, b[i], a[i]) /\ \A j \in 1..i-1 : a[j] = b[j]

(* What was found, in that order: the i-th has i - 1 before it.             *)
InOrder(direction, found) ==
  [i \in 1..Cardinality(found) |->
     CHOOSE d \in found : Cardinality({e \in found : Sorts(direction, e, d)}) = i - 1]

(* An expiry is checked only when the cursor has one. *)
CursorExpired(until) == until # 0 /\ seconds > until

(* decode(): refused when it was not made here or is too old; a cursor of  *)
(* a document that lacks a sort field lacks its value.                     *)
DecodeError(cursor, genuine) ==
  IF cursor = NoCursor THEN "none"
  ELSE IF ~ genuine THEN "invalid"
  ELSE IF CursorExpired(cursor.until) THEN "expired"
  ELSE IF \E f \in Fields : cursor.from[f] = 0 THEN "key"
  ELSE "none"

Encode(doc, direction) ==
  [from |-> doc, direction |-> direction, until |-> IF CursorLife = 0 THEN 0 ELSE seconds + CursorLife]

HasExtra(raw) == Len(raw) > PageSize

(* limit(size + 1), the extra one cut off, a page before turned around.    *)
Processed(raw, direction) ==
  LET cut == SubSeq(raw, 1, IF HasExtra(raw) THEN PageSize ELSE Len(raw))
  IN IF direction = "next" THEN cut ELSE Reverse(cut)

(* No link before the first page, which is also a page without a cursor.   *)
PrevOf(cursor, items, extra) ==
  IF items # << >> /\ cursor # NoCursor /\ (cursor.direction = "next" \/ extra)
  THEN Encode(Head(items), "prev") ELSE NoCursor

MutNextOf(cursor, items, extra) ==
  IF items # << >> /\ extra THEN Encode(Last(items), "next") ELSE NoCursor

(* A page before always links on, to where one came from. *)
NextOf(cursor, items, extra) ==
  IF items # << >> /\ (cursor.direction = "prev" \/ extra)
  THEN Encode(Last(items), "next") ELSE NoCursor

(* paginate() *)
Paginate(cursor, genuine) ==
  LET error == DecodeError(cursor, genuine)
      found == InOrder(cursor.direction, {d \in docs : Matches(cursor, d)})
      raw == SubSeq(found, 1, IF Len(found) > PageSize THEN PageSize + 1 ELSE Len(found))
      items == Processed(raw, cursor.direction)
  IN IF error # "none" THEN [NoPage EXCEPT !.error = error, !.made = seconds, !.asOf = writes]
     ELSE [items |-> items, error |-> "none", made |-> seconds, asOf |-> writes,
           next |-> NextOf(cursor, items, HasExtra(raw)),
           prev |-> PrevOf(cursor, items, HasExtra(raw))]
-------------------------------------------------------------------------------
First ==
  /\ page' = Paginate(NoCursor, TRUE)
  /\ walk' = page'.items /\ steady' = docs /\ back' = << >>
  /\ UNCHANGED <<seconds, docs, writes, sheet>>

(* The client follows a link of the page it has; a link somebody changed   *)
(* on the way is refused.                                                  *)
Follow(direction, genuine) ==
  LET cursor == page[direction]
  IN /\ cursor # NoCursor
     /\ page' = Paginate(cursor, genuine)
     /\ walk' = IF direction = "next" /\ walk # << >> /\ page'.error = "none"
                THEN walk \o page'.items ELSE << >>
     /\ steady' = IF walk' = << >> THEN {} ELSE steady
     /\ back' = IF direction = "next" /\ page'.error = "none" /\ page.asOf = writes THEN page.items ELSE << >>
     /\ UNCHANGED <<seconds, docs, writes, sheet>>

InsertDoc(d) ==
  /\ writes < MaxWrites /\ writes' = writes + 1
  /\ \A e \in docs : e[2] # d[2]
  /\ docs' = docs \union {d} /\ back' = << >>
  /\ UNCHANGED <<seconds, page, walk, steady, sheet>>

RemoveDoc(d) ==
  /\ writes < MaxWrites /\ writes' = writes + 1
  /\ docs' = docs \ {d} /\ steady' = steady \ {d} /\ back' = << >>
  /\ UNCHANGED <<seconds, page, walk, sheet>>

SecondPasses ==
  /\ seconds < MaxSeconds /\ seconds' = seconds + 1
  /\ UNCHANGED <<docs, writes, page, walk, steady, back, sheet>>

(* The links of an offset page, none or one. *)
OffsetNext(offset, total) == IF offset + PageSize < total THEN {offset + PageSize} ELSE {}
OffsetPrev(offset) ==
  IF offset > 0 THEN {IF offset > PageSize THEN offset - PageSize ELSE 0} ELSE {}

TurnSheet(offset) ==
  /\ offset \in OffsetNext(sheet.offset, sheet.total) \union OffsetPrev(sheet.offset)
  /\ sheet' = [sheet EXCEPT !.offset = offset,
       !.seen = @ \union {i \in offset..(offset + PageSize - 1) : i < sheet.total}]
  /\ UNCHANGED <<seconds, docs, writes, page, walk, steady, back>>

PagesNext ==
  \/ First \/ SecondPasses
  \/ \E direction \in {"next", "prev"}, genuine \in BOOLEAN : Follow(direction, genuine)
  \/ \E d \in Keys : InsertDoc(d)
  \/ \E d \in docs : RemoveDoc(d)
  \/ \E offset \in 0..sheet.total : TurnSheet(offset)

PagesSpec == PagesInit /\ [][PagesNext]_pagesVars
-------------------------------------------------------------------------------
Dated(d) == \A f \in Fields : d[f] # 0

(* The walk from the first page on meets every document at most once, in   *)
(* descending order, whatever is inserted and removed meanwhile, and when  *)
(* it ends without an error it has met every document that has the sort    *)
(* fields and was there all the time (mongodb/__init__.py:72-192).         *)
WalkComplete ==
  walk # << >> =>
    /\ \A i, j \in DOMAIN walk : i < j => Sorts("next", walk[i], walk[j])
    /\ page.error = "none" /\ page.next = NoCursor =>
         \A d \in steady : Dated(d) => d \in ToSet(walk)

(* Going back from a page finds the page one came from, if nothing was     *)
(* written in between (mongodb/__init__.py:135, 172-192).                  *)
BackFindsThePage ==
  [][back # << >> /\ page.prev # NoCursor /\ page' = Paginate(page.prev, TRUE) /\ page'.error = "none"
       => page'.items = back]_pagesVars

(* A page leaves out nothing that lies between its first and its last item, *)
(* and one without a link on, or back, is where the collection ends        *)
(* (mongodb/__init__.py:120-192).                                          *)
PagesAreTruthful ==
  [][page' # page /\ page'.items # << >> =>
       LET last == Last(page'.items)
           first == Head(page'.items)
           inside(d) == ~ Sorts("next", d, first) /\ ~ Sorts("next", last, d)
       IN /\ \A d \in docs : inside(d) => d \in ToSet(page'.items)
          /\ page'.next = NoCursor => \A d \in docs : Dated(d) => ~ Sorts("next", last, d)
          /\ page.prev # NoCursor /\ page' = Paginate(page.prev, TRUE) /\ page'.prev = NoCursor =>
               \A d \in docs : Dated(d) => ~ Sorts("next", d, first)]_pagesVars

(* A link lives for the whole of CursorLife: until then only a changed one *)
(* is refused, or one of a document without its sort fields                *)
(* (hmac.py:98-120).                                                       *)
LinksLive ==
  [][page'.error = "expired" /\ page # page' => CursorLife > 0 /\ seconds > page.made + CursorLife]_pagesVars

(* The offset links reach every index: who has gone on as far as they go   *)
(* has seen all of them, and a link never leads to an empty page           *)
(* (offset/mapper.py:9-27).                                                *)
OffsetLinksTile ==
  /\ OffsetNext(sheet.offset, sheet.total) = {} => sheet.total - 1 \in sheet.seen \union {-1}
  /\ sheet.offset > 0 => sheet.offset < sheet.total
  /\ \A i \in sheet.seen : i = 0 \/ i - 1 \in sheet.seen

(* Whoever follows the links to the end, by cursor or by offset, has met   *)
(* all there was to meet (mongodb/__init__.py:72-192, mapper.py:9-27).     *)
WalksReachAll == WalkComplete /\ OffsetLinksTile

(* What a page says with its items and links holds when it is followed:    *)
(* no holes, no early end, back to where one came from, and no link that   *)
(* has expired before its time (mongodb/__init__.py:120-192).              *)
LinksKeepTheirWord == PagesAreTruthful /\ BackFindsThePage /\ LinksLive
===============================================================================
