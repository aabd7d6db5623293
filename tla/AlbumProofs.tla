----------------------------- MODULE AlbumProofs -----------------------------
(****************************************************************************)
(* The unique orders and years of albums and the migration of what they     *)
(* show, for any number of rows and overlapping requests.  The sections are *)
(* independent of each other.                                               *)
(****************************************************************************)
EXTENDS PageOrder, AlbumYears, Migration, FiniteSetTheorems, TLAPS

(****************************************************************************)
(* The orders of an album's pages are unique, a list that passed its checks *)
(* has room for its pages unless a page a client or another list put there  *)
(* is in the way, and a transaction sees each page where its updates so far *)
(* have put it: that is PagesInv.  A list of the rows with as many elements *)
(* as there are rows is a permutation, by counting, and as many rows at     *)
(* orders of their own reach at least that far.                             *)
(****************************************************************************)

\* What a request holds at any of its steps.
Requests ==
    [op : {"idle", "create", "conflict", "delete", "begin", "move", "collided", "late"},
     place : Chosen \cup {0}, page : Seq(Page), list : Seq(Page),
     draft : [Page -> Int], at : Nat, tries : Nat]

\* A list that names no page twice.
Distinct(list) == \A i, j \in 1..Len(list) : list[i] = list[j] => i = j

\* A page the list does not know stands behind all the places the list will
\* give out, unless a client or another list has put it where it is.
Fits(list) ==
    ToSet(list) \subseteq Rows =>
        \A q \in Rows \ ToSet(list) : q \in chosen \cup listed \/ order[q] > Len(list)

\* Where the page at position i of a list is in the transaction's own view.
Where(length, at, i, before) ==
    IF at <= length THEN IF i <= at THEN -i ELSE before
                    ELSE IF i <= at - length THEN i ELSE -i

\* Between two updates of its transaction a reorder sees every page of its list
\* at the place the updates so far have given it, and all others as they were.
Drafted(e) ==
    /\ e.at <= 2 * Len(e.list)
    /\ \A i \in 1..Len(e.list) : 
          e.draft[e.list[i]] = Where(Len(e.list), e.at, i, order[e.list[i]])
    /\ \A i \in 1..Len(e.list) : i <= e.at => e.list[i] \in Rows
    /\ \A p \in Page \ ToSet(e.list) : e.draft[p] = order[p]
    /\ \A p, q \in Page : e.draft[p] # 0 /\ e.draft[q] = e.draft[p] => p = q

\* What holds of a request at any of its steps: only a chosen order is refused,
\* and a list that passed its checks has room for its pages.
RequestOK(e) ==
    /\ e \in Requests
    /\ Distinct(e.list) /\ ToSet(e.list) \subseteq born /\ Fits(e.list)
    /\ e.op = "conflict" => e.place # 0
    /\ e.op = "move" => Drafted(e)

\* The rows are finitely many and at orders of their own.
OrdersOK ==
    /\ born \in SUBSET Page /\ IsFiniteSet(born)
    /\ order \in [Page -> Nat] /\ Rows \subseteq born
    /\ \A p, q \in Rows : order[p] = order[q] => p = q

\* The list committed last, position by position.
LatestOK ==
    /\ latest \in Seq(Page) /\ ToSet(latest) \subseteq born
    /\ \A i \in 1..Len(latest) : order[latest[i]] \in {0, i}
    /\ \A p \in Rows \ ToSet(latest), q \in Rows \cap ToSet(latest) :
          p \in chosen \/ order[q] < order[p]

\* The inductive invariant: the rows, the list committed last and every request
\* in the state it can be in, and at most one transaction under way.
PagesInv ==
    /\ OrdersOK /\ LatestOK
    /\ edit \in [Writer -> Requests]
    /\ \A w \in Writer : RequestOK(edit[w])
    /\ \A v, w \in Writer : edit[v].op = "move" /\ edit[w].op = "move" => v = w

\* The pages of a list, by position.
LEMMA ToSetIsImage ==
  ASSUME NEW S, NEW list \in Seq(S)
  PROVE  /\ ToSet(list) \subseteq S
         /\ \A x : x \in ToSet(list) <=> \E i \in 1..Len(list) : list[i] = x
  BY DEF ToSet

\* A list that reorderPages accepts names every row exactly once.
LEMMA AcceptedIsRows ==
  ASSUME OrdersOK, NEW list \in SeqOf(born, Cardinality(born)), Accepted(list)
  PROVE  list \in Seq(Page) /\ Distinct(list) /\ ToSet(list) = Rows
  <1>1. Cardinality(born) \in Nat
    BY FS_CardinalityType DEF OrdersOK
  <1>2. PICK m \in Nat : list \in [1..m -> born]
    BY <1>1 DEF SeqOf
  <1>3. list \in Seq(Page) /\ Len(list) = m
    BY <1>2 DEF OrdersOK
  <1>4. list \in Surjection(1..m, ToSet(list))
    BY <1>2 DEF Surjection, ToSet
  <1>5. IsFiniteSet(1..m) /\ Cardinality(1..m) = m
    BY FS_Interval
  <1>6. list \in Injection(1..m, ToSet(list))
    BY <1>3, <1>4, <1>5, FS_Surjection DEF Accepted
  <1>7. Distinct(list)
    BY <1>3, <1>6 DEF Injection, Distinct, IsInjective
  <1>8. IsFiniteSet(Rows)
    BY FS_Subset DEF OrdersOK
  <1>9. Cardinality(ToSet(list)) = Cardinality(Rows) /\ ToSet(list) \in SUBSET Rows
    BY DEF Accepted
  <1>10. ToSet(list) = Rows
    BY <1>8, <1>9, FS_Subset
  <1> QED
    BY <1>3, <1>7, <1>10

\* As many rows at orders of their own reach at least that far.
LEMMA RowsReach ==
  ASSUME OrdersOK, NEW list \in Seq(Page), Distinct(list), ToSet(list) \subseteq Rows,
         NEW high \in Nat, \A p \in Rows : order[p] <= high
  PROVE  Len(list) <= high
  <1> DEFINE f == [i \in 1..Len(list) |-> order[list[i]]]
  <1>1. \A i \in 1..Len(list) : list[i] \in Rows
    BY ToSetIsImage
  <1>2. f \in [1..Len(list) -> 1..high]
    BY <1>1 DEF OrdersOK, Rows
  <1>3. \A i, j \in 1..Len(list) : f[i] = f[j] => i = j
    BY <1>1 DEF OrdersOK, Distinct
  <1>4. f \in Injection(1..Len(list), 1..high)
    BY <1>2, <1>3 DEF Injection, IsInjective
  <1>5. \A n \in Nat : IsFiniteSet(1..n) /\ Cardinality(1..n) = n
    BY FS_Interval
  <1>6. Len(list) \in Nat
    OBVIOUS
  <1> HIDE DEF f
  <1>7. Cardinality(1..Len(list)) <= Cardinality(1..high)
    BY <1>4, <1>5, FS_Injection
  <1> QED
    BY <1>5, <1>6, <1>7

\* A request that does not exist counts as one.
LEMMA NoEditIsOK == OrdersOK => RequestOK(NoEdit)
  <1> SUFFICES ASSUME OrdersOK PROVE RequestOK(NoEdit)
    OBVIOUS
  <1>1. NoEdit \in Requests /\ NoEdit.list = <<>> /\ NoEdit.op = "idle"
    BY DEF NoEdit, Requests
  <1>2. ToSet(<<>>) = {} /\ Distinct(<<>>) /\ Len(<<>>) = 0
    BY DEF ToSet, Distinct
  <1>3. Fits(<<>>)
    BY <1>2 DEF Fits, OrdersOK, Rows
  <1> QED
    BY <1>1, <1>2, <1>3 DEF RequestOK

\* There is no page and no request at first.
LEMMA PagesStart == PagesInit => PagesInv
  <1> SUFFICES ASSUME PagesInit PROVE PagesInv
    OBVIOUS
  <1>1. OrdersOK
    BY FS_EmptySet DEF PagesInit, OrdersOK, Rows
  <1>2. LatestOK
    BY DEF PagesInit, LatestOK, Rows, ToSet
  <1>3. /\ NoEdit \in Requests /\ NoEdit.op = "idle"
        /\ edit \in [Writer -> {NoEdit}]
    BY DEF NoEdit, Requests, PagesInit
  <1> QED
    BY <1>1, <1>2, <1>3, NoEditIsOK DEF PagesInv

\* A step of one request that leaves the rows alone.
LEMMA RequestSteps ==
  ASSUME PagesInv, NEW w \in Writer, NEW e, edit' = [edit EXCEPT ![w] = e], RequestOK(e),
         e.op = "move" => \A v \in Writer \ {w} : edit[v].op # "move",
         UNCHANGED <<album, born, order, chosen, listed, latest>>
  PROVE  PagesInv'
  <1>1. edit' \in [Writer -> Requests]
    BY DEF PagesInv, RequestOK
  <1>2. OrdersOK' /\ LatestOK'
    BY DEF PagesInv, OrdersOK, LatestOK, Rows
  <1>3. Rows' = Rows
    BY DEF Rows
  <1>4. ASSUME NEW f, RequestOK(f)
        PROVE  /\ f \in Requests /\ Distinct(f.list) /\ ToSet(f.list) \subseteq born'
               /\ (ToSet(f.list) \subseteq Rows' =>
                     \A q \in Rows' \ ToSet(f.list) :
                         q \in chosen' \cup listed' \/ order'[q] > Len(f.list))
               /\ (f.op = "conflict" => f.place # 0)
    BY <1>3, <1>4 DEF RequestOK, Fits
  <1>5. ASSUME NEW v \in Writer, edit'[v].op = "move"
        PROVE  Drafted(edit'[v]) /\ Drafted(edit[v])'
    BY <1>3, <1>5 DEF PagesInv, RequestOK, Drafted, Where
  <1>6. \A v \in Writer : RequestOK(edit'[v])
    BY DEF PagesInv
  <1>7. \A v \in Writer : RequestOK(edit[v])'
    BY <1>4, <1>5, <1>6 DEF RequestOK, Fits
  <1> QED
    BY <1>1, <1>2, <1>7 DEF PagesInv

\* A step that changes rows while nobody reorders: what the requests carry
\* has to fit the new rows.
LEMMA RowSteps ==
  ASSUME PagesInv, OrdersOK', LatestOK', edit' \in [Writer -> Requests],
         born \subseteq born',
         \A v \in Writer : edit'[v] = edit[v] \/ (edit'[v] \in Requests /\ edit'[v].list \in {edit[v].list, <<>>}
                                                  /\ (edit'[v].op = "conflict" => edit'[v].place # 0)),
         \A v \in Writer : edit'[v].op # "move",
         \A v \in Writer : ToSet(edit[v].list) \subseteq Rows' =>
             \A q \in Rows' \ ToSet(edit[v].list) :
                 q \in chosen' \cup listed' \/ order'[q] > Len(edit[v].list)
  PROVE  PagesInv'
  <1>1. \A q \in Rows' : order'[q] > 0
    BY DEF OrdersOK, Rows
  <1>2. ToSet(<<>>) = {} /\ Distinct(<<>>) /\ Len(<<>>) = 0
    BY DEF ToSet, Distinct
  <1>3. \A v \in Writer : RequestOK(edit[v])'
    <2> TAKE v \in Writer
    <2>1. /\ edit'[v] \in Requests /\ (edit'[v].op = "conflict" => edit'[v].place # 0)
          /\ edit'[v].list \in {edit[v].list, <<>>}
      BY DEF PagesInv, RequestOK
    <2>2. Distinct(edit'[v].list) /\ ToSet(edit'[v].list) \subseteq born'
      BY <1>2, <2>1 DEF PagesInv, RequestOK
    <2>3. ToSet(edit'[v].list) \subseteq Rows' =>
             \A q \in Rows' \ ToSet(edit'[v].list) :
                 q \in chosen' \cup listed' \/ order'[q] > Len(edit'[v].list)
      BY <1>1, <1>2, <2>1
    <2> QED
      BY <2>1, <2>2, <2>3 DEF RequestOK, Fits
  <1> QED
    BY <1>3 DEF PagesInv

\* A request that is answered or has not got far carries no transaction.
LEMMA QuietRequestSteps ==
  ASSUME PagesInv, NEW w \in Writer,
         \/ CreatePageCheck(w) \/ DeletePageRead(w) \/ ReorderRead(w)
         \/ ReorderTimeout(w) \/ ReorderRetry(w) \/ Close(w)
  PROVE  PagesInv'
  <1> DEFINE e == edit[w]
  <1>t. e \in Requests /\ RequestOK(e) /\ OrdersOK /\ edit \in [Writer -> Requests]
    BY DEF PagesInv
  <1>n. /\ NoEdit \in Requests /\ RequestOK(NoEdit) /\ NoEdit.op = "idle" /\ NoEdit.list = <<>>
        /\ NoEdit.draft \in [Page -> Int]
    BY <1>t, NoEditIsOK DEF NoEdit, Requests
  <1>1. UNCHANGED <<album, born, order, chosen, listed, latest>>
    BY DEF CreatePageCheck, DeletePageRead, ReorderRead, ReorderTimeout, ReorderRetry, Close
  <1>2. CASE Over(w)
    BY <1>1, <1>2, <1>n, RequestSteps DEF Over
  <1>3. CASE CreatePageCheck(w) \/ DeletePageRead(w)
    <2>1. PICK new \in Requests :
             /\ edit' = [edit EXCEPT ![w] = new]
             /\ new.op \in {"create", "delete"} /\ new.list = NoEdit.list
      <3>1. CASE CreatePageCheck(w)
        <4>1. PICK place \in Chosen \cup {0} :
                 edit' = [edit EXCEPT ![w] = [NoEdit EXCEPT !.op = "create", !.place = place]]
          BY <3>1 DEF CreatePageCheck
        <4> DEFINE new == [NoEdit EXCEPT !.op = "create", !.place = place]
        <4>2. new \in Requests /\ new.op = "create" /\ new.list = NoEdit.list
          BY <1>n, <4>1 DEF Requests
        <4> HIDE DEF new
        <4>3. edit' = [edit EXCEPT ![w] = new]
          BY <4>1 DEF new
        <4> QED
          BY <4>2, <4>3
      <3>2. CASE DeletePageRead(w)
        <4>1. PICK p \in Page :
                 edit' = [edit EXCEPT ![w] = [NoEdit EXCEPT !.op = "delete", !.page = <<p>>]]
          BY <3>2 DEF DeletePageRead, Rows
        <4> DEFINE new == [NoEdit EXCEPT !.op = "delete", !.page = <<p>>]
        <4>2. <<p>> \in Seq(Page)
          BY <4>1
        <4>3. new \in Requests /\ new.op = "delete" /\ new.list = NoEdit.list
          BY <1>n, <4>2 DEF Requests
        <4> HIDE DEF new
        <4>4. edit' = [edit EXCEPT ![w] = new]
          BY <4>1 DEF new
        <4> QED
          BY <4>3, <4>4
      <3> QED
        BY <1>3, <3>1, <3>2
    <2>2. RequestOK(new)
      BY <1>n, <2>1 DEF RequestOK
    <2> QED
      BY <1>1, <2>1, <2>2, RequestSteps
  <1>4. CASE ReorderRead(w)
    <2>1. PICK list \in SeqOf(born, Cardinality(born)) :
             Accepted(list) /\ edit' = [edit EXCEPT ![w] = [NoEdit EXCEPT !.op = "begin", !.list = list]]
      BY <1>4 DEF ReorderRead
    <2>2. list \in Seq(Page) /\ Distinct(list) /\ ToSet(list) = Rows
      BY <1>t, <2>1, AcceptedIsRows
    <2> DEFINE new == [NoEdit EXCEPT !.op = "begin", !.list = list]
    <2>3. new \in Requests /\ new.op = "begin" /\ new.list = list
      BY <1>n, <2>2 DEF Requests
    <2>4. RequestOK(new)
      BY <1>t, <2>2, <2>3 DEF RequestOK, Fits, OrdersOK
    <2> QED
      BY <1>1, <2>1, <2>3, <2>4, RequestSteps
  <1>5. CASE Late(w) /\ ReorderTimeout(w)
    <2> DEFINE new == [e EXCEPT !.op = "late", !.draft = NoEdit.draft, !.at = 0]
    <2>1. edit' = [edit EXCEPT ![w] = new]
      BY <1>5 DEF Late
    <2>2. new \in Requests /\ new.op = "late" /\ new.list = e.list
      BY <1>t, <1>n DEF Requests
    <2>3. RequestOK(new)
      BY <1>t, <2>2 DEF RequestOK
    <2> QED
      BY <1>1, <2>1, <2>2, <2>3, RequestSteps
  <1>6. CASE ReorderRetry(w) /\ ~Over(w)
    <2> DEFINE new == [e EXCEPT !.op = "begin", !.tries = @ + 1]
    <2>1. edit' = [edit EXCEPT ![w] = new]
      BY <1>6 DEF ReorderRetry
    <2>2. e.tries + 1 \in Nat
      BY <1>t DEF Requests
    <2>3. new \in Requests /\ new.op = "begin" /\ new.list = e.list
      BY <1>t, <2>2 DEF Requests
    <2>4. RequestOK(new)
      BY <1>t, <2>3 DEF RequestOK
    <2> QED
      BY <1>1, <2>1, <2>3, <2>4, RequestSteps
  <1> QED
    BY <1>2, <1>3, <1>4, <1>5, <1>6 DEF ReorderTimeout, ReorderRetry, Close

\* A transaction begins with the orders that are there.
LEMMA ReorderBeginSteps ==
  ASSUME PagesInv, NEW w \in Writer, ReorderBegin(w)
  PROVE  PagesInv'
  <1> DEFINE e == edit[w]
             new == [e EXCEPT !.op = "move", !.draft = order, !.at = 0]
  <1>1. /\ e.op = "begin" /\ edit' = [edit EXCEPT ![w] = new]
        /\ UNCHANGED <<album, born, order, chosen, listed, latest>>
        /\ \A v \in Writer : edit[v].op # "move"
    BY DEF ReorderBegin, Busy
  <1>2. e \in Requests /\ RequestOK(e) /\ order \in [Page -> Int]
    BY DEF PagesInv, OrdersOK
  <1>3. /\ new \in Requests /\ new.list = e.list /\ new.op = "move" /\ new.draft = order
        /\ new.at = 0
    BY <1>2 DEF Requests
  <1>4. e.list \in Seq(Page)
    BY <1>2 DEF Requests
  <1> HIDE DEF new
  <1>5. \A i \in 1..Len(e.list) : \A o : Where(Len(e.list), 0, i, o) = o
    BY <1>4 DEF Where
  <1>6. Drafted(new)
    BY <1>2, <1>3, <1>4, <1>5 DEF Drafted, PagesInv, OrdersOK, Rows
  <1>7. RequestOK(new)
    BY <1>2, <1>3, <1>6 DEF RequestOK
  <1> QED
    BY <1>1, <1>3, <1>7, RequestSteps

\* An update changes the place of one page only.
LEMMA OneMoves ==
  ASSUME NEW length \in Nat, NEW at \in Nat, NEW k \in 1..length, at + 1 \in {k, length + k},
         NEW j \in 1..length, NEW before \in Int
  PROVE  /\ j # k => Where(length, at + 1, j, before) = Where(length, at, j, before)
         /\ Where(length, at + 1, k, before) = IF at < length THEN -k ELSE k
         /\ at < length => Where(length, at, k, before) = before
  BY DEF Where

\* The next update is that of a page of the list, down to a negative order in the
\* first phase and up to its position in the second.
LEMMA NextMove ==
  ASSUME NEW list \in Seq(Page), NEW at \in Nat, at + 1 <= 2 * Len(list)
  PROVE  \E k \in 1..Len(list) :
            /\ at + 1 \in {k, Len(list) + k} /\ Mover(list, at + 1) = list[k]
            /\ Target(list, at + 1) = IF at < Len(list) THEN -k ELSE k
  <1>1. CASE at + 1 <= Len(list)
    <2>1. at + 1 \in 1..Len(list) /\ at < Len(list)
      BY <1>1
    <2> QED
      BY <1>1, <2>1 DEF Mover, Target
  <1>2. CASE ~(at + 1 <= Len(list))
    <2>1. at + 1 - Len(list) \in 1..Len(list) /\ ~(at < Len(list))
      BY <1>2
    <2>2. at + 1 = Len(list) + (at + 1 - Len(list))
      OBVIOUS
    <2> QED
      BY <1>2, <2>1, <2>2 DEF Mover, Target
  <1> QED
    BY <1>1, <1>2

\* An update of the transaction, or the collision that ends it.
LEMMA ReorderMoveSteps ==
  ASSUME PagesInv, NEW w \in Writer, ReorderMove(w)
  PROVE  PagesInv'
  <1> DEFINE e == edit[w]
             i == e.at + 1
             p == Mover(e.list, i)
             n == Target(e.list, i)
             new == [e EXCEPT !.draft = [e.draft EXCEPT ![p] = n], !.at = i]
  <1>1. /\ e.op = "move" /\ i <= 2 * Len(e.list)
        /\ UNCHANGED <<album, born, order, chosen, listed, latest>>
    BY DEF ReorderMove
  <1>2. /\ e \in Requests /\ RequestOK(e) /\ Drafted(e) /\ OrdersOK /\ Distinct(e.list)
        /\ e.list \in Seq(Page) /\ e.draft \in [Page -> Int] /\ e.at \in Nat
        /\ \A v \in Writer \ {w} : edit[v].op # "move"
    BY <1>1 DEF PagesInv, RequestOK, Requests
  <1>3. CASE Over(w) \/ Answered(w, "collided")
    <2>1. PICK answer : /\ edit' = [edit EXCEPT ![w] = answer]
                        /\ answer \in {NoEdit, [NoEdit EXCEPT !.op = "collided", !.place = e.place]}
      BY <1>3 DEF Over, Answered
    <2>2. /\ RequestOK(NoEdit) /\ NoEdit \in Requests /\ NoEdit.op = "idle"
          /\ e.place \in Chosen \cup {0}
      BY <1>2, NoEditIsOK DEF NoEdit, Requests
    <2>3. answer \in Requests /\ answer.list = NoEdit.list /\ answer.op \in {"idle", "collided"}
      BY <2>1, <2>2 DEF Requests
    <2>4. RequestOK(answer)
      BY <2>2, <2>3 DEF RequestOK
    <2> QED
      BY <1>1, <2>1, <2>3, <2>4, RequestSteps
  <1>4. CASE /\ e.draft[p] # 0 /\ \A q \in Page \ {p} : e.draft[q] # n
             /\ edit' = [edit EXCEPT ![w] = new]
    <2> DEFINE len == Len(e.list)
               at == e.at
    <2>1. /\ len \in Nat /\ at \in Nat
          /\ \A j \in 1..len : e.list[j] \in Page /\ e.list[j] \in ToSet(e.list)
      BY <1>2, ToSetIsImage
    <2>2. PICK k \in 1..len : /\ at + 1 \in {k, len + k} /\ p = e.list[k]
                              /\ n = IF at < len THEN -k ELSE k
      BY <1>1, <1>2, NextMove
    <2> HIDE DEF p, n
    <2>3. p \in Page /\ n \in Int /\ p \in ToSet(e.list) /\ i \in Nat
      BY <1>2, <2>1, <2>2
    <2>4. /\ new \in Requests /\ new.list = e.list /\ new.op = "move" /\ new.at = at + 1
          /\ new.draft = [e.draft EXCEPT ![p] = n] /\ Len(new.list) = len
      BY <1>1, <1>2, <2>3 DEF Requests
    <2> HIDE DEF new, len, at
    <2>5. \A q, r \in Page : new.draft[q] # 0 /\ new.draft[r] = new.draft[q] => q = r
      BY <1>2, <1>4, <2>3, <2>4 DEF Drafted
    <2>6. \A q \in Page \ ToSet(e.list) : new.draft[q] = order[q]
      BY <1>2, <2>3, <2>4 DEF Drafted
    <2>7. \A q \in Page : order[q] \in Int /\ (order[q] # 0 => q \in Rows)
      BY <1>2 DEF OrdersOK, Rows
    <2>8. ASSUME NEW j \in 1..len
          PROVE  /\ new.draft[e.list[j]] = Where(len, at + 1, j, order[e.list[j]])
                 /\ j <= at + 1 => e.list[j] \in Rows
      <3> DEFINE o == order[e.list[j]]
      <3>1. e.draft[e.list[j]] = Where(len, at, j, o) /\ (j <= at => e.list[j] \in Rows)
        BY <1>2, <2>8 DEF Drafted, len, at
      <3>2. e.list[j] \in Page /\ o \in Int /\ (o # 0 => e.list[j] \in Rows)
        BY <2>1, <2>7, <2>8
      <3> HIDE DEF o
      <3>3. /\ j # k => Where(len, at + 1, j, o) = Where(len, at, j, o)
            /\ Where(len, at + 1, k, o) = IF at < len THEN -k ELSE k
            /\ at < len => Where(len, at, k, o) = o
        BY <2>1, <2>2, <2>8, <3>2, OneMoves
      <3>4. CASE j = k
        <4>1. new.draft[e.list[j]] = n
          BY <1>2, <2>2, <2>3, <2>4, <3>4
        <4>2. e.list[j] \in Rows
          <5>1. CASE at < len
            BY <1>4, <2>2, <3>1, <3>2, <3>3, <3>4, <5>1
          <5>2. CASE ~(at < len)
            BY <2>1, <2>8, <3>1, <5>2
          <5> QED
            BY <5>1, <5>2
        <4> QED
          BY <2>2, <3>3, <3>4, <4>1, <4>2 DEF o
      <3>5. CASE j # k
        <4>1. e.list[j] # p
          BY <1>2, <2>2, <2>8, <3>5 DEF Distinct, len
        <4>2. new.draft[e.list[j]] = e.draft[e.list[j]]
          BY <1>2, <2>3, <2>4, <3>2, <4>1
        <4>3. j <= at + 1 => j <= at
          BY <2>1, <2>2, <2>8, <3>5
        <4> QED
          BY <3>1, <3>3, <3>5, <4>2, <4>3 DEF o
      <3> QED
        BY <3>4, <3>5
    <2>9. new.at <= 2 * len
      BY <1>1, <2>4 DEF len, at
    <2>10. Drafted(new)
      BY <2>4, <2>5, <2>6, <2>8, <2>9 DEF Drafted, len
    <2>11. RequestOK(new)
      BY <1>2, <2>4, <2>10 DEF RequestOK
    <2> QED
      BY <1>1, <1>2, <1>4, <2>11, RequestSteps
  <1> QED
    BY <1>3, <1>4 DEF ReorderMove

\* No other request writes while a transaction is under way.
LEMMA NobodyMoves ==
  ASSUME PagesInv, ~Busy
  PROVE  \A v \in Writer : edit[v].op # "move"
  BY DEF Busy

\* Rows are taken away, whoever asked for it.
LEMMA RowsGoSteps ==
  ASSUME PagesInv, ~Busy, UNCHANGED <<born, chosen, listed, latest>>,
         order' \in [Page -> Nat], \A p \in Page : order'[p] \in {0, order[p]},
         edit' \in [Writer -> Requests],
         \A v \in Writer : edit'[v] = edit[v] \/ edit'[v] = NoEdit
  PROVE  PagesInv'
  <1>1. Rows' \subseteq Rows /\ \A p \in Rows' : order'[p] = order[p]
    BY DEF Rows
  <1>2. OrdersOK' /\ LatestOK'
    <2>1. OrdersOK'
      BY <1>1 DEF PagesInv, OrdersOK
    <2>2. \A i \in 1..Len(latest) : latest[i] \in Page
      BY DEF PagesInv, LatestOK
    <2>3. \A i \in 1..Len(latest) : order'[latest[i]] \in {0, i}
      BY <2>2 DEF PagesInv, LatestOK
    <2>4. \A p \in Rows' \ ToSet(latest), q \in Rows' \cap ToSet(latest) :
             p \in chosen \/ order'[q] < order'[p]
      BY <1>1 DEF PagesInv, LatestOK
    <2> QED
      BY <2>1, <2>3, <2>4 DEF PagesInv, LatestOK
  <1>3. NoEdit.op = "idle" /\ NoEdit.list = <<>> /\ NoEdit \in Requests
    BY DEF NoEdit, Requests
  <1>4. \A v \in Writer : edit'[v].op # "move"
    BY <1>3, NobodyMoves
  <1>5. \A v \in Writer : ToSet(edit[v].list) \subseteq Rows' =>
             \A q \in Rows' \ ToSet(edit[v].list) :
                 q \in chosen' \cup listed' \/ order'[q] > Len(edit[v].list)
    BY <1>1 DEF PagesInv, RequestOK, Fits
  <1>6. \A v \in Writer : edit'[v] = edit[v] \/ (edit'[v] \in Requests /\ edit'[v].list \in {edit[v].list, <<>>}
                                                  /\ (edit'[v].op = "conflict" => edit'[v].place # 0))
    BY <1>3
  <1> QED
    BY <1>2, <1>4, <1>5, <1>6, RowSteps

\* A page, or the whole album, is deleted.
LEMMA DeleteSteps ==
  ASSUME PagesInv, DeleteAlbumTx \/ \E w \in Writer : DeletePageTx(w)
  PROVE  PagesInv'
  <1>1. NoEdit \in Requests
    BY DEF NoEdit, Requests
  <1>2. order \in [Page -> Nat] /\ edit \in [Writer -> Requests]
    BY DEF PagesInv, OrdersOK
  <1>3. CASE DeleteAlbumTx
    BY <1>2, <1>3, RowsGoSteps DEF DeleteAlbumTx
  <1>4. ASSUME NEW w \in Writer, DeletePageTx(w)
        PROVE  PagesInv'
    <2>1. PICK p : /\ ~Busy /\ order' = [order EXCEPT ![p] = 0]
                   /\ edit' = [edit EXCEPT ![w] = NoEdit]
                   /\ UNCHANGED <<album, born, chosen, latest, listed>>
      BY <1>4 DEF DeletePageTx, Over
    <2> QED
      BY <1>1, <1>2, <2>1, RowsGoSteps
  <1> QED
    BY <1>3, <1>4

\* A restart drops the requests and keeps the rows.
LEMMA PagesRestartSteps ==
  ASSUME PagesInv, PagesRestart
  PROVE  PagesInv'
  <1>1. /\ NoEdit \in Requests /\ RequestOK(NoEdit) /\ NoEdit.op = "idle" /\ OrdersOK /\ LatestOK
    BY NoEditIsOK DEF PagesInv, NoEdit, Requests
  <1>2. /\ UNCHANGED <<album, born, order, chosen, listed, latest>>
        /\ edit' = [w \in Writer |-> NoEdit]
    BY DEF PagesRestart
  <1>3. OrdersOK' /\ LatestOK'
    BY <1>1, <1>2 DEF OrdersOK, LatestOK, Rows
  <1>4. \A w \in Writer : edit'[w] = NoEdit
    BY <1>2
  <1>5. \A w \in Writer : RequestOK(edit[w])'
    BY <1>1, <1>2, <1>4 DEF RequestOK, Fits, Rows
  <1> QED
    BY <1>1, <1>2, <1>3, <1>4, <1>5 DEF PagesInv

\* What a default order is: one that no row has, behind all of them.
LEMMA DefaultIsHighest ==
  ASSUME OrdersOK, NEW place \in DefaultOrder
  PROVE  place \in Nat \ {0} /\ \A p \in Rows : order[p] < place
  BY DEF DefaultOrder, Highest, OrdersOK, Rows

\* A page that is created gets an order no row has; without a chosen one it goes
\* behind all the others, those of any list a reorder has in hand included.
LEMMA CreatePageInsertSteps ==
  ASSUME PagesInv, NEW w \in Writer, CreatePageInsert(w)
  PROVE  PagesInv'
  <1> DEFINE e == edit[w]
  <1>t. /\ e \in Requests /\ e.place \in Chosen \cup {0} /\ RequestOK(e) /\ OrdersOK /\ LatestOK
        /\ edit \in [Writer -> Requests] /\ order \in [Page -> Nat]
    BY DEF PagesInv, Requests, OrdersOK
  <1>n. /\ NoEdit \in Requests /\ RequestOK(NoEdit) /\ NoEdit.op = "idle" /\ NoEdit.list = <<>>
    BY <1>t, NoEditIsOK DEF NoEdit, Requests
  <1>b. ~Busy /\ UNCHANGED <<album, listed, latest>>
    BY DEF CreatePageInsert
  <1>1. CASE Over(w) /\ UNCHANGED <<born, order, chosen>>
    BY <1>1, <1>b, <1>n, RequestSteps DEF Over
  <1>2. ASSUME NEW place \in IF e.place = 0 THEN DefaultOrder ELSE {e.place},
               \E p \in Rows : order[p] = place, Answered(w, "conflict"),
               UNCHANGED <<born, order, chosen>>
        PROVE  PagesInv'
    <2> DEFINE answer == [NoEdit EXCEPT !.op = "conflict", !.place = e.place]
    <2>1. e.place # 0
      BY <1>t, <1>2, DefaultIsHighest DEF OrdersOK, Rows
    <2>2. /\ answer \in Requests /\ answer.op = "conflict" /\ answer.place = e.place
          /\ answer.list = NoEdit.list
      BY <1>t, <1>n DEF Requests
    <2> HIDE DEF answer
    <2>3. edit' = [edit EXCEPT ![w] = answer]
      BY <1>2 DEF Answered, answer
    <2>4. RequestOK(answer)
      BY <1>n, <2>1, <2>2 DEF RequestOK
    <2> QED
      BY <1>2, <1>b, <2>2, <2>3, <2>4, RequestSteps
  <1>3. ASSUME NEW place \in IF e.place = 0 THEN DefaultOrder ELSE {e.place},
               \A q \in Rows : order[q] # place, NEW p \in Page \ born,
               born' = born \cup {p}, order' = [order EXCEPT ![p] = place],
               chosen' = chosen \cup IF e.place = 0 THEN {} ELSE {p}, Over(w)
        PROVE  PagesInv'
    <2>1. /\ place \in Nat \ {0}
          /\ e.place = 0 => \A q \in Rows : order[q] < place
      BY <1>t, <1>3, DefaultIsHighest, ChosenArePositive
    <2>2. /\ Rows' = Rows \cup {p} /\ order'[p] = place /\ p \notin Rows
          /\ \A q \in Rows : order'[q] = order[q]
      BY <1>t, <1>3, <2>1 DEF Rows, OrdersOK
    <2>3. OrdersOK'
      <3>1. IsFiniteSet(born') /\ born' \in SUBSET Page
        BY <1>t, <1>3, FS_AddElement DEF OrdersOK
      <3>2. order' \in [Page -> Nat]
        BY <1>t, <1>3, <2>1
      <3>3. \A q, r \in Rows' : order'[q] = order'[r] => q = r
        BY <1>t, <1>3, <2>2 DEF OrdersOK
      <3>4. Rows' \subseteq born'
        BY <1>t, <1>3, <2>2 DEF OrdersOK
      <3> QED
        BY <3>1, <3>2, <3>3, <3>4 DEF OrdersOK
    <2>4. p \notin ToSet(latest) /\ \A v \in Writer : p \notin ToSet(edit[v].list)
      BY <1>t, <1>3 DEF LatestOK, PagesInv, RequestOK
    <2>5. LatestOK'
      <3>1. \A i \in 1..Len(latest) : latest[i] \in Page /\ latest[i] # p
        BY <1>t, <2>4, ToSetIsImage DEF LatestOK
      <3>2. \A i \in 1..Len(latest) : order'[latest[i]] \in {0, i}
        BY <1>t, <1>3, <3>1 DEF LatestOK
      <3>3. \A r \in Rows' \ ToSet(latest), q \in Rows' \cap ToSet(latest) :
               r \in chosen' \/ order'[q] < order'[r]
        BY <1>t, <1>3, <2>1, <2>2, <2>4 DEF LatestOK
      <3> QED
        BY <1>t, <1>3, <1>b, <3>2, <3>3 DEF LatestOK
    <2>6. ASSUME NEW v \in Writer, ToSet(edit[v].list) \subseteq Rows',
                 NEW q \in Rows' \ ToSet(edit[v].list), q \notin chosen' \cup listed'
          PROVE  order'[q] > Len(edit[v].list)
      <3>1. ToSet(edit[v].list) \subseteq Rows
        BY <2>2, <2>4, <2>6
      <3>2. CASE q = p
        <4>1. \A r \in Rows : order[r] <= place - 1
          BY <1>t, <1>3, <2>1, <2>6, <3>2 DEF OrdersOK, Rows
        <4>2. /\ edit[v].list \in Seq(Page) /\ Distinct(edit[v].list)
              /\ place - 1 \in Nat
          BY <2>1 DEF PagesInv, RequestOK, Requests
        <4>3. Len(edit[v].list) <= place - 1
          BY <1>t, <3>1, <4>1, <4>2, RowsReach
        <4> QED
          BY <2>1, <2>2, <3>2, <4>2, <4>3
      <3>3. CASE q # p
        BY <1>3, <1>b, <2>2, <2>6, <3>1, <3>3 DEF PagesInv, RequestOK, Fits
      <3> QED
        BY <3>2, <3>3
    <2>7. /\ edit' \in [Writer -> Requests]
          /\ \A v \in Writer : edit'[v] = edit[v] \/ edit'[v] = NoEdit
      BY <1>t, <1>3, <1>n DEF Over
    <2>8. \A v \in Writer : edit'[v].op # "move"
      BY <1>b, <1>n, <2>7, NobodyMoves
    <2>9. \A v \in Writer : edit'[v] = edit[v] \/ (edit'[v] \in Requests /\ edit'[v].list \in {edit[v].list, <<>>}
                                                  /\ (edit'[v].op = "conflict" => edit'[v].place # 0))
      BY <1>n, <2>7
    <2>10. born \subseteq born'
      BY <1>3
    <2> QED
      BY <2>3, <2>5, <2>6, <2>7, <2>8, <2>9, <2>10, RowSteps
  <1> QED
    BY <1>1, <1>2, <1>3 DEF CreatePageInsert

\* What a transaction that has come to its end has made of the orders.
LEMMA DraftIsOrdered ==
  ASSUME OrdersOK, NEW e \in Requests, Drafted(e), e.at = 2 * Len(e.list)
  PROVE  /\ e.draft \in [Page -> Nat]
         /\ \A i \in 1..Len(e.list) : e.list[i] \in Rows /\ e.draft[e.list[i]] = i
         /\ \A p \in Page \ ToSet(e.list) : e.draft[p] = order[p]
         /\ \A p \in Page : e.draft[p] # 0 <=> p \in Rows
         /\ \A p \in Rows \ ToSet(e.list) : e.draft[p] > Len(e.list)
  <1>1. e.list \in Seq(Page) /\ Len(e.list) \in Nat /\ e.draft \in [Page -> Int]
    BY DEF Requests
  <1>2. ASSUME NEW i \in 1..Len(e.list)
        PROVE  e.list[i] \in Rows /\ e.draft[e.list[i]] = i
    <2>1. i <= e.at /\ ~(e.at <= Len(e.list)) /\ i <= e.at - Len(e.list)
      BY <1>1
    <2> QED
      BY <2>1 DEF Drafted, Where
  <1>3. \A p \in Page \ ToSet(e.list) : e.draft[p] = order[p]
    BY DEF Drafted
  <1>4. \A p \in Page : p \in ToSet(e.list) <=> \E i \in 1..Len(e.list) : e.list[i] = p
    BY <1>1, ToSetIsImage
  <1>5. \A p \in Page : e.draft[p] \in Nat /\ (e.draft[p] # 0 <=> p \in Rows)
    <2> TAKE p \in Page
    <2>1. CASE p \in ToSet(e.list)
      <3>1. PICK i \in 1..Len(e.list) : e.list[i] = p
        BY <1>4, <2>1
      <3>2. e.draft[p] = i /\ p \in Rows
        BY <1>2, <3>1
      <3> QED
        BY <1>1, <3>2
    <2>2. CASE p \notin ToSet(e.list)
      BY <1>3, <2>2 DEF OrdersOK, Rows
    <2> QED
      BY <2>1, <2>2
  <1>6. ASSUME NEW p \in Rows \ ToSet(e.list), ~(e.draft[p] > Len(e.list))
        PROVE  FALSE
    <2> DEFINE i == e.draft[p]
    <2>1. p \in Page /\ i \in 1..Len(e.list)
      BY <1>1, <1>5, <1>6 DEF Rows
    <2>2. e.list[i] \in Page /\ e.draft[e.list[i]] = i /\ e.list[i] # p
      BY <1>1, <1>2, <1>4, <1>6, <2>1
    <2> QED
      BY <2>1, <2>2 DEF Drafted
  <1> QED
    BY <1>1, <1>2, <1>3, <1>5, <1>6

\* A commit makes the orders those of the list, and the list the latest one.
LEMMA ReorderCommitSteps ==
  ASSUME PagesInv, NEW w \in Writer, ReorderCommit(w)
  PROVE  PagesInv'
  <1> DEFINE e == edit[w]
  <1>1. /\ e.op = "move" /\ e.at = 2 * Len(e.list)
        /\ order' = e.draft /\ listed' = listed \cup ToSet(e.list) /\ latest' = e.list
        /\ UNCHANGED <<album, born, chosen>>
    BY DEF ReorderCommit, ReorderDone
  <1>2. /\ e \in Requests /\ RequestOK(e) /\ Drafted(e) /\ OrdersOK
        /\ e.list \in Seq(Page) /\ edit \in [Writer -> Requests]
        /\ \A v \in Writer \ {w} : edit[v].op # "move"
    BY <1>1 DEF PagesInv, RequestOK, Requests
  <1>3. /\ order' \in [Page -> Nat]
        /\ \A i \in 1..Len(e.list) : e.list[i] \in Rows /\ order'[e.list[i]] = i
        /\ \A p \in Page \ ToSet(e.list) : order'[p] = order[p]
        /\ \A p \in Page : order'[p] # 0 <=> p \in Rows
        /\ \A p \in Rows \ ToSet(e.list) : order'[p] > Len(e.list)
    BY <1>1, <1>2, DraftIsOrdered
  <1>4. Rows' = Rows
    BY <1>3 DEF Rows
  <1>5. \A p, q \in Page : order'[p] # 0 /\ order'[q] = order'[p] => p = q
    BY <1>1, <1>2 DEF Drafted
  <1>6. OrdersOK'
    BY <1>1, <1>2, <1>3, <1>4, <1>5 DEF OrdersOK, Rows
  <1>7. LatestOK'
    <2>1. ToSet(e.list) \subseteq born
      BY <1>2 DEF RequestOK
    <2>2. ASSUME NEW p \in Rows \ ToSet(e.list), NEW q \in Rows \cap ToSet(e.list)
          PROVE  order'[q] < order'[p]
      <3>1. PICK i \in 1..Len(e.list) : e.list[i] = q
        BY <1>2, ToSetIsImage
      <3>2. order'[q] = i /\ order'[p] \in Nat /\ Len(e.list) \in Nat
        BY <1>2, <1>3, <3>1 DEF Rows
      <3> QED
        BY <1>3, <3>2
    <2> QED
      BY <1>1, <1>2, <1>3, <1>4, <2>1, <2>2 DEF LatestOK
  <1>8. \A v \in Writer : ToSet(edit[v].list) \subseteq Rows' =>
             \A q \in Rows' \ ToSet(edit[v].list) :
                 q \in chosen' \cup listed' \/ order'[q] > Len(edit[v].list)
    BY <1>1, <1>3, <1>4 DEF PagesInv, RequestOK, Fits, Rows
  <1>9. PICK answer \in Requests : /\ edit' = [edit EXCEPT ![w] = answer]
                                   /\ answer.list \in {e.list, <<>>} /\ answer.op \in {"idle", "late"}
    <2>1. NoEdit \in Requests /\ NoEdit.list = <<>> /\ NoEdit.op = "idle" /\ NoEdit.draft \in [Page -> Int]
      BY DEF NoEdit, Requests
    <2>2. CASE Over(w)
      BY <2>1, <2>2 DEF Over
    <2>3. CASE Late(w)
      <3> DEFINE answer == [e EXCEPT !.op = "late", !.draft = NoEdit.draft, !.at = 0]
      <3>1. answer \in Requests /\ answer.list = e.list /\ answer.op = "late"
        BY <1>2, <2>1 DEF Requests
      <3> HIDE DEF answer
      <3>2. edit' = [edit EXCEPT ![w] = answer]
        BY <2>3 DEF Late, answer
      <3> QED
        BY <3>1, <3>2
    <2> QED
      BY <2>2, <2>3 DEF ReorderCommit
  <1>10. /\ edit' \in [Writer -> Requests] /\ edit'[w] = answer
         /\ \A v \in Writer \ {w} : edit'[v] = edit[v]
    BY <1>2, <1>9
  <1>11. \A v \in Writer : edit'[v].op # "move"
    BY <1>2, <1>9, <1>10
  <1>12. \A v \in Writer : edit'[v] = edit[v] \/ (edit'[v] \in Requests /\ edit'[v].list \in {edit[v].list, <<>>}
                                                  /\ (edit'[v].op = "conflict" => edit'[v].place # 0))
    BY <1>9, <1>10
  <1> QED
    BY <1>1, <1>6, <1>7, <1>8, <1>10, <1>11, <1>12, RowSteps

\* No action of a request, of the album or of the server.
LEMMA PagesSteps == PagesInv /\ [PagesNext]_pagesVars => PagesInv'
  <1> SUFFICES ASSUME PagesInv, [PagesNext]_pagesVars
               PROVE  PagesInv'
    OBVIOUS
  <1>1. CASE UNCHANGED pagesVars
    BY <1>1 DEF pagesVars, PagesInv, OrdersOK, LatestOK, Rows, RequestOK, Fits, Drafted
  <1> QED
    BY <1>1, QuietRequestSteps, ReorderBeginSteps, ReorderMoveSteps, ReorderCommitSteps,
       CreatePageInsertSteps, DeleteSteps, PagesRestartSteps
    DEF PagesNext, Step

\* The inductive invariant of the orders of an album's pages (album.service.ts:
\* createPage, deletePage, reorderPages).
THEOREM PagesInvHolds == PagesSpec => []PagesInv
  BY PagesStart, PagesSteps, PTL DEF PagesSpec

\* Readers see each page at a positive position of its own, whatever a reorder has
\* in hand when it times out, collides or dies (album.service.ts, reorderPages and
\* its two phases inside a transaction).
THEOREM PositionsAreKept == PagesSpec => []PositionsHold
  <1>1. PagesInv => PositionsHold
    BY DEF PagesInv, OrdersOK, PositionsHold, Rows
  <1> QED
    BY <1>1, PagesInvHolds, PTL

\* A page created without an order is never refused because its order is taken
\* (album.service.ts, createPage: max + 1 inside the insert).
THEOREM DefaultsAreFree == PagesSpec => []DefaultIsFree
  <1>1. PagesInv => DefaultIsFree
    BY DEF PagesInv, RequestOK, DefaultIsFree
  <1> QED
    BY <1>1, PagesInvHolds, PTL

\* The list committed last decides: its pages stay in its order, and the others
\* come after them unless a client wanted them elsewhere (album.service.ts,
\* reorderPages, createPage and deletePage).
THEOREM LatestLists == PagesSpec => []LatestListRules
  <1>1. PagesInv => LatestListRules
    <2> SUFFICES ASSUME PagesInv PROVE LatestListRules
      OBVIOUS
    <2>1. LatestOK /\ latest \in Seq(Page) /\ DOMAIN latest = 1..Len(latest)
      BY DEF PagesInv, LatestOK
    <2>2. \A i \in DOMAIN latest : latest[i] \in Rows => order[latest[i]] = i
      BY <2>1 DEF LatestOK, Rows
    <2> QED
      BY <2>1, <2>2 DEF LatestOK, LatestListRules
  <1> QED
    BY <1>1, PagesInvHolds, PTL

\* Only an update that finds its place taken ends in a collision.
LEMMA CollisionIsMove ==
  ASSUME PagesInv, [PagesNext]_pagesVars, NEW w \in Writer,
         edit[w].op = "move", edit'[w].op = "collided"
  PROVE  LET i == edit[w].at + 1
         IN  /\ i <= 2 * Len(edit[w].list)
             /\ \E q \in Page \ {Mover(edit[w].list, i)} : edit[w].draft[q] = Target(edit[w].list, i)
  <1>t. /\ edit \in [Writer -> Requests] /\ edit[w] \in Requests
        /\ NoEdit \in Requests /\ NoEdit.op = "idle" /\ NoEdit.draft \in [Page -> Int]
    BY DEF PagesInv, NoEdit, Requests
  <1>1. edit'[w] # edit[w] /\ edit'[w] # NoEdit
    BY <1>t
  <1>2. PICK v \in Writer : CreatePageCheck(v) \/ DeletePageRead(v) \/ ReorderRead(v) \/ Step(v) \/ Close(v)
    BY <1>1, <1>t DEF PagesNext, pagesVars, DeleteAlbumTx, PagesRestart
  <1>3. \E x : edit' = [edit EXCEPT ![v] = x]
    <2>1. CASE CreatePageCheck(v) \/ DeletePageRead(v) \/ ReorderRead(v) \/ Close(v)
      BY <2>1 DEF CreatePageCheck, DeletePageRead, ReorderRead, Close, Over
    <2>2. CASE CreatePageInsert(v) \/ DeletePageTx(v) \/ ReorderBegin(v)
      BY <2>2 DEF CreatePageInsert, DeletePageTx, ReorderBegin, Over, Answered
    <2>3. CASE ReorderMove(v)
      BY <2>3 DEF ReorderMove, Over, Answered
    <2>4. CASE ReorderCommit(v) \/ ReorderTimeout(v) \/ ReorderRetry(v)
      BY <2>4 DEF ReorderCommit, ReorderTimeout, ReorderRetry, Over, Late
    <2> QED
      BY <1>2, <2>1, <2>2, <2>3, <2>4 DEF Step
  <1>4. v = w
    BY <1>1, <1>3, <1>t
  <1>5. ReorderMove(w) \/ ReorderCommit(w) \/ ReorderTimeout(w)
    BY <1>2, <1>4, <1>t DEF CreatePageCheck, DeletePageRead, ReorderRead, Close, Step,
       CreatePageInsert, DeletePageTx, ReorderBegin, ReorderRetry
  <1>6. ~Over(w)
    BY <1>1, <1>t DEF Over
  <1>7. ~Late(w)
    <2>1. ASSUME Late(w)
          PROVE  edit'[w].op = "late"
      BY <1>t, <2>1 DEF Late, Requests
    <2> QED
      BY <2>1
  <1>8. ReorderMove(w)
    BY <1>5, <1>6, <1>7 DEF ReorderCommit, ReorderTimeout
  <1> DEFINE i == edit[w].at + 1
             p == Mover(edit[w].list, i)
             n == Target(edit[w].list, i)
  <1>9. CASE edit' = [edit EXCEPT ![w].draft[p] = n, ![w].at = i]
    <2>1. edit'[w].op = edit[w].op
      BY <1>9, <1>t DEF Requests
    <2> QED
      BY <2>1
  <1> QED
    BY <1>6, <1>8, <1>9 DEF ReorderMove

\* That page is not in the list, so it was created, or put where it is, since the
\* list was checked.
LEMMA CollisionIsWithStranger ==
  ASSUME PagesInv, [PagesNext]_pagesVars, NEW w \in Writer,
         edit[w].op = "move", edit'[w].op = "collided"
  PROVE  (Rows \ ToSet(edit[w].list)) \cap (chosen \cup listed) # {}
  <1> DEFINE e == edit[w]
             len == Len(e.list)
             at == e.at
  <1>1. /\ e \in Requests /\ RequestOK(e) /\ Drafted(e) /\ OrdersOK
        /\ e.list \in Seq(Page) /\ at \in Nat /\ len \in Nat
    BY DEF PagesInv, RequestOK, Requests
  <1>2. PICK q \in Page \ {Mover(e.list, at + 1)} :
           at + 1 <= 2 * len /\ e.draft[q] = Target(e.list, at + 1)
    BY CollisionIsMove
  <1>3. PICK k \in 1..len : /\ at + 1 \in {k, len + k} /\ Mover(e.list, at + 1) = e.list[k]
                            /\ e.draft[q] = IF at < len THEN -k ELSE k
    BY <1>1, <1>2, NextMove
  <1>4. /\ \A j \in 1..len : e.draft[e.list[j]] = Where(len, at, j, order[e.list[j]])
        /\ \A j \in 1..len : j <= at => e.list[j] \in Rows
        /\ \A p \in Page \ ToSet(e.list) : e.draft[p] = order[p]
        /\ \A p \in Page : order[p] \in Nat
        /\ \A p \in Page : p \in ToSet(e.list) <=> \E j \in 1..len : e.list[j] = p
    <2>1. /\ \A j \in 1..len : e.draft[e.list[j]] = Where(len, at, j, order[e.list[j]])
          /\ \A j \in 1..len : j <= at => e.list[j] \in Rows
          /\ \A p \in Page \ ToSet(e.list) : e.draft[p] = order[p]
      BY <1>1 DEF Drafted
    <2>2. \A p \in Page : order[p] \in Nat
      BY <1>1 DEF OrdersOK
    <2>3. \A p \in Page : p \in ToSet(e.list) <=> \E j \in 1..len : e.list[j] = p
      BY <1>1, ToSetIsImage
    <2> QED
      BY <2>1, <2>2, <2>3
  <1> HIDE DEF len, at
  <1>5. q \notin ToSet(e.list)
    <2> SUFFICES ASSUME NEW j \in 1..len, e.list[j] = q
                 PROVE  FALSE
      BY <1>4
    <2>1. j # k /\ order[q] \in Nat
      BY <1>2, <1>3, <1>4
    <2>2. e.draft[q] = Where(len, at, j, order[q])
      BY <1>4
    <2>3. Where(len, at, j, order[q]) # IF at < len THEN -k ELSE k
      BY <1>1, <1>3, <2>1 DEF Where
    <2> QED
      BY <1>3, <2>2, <2>3
  <1>6. at >= len /\ order[q] = k
    BY <1>1, <1>3, <1>4, <1>5
  <1>7. ToSet(e.list) \subseteq Rows
    <2>1. ToSet(e.list) \subseteq Page
      BY <1>1, ToSetIsImage
    <2> QED
      BY <1>1, <1>4, <1>6, <2>1
  <1>8. q \in Rows /\ ~(order[q] > len)
    BY <1>1, <1>3, <1>6 DEF Rows
  <1> QED
    BY <1>1, <1>5, <1>7, <1>8 DEF RequestOK, Fits, len

\* A reorder that passed its checks runs into the unique order only if a page that
\* did not exist when they were made is there, at an order a client has chosen or
\* another list has given it (album.service.ts, reorderPages).
THEOREM ReordersFit == PagesSpec => ReorderFits
  <1>1. PagesInv /\ [PagesNext]_pagesVars =>
          [\A w \in Writer : edit[w].op = "move" /\ edit'[w].op = "collided" =>
              (Rows \ ToSet(edit[w].list)) \cap (chosen \cup listed) # {}]_pagesVars
    BY CollisionIsWithStranger
  <1> QED
    BY <1>1, PagesInvHolds, PTL DEF PagesSpec, ReorderFits

-----------------------------------------------------------------------------
(***************************************************************************)
(* The database keeps the years unique; what is proved is that a request   *)
(* learns of a taken year from its own look, or was overtaken: YearsInv.   *)
(***************************************************************************)

\* What a request holds at any of its steps.
Asks == [op : {"idle", "create", "update", "conflict", "failed", "served"},
         volume : {<<>>} \cup {<<v>> : v \in Volume},
         year : Year \cup {NoYear}, lapped : BOOLEAN]

\* What update has seen of album v and the year y it is to get.
FreeFor(v, y) == v \in Albums /\ \A w \in Albums \ {v} : year[w] # y

\* Years are unique, and an update that no other request's commit came after
\* still finds what it looked for.
YearsInv ==
    /\ year \in [Volume -> Year \cup {NoYear}]
    /\ ask \in [Asker -> Asks]
    /\ \A v, w \in Albums : year[v] = year[w] => v = w
    /\ \A c \in Asker :
          /\ ask[c].op = "create" => ask[c].year \in Year
          /\ ask[c].op = "update" =>
                /\ ask[c].volume # <<>> /\ ask[c].year \in Year
                /\ ~ask[c].lapped => FreeFor(ask[c].volume[1], ask[c].year)
          /\ ask[c].op = "failed" => ask[c].volume # <<>> /\ ask[c].lapped

\* The answer to request c changes nothing the others rely on.
LEMMA AnswerKeeps ==
  ASSUME YearsInv, NEW c \in Asker, NEW op \in {"conflict", "failed"},
         op = "failed" => ask[c].volume # <<>> /\ ask[c].lapped,
         ask' = [ask EXCEPT ![c].op = op], year' = year
  PROVE  YearsInv'
  BY DEF YearsInv, Asks, Albums, FreeFor

\* A commit ends request c, and every other that has looked is overtaken.
LEMMA CommitKeeps ==
  ASSUME YearsInv, NEW c \in Asker, Committed(c),
         year' \in [Volume -> Year \cup {NoYear}],
         \A v, w \in Albums' : year'[v] = year'[w] => v = w
  PROVE  YearsInv'
  <1> DEFINE after(d) == IF d = c THEN [ask[c] EXCEPT !.op = "served"]
                         ELSE [ask[d] EXCEPT !.lapped = ask[d] # NoAsk]
  <1>1. ask' = [d \in Asker |-> after(d)]
    BY Zenon DEF Committed
  <1>2. ASSUME NEW d \in Asker
        PROVE  /\ after(d) \in Asks
               /\ after(d).op \in {"create", "update", "failed"} =>
                     /\ after(d).op = ask[d].op /\ after(d).year = ask[d].year
                     /\ after(d).volume = ask[d].volume /\ after(d).lapped
    <2>1. ask[d] \in Asks /\ ask[c] \in Asks
      BY DEF YearsInv
    <2>2. CASE d = c
      <3>1. after(d) = [ask[c] EXCEPT !.op = "served"]
        BY <2>2
      <3> QED
        BY <2>1, <3>1 DEF Asks
    <2>3. CASE d # c /\ ask[d] # NoAsk
      <3>1. after(d) = [ask[d] EXCEPT !.lapped = TRUE]
        BY <2>3
      <3> QED
        BY <2>1, <3>1 DEF Asks
    <2>4. CASE d # c /\ ask[d] = NoAsk
      <3>1. after(d) = [NoAsk EXCEPT !.lapped = FALSE]
        BY <2>4
      <3>2. after(d) = NoAsk
        BY <3>1 DEF NoAsk
      <3> HIDE DEF after
      <3> QED
        BY <2>1, <2>4, <3>2 DEF NoAsk
    <2> QED
      BY <2>2, <2>3, <2>4
  <1> HIDE DEF after
  <1>3. ask' \in [Asker -> Asks]
    BY <1>1, <1>2
  <1>4. \A d \in Asker :
           /\ ask'[d].op = "create" => ask'[d].year \in Year
           /\ ask'[d].op = "update" =>
                 ask'[d].volume # <<>> /\ ask'[d].year \in Year /\ ask'[d].lapped
           /\ ask'[d].op = "failed" => ask'[d].volume # <<>> /\ ask'[d].lapped
    BY <1>1, <1>2 DEF YearsInv
  <1> QED
    BY <1>3, <1>4 DEF YearsInv

\* There is no album and no request at first.
LEMMA YearsStart == YearsInit => YearsInv
  BY DEF YearsInit, YearsInv, NoAsk, Asks, Albums

\* No step of a creation, an update or a deletion.
LEMMA YearsSteps == YearsInv /\ [YearsNext]_yearsVars => YearsInv'
  <1> SUFFICES ASSUME YearsInv, [YearsNext]_yearsVars
               PROVE  YearsInv'
    OBVIOUS
  <1> USE NoYearIsNoYear
  <1>1. ASSUME NEW c \in Asker, CreateCheck(c)
        PROVE  YearsInv'
    BY <1>1 DEF CreateCheck, YearsInv, NoAsk, Asks, Albums, FreeFor
  <1>2. ASSUME NEW c \in Asker, CreateTx(c)
        PROVE  YearsInv'
    <2>1. CASE Taken(ask[c].year) /\ Reply(c, "conflict") /\ UNCHANGED <<year, known>>
      BY <2>1, AnswerKeeps DEF Reply
    <2>2. ASSUME NEW v \in Volume \ known, ~Taken(ask[c].year), Committed(c),
                 year' = [year EXCEPT ![v] = ask[c].year]
          PROVE  YearsInv'
      <3>1. ask[c].year \in Year
        BY <1>2 DEF CreateTx, YearsInv
      <3>2. \A u, w \in Albums' : year'[u] = year'[w] => u = w
        BY <2>2, <3>1 DEF YearsInv, Albums, Taken
      <3> QED
        BY <2>2, <3>1, <3>2, CommitKeeps DEF YearsInv
    <2> QED
      BY <1>2, <2>1, <2>2 DEF CreateTx
  <1>3. ASSUME NEW c \in Asker, UpdateCheck(c)
        PROVE  YearsInv'
    <2>1. PICK v \in Albums, y \in Year :
             ask' = [ask EXCEPT ![c].volume = <<v>>, ![c].year = y,
                                ![c].op = IF y # year[v] /\ Taken(y) THEN "conflict" ELSE "update"]
      BY <1>3 DEF UpdateCheck
    <2> DEFINE op == IF y # year[v] /\ Taken(y) THEN "conflict" ELSE "update"
               new == [op |-> op, volume |-> <<v>>, year |-> y, lapped |-> FALSE]
    <2>2. ask[c] = NoAsk /\ year' = year
      BY <1>3 DEF UpdateCheck
    <2>3. op \in {"conflict", "update"} /\ (op = "update" => FreeFor(v, y))
      BY DEF FreeFor, Taken, YearsInv, Albums
    <2>4. ask' = [ask EXCEPT ![c] = new]
      BY <2>1, <2>2 DEF NoAsk, YearsInv, Asks
    <2> HIDE DEF op
    <2>5. new \in Asks /\ new.volume # <<>> /\ new.volume[1] = v
      BY <2>3 DEF Asks, Albums
    <2> QED
      BY <2>2, <2>3, <2>4, <2>5 DEF YearsInv, Albums, FreeFor
  <1>4. ASSUME NEW c \in Asker, UpdateTx(c)
        PROVE  YearsInv'
    <2> DEFINE v == ask[c].volume[1]
    <2>1. /\ ask[c].op = "update" /\ ask[c].volume # <<>> /\ ask[c].year \in Year
          /\ ~ask[c].lapped => FreeFor(v, ask[c].year)
      BY <1>4 DEF UpdateTx, YearsInv
    <2>2. CASE /\ v \notin Albums \/ \E w \in Albums \ {v} : year[w] = ask[c].year
               /\ Reply(c, "failed") /\ UNCHANGED year
      <3>1. ask[c].lapped
        BY <2>1, <2>2 DEF FreeFor
      <3> QED
        BY <2>1, <2>2, <3>1, AnswerKeeps DEF Reply
    <2>3. CASE /\ v \in Albums /\ \A w \in Albums \ {v} : year[w] # ask[c].year
               /\ year' = [year EXCEPT ![v] = ask[c].year]
               /\ Committed(c)
      <3>1. \A u, w \in Albums' : year'[u] = year'[w] => u = w
        BY <2>1, <2>3 DEF YearsInv, Albums
      <3> QED
        BY <2>1, <2>3, <3>1, CommitKeeps DEF YearsInv
    <2> QED
      BY <1>4, <2>2, <2>3 DEF UpdateTx
  <1>5. ASSUME NEW c \in Asker, DeleteVolume(c)
        PROVE  YearsInv'
    <2>1. PICK v \in Albums : year' = [year EXCEPT ![v] = NoYear]
      BY <1>5 DEF DeleteVolume
    <2>2. \A u, w \in Albums' : year'[u] = year'[w] => u = w
      BY <2>1 DEF YearsInv, Albums
    <2>3. year' \in [Volume -> Year \cup {NoYear}]
      BY <2>1 DEF YearsInv, Albums
    <2> QED
      BY <1>5, <2>2, <2>3, CommitKeeps DEF DeleteVolume
  <1>6. ASSUME NEW c \in Asker, Dismiss(c)
        PROVE  YearsInv'
    BY <1>6 DEF Dismiss, YearsInv, NoAsk, Asks, Albums, FreeFor
  <1>7. CASE UNCHANGED yearsVars
    BY <1>7 DEF yearsVars, YearsInv, Albums, FreeFor
  <1> QED
    BY <1>1, <1>2, <1>3, <1>4, <1>5, <1>6, <1>7 DEF YearsNext

\* The inductive invariant of the years of albums (album.service.ts: create, update).
THEOREM YearsInvHolds == YearsSpec => []YearsInv
  BY YearsStart, YearsSteps, PTL DEF YearsSpec

\* A year that is taken is answered with a conflict: a creation always, an update
\* unless another request was committed between its look and its write
\* (album.service.ts, create and update).
THEOREM YearConflictsAreAnswered == YearsSpec => []YearConflictsAnswered
  <1>1. YearsInv => YearConflictsAnswered
    BY DEF YearsInv, YearConflictsAnswered
  <1> QED
    BY YearsInvHolds, <1>1, PTL

-----------------------------------------------------------------------------
(***************************************************************************)
(* A row the script has read is as it was read, or an update has written   *)
(* it since; and what an update keeps of the row it read are references,   *)
(* so that what it writes shows nothing else: that is MigrateInv.          *)
(***************************************************************************)

\* What a row can hold.
Contents(r) ==
    [images : [Slots(r) -> {"legacy", "media", "foreign", "empty", "fresh"}],
     text : {"old", "edited"}]
AnyContents == (UNION {Contents(r) : r \in Row}) \cup {Gone}

\* The rows the script has read by the time of its next step.
ReadBy(op) == CASE op \in {"idle", "photos"} -> {}
                [] op = "albums" -> PhotoRow
                [] op = "pages" -> PhotoRow \cup CoverRow
                [] op \in {"decide", "apply"} -> Row

\* A row that shows no legacy and no foreign image.
Referenced(r, content) ==
    \A i \in Slots(r) : \/ InMedia(content.images[i])
                        \/ r \in CoverRow /\ content.images[i] = "empty"

\* Types of the rows, the script and an update.
MigrateTypes ==
    /\ row \in [Row -> AnyContents]
    /\ \A r \in Row : row[r] # Gone => row[r] \in Contents(r)
    /\ script \in [op : {"idle", "photos", "albums", "pages", "decide", "apply"},
                   dry : BOOLEAN, read : [Row -> AnyContents]]
    /\ \A r \in Row : script.read[r] # Gone => script.read[r] \in Contents(r)
    /\ marker \in BOOLEAN
    /\ editing \in [of : SUBSET (Row \ PhotoRow), was : AnyContents, new : SUBSET (1 .. 2)]
    /\ \A r \in editing.of : editing.was \in Contents(r)

\* What the script has read is what is there or was updated since, what it is
\* about to write can be converted, and what an update keeps is a reference.
MigrateInv ==
    /\ MigrateTypes
    /\ script.op = "apply" => \A r \in Plan : Convertible(r)
    /\ \A r \in ReadBy(script.op) : row[r] # Gone =>
           row[r] = script.read[r] \/ (script.read[r] # Gone /\ Referenced(r, row[r]))
    /\ marker => \A r \in Alive : Referenced(r, row[r])
    /\ \A r \in editing.of : /\ r \in CoverRow => editing.new = Slots(r)
                             /\ \A i \in Slots(r) \ editing.new : InMedia(editing.was.images[i])

\* A row that is there is not one that is gone.
LEMMA ContentsAreNotGone ==
  ASSUME NEW r \in Row, NEW x \in Contents(r)
  PROVE  /\ x # Gone /\ x.text \in {"old", "edited"}
         /\ x.images \in [Slots(r) -> {"legacy", "media", "foreign", "empty", "fresh"}]
         /\ x = [images |-> x.images, text |-> x.text]
  BY DEF Contents, Gone

\* The script has read nothing at first.
LEMMA UnreadIsTyped ==
  /\ Unread \in [op : {"idle", "photos", "albums", "pages", "decide", "apply"},
                 dry : BOOLEAN, read : [Row -> AnyContents]]
  /\ Unread.op = "idle" /\ \A r \in Row : Unread.read[r] = Gone
  BY DEF Unread, AnyContents

\* Nothing is read, written or marked at first.
LEMMA MigrateStarts == MigrateInit => MigrateInv
  <1> SUFFICES ASSUME MigrateInit PROVE MigrateInv
    OBVIOUS
  <1>1. ASSUME NEW r \in Row
        PROVE  row[r] \in Contents(r)
    <2>1. row[r].images \in [Slots(r) -> Image(r)] /\ row[r] = [images |-> row[r].images, text |-> "old"]
      BY DEF MigrateInit
    <2>2. row[r].images \in [Slots(r) -> {"legacy", "media", "foreign", "empty", "fresh"}]
      BY <2>1 DEF Image
    <2> QED
      BY <2>1, <2>2 DEF Contents
  <1>2. row \in [Row -> AnyContents]
    <2>1. row = [r \in Row |-> row[r]]
      BY DEF MigrateInit
    <2> QED
      BY <1>1, <2>1 DEF AnyContents
  <1>3. MigrateTypes
    BY <1>1, <1>2, UnreadIsTyped DEF MigrateInit, MigrateTypes, NotEditing, AnyContents
  <1> QED
    BY <1>3, UnreadIsTyped DEF MigrateInit, MigrateInv, ReadBy, NotEditing

\* A row that was read whole and is not in the plan needs no migration; one
\* that is in the plan, and can be converted, is migrated.
LEMMA UnplannedIsReferenced ==
  ASSUME MigrateTypes, NEW r \in Row \ Plan, script.read[r] # Gone
  PROVE  Referenced(r, script.read[r])
  <1>1. script.read[r] \in Contents(r)
    BY DEF MigrateTypes
  <1>2. DOMAIN script.read[r].images = Slots(r)
    BY <1>1, ContentsAreNotGone
  <1> QED
    BY <1>2 DEF Plan, ToMigrate, Referenced

\* A migrated row has its text and, by reference, its objects.
LEMMA MigratedShowsTheSame ==
  ASSUME MigrateTypes, NEW r \in Plan
  PROVE  /\ script.read[r] \in Contents(r) /\ Migrated(r) \in Contents(r)
         /\ Migrated(r).text = script.read[r].text
         /\ \A i \in Slots(r) : SameObject(script.read[r].images[i], Migrated(r).images[i])
  <1> DEFINE x == script.read[r]
             y == [i \in DOMAIN x.images |->
                      IF x.images[i] = "legacy" THEN "media" ELSE x.images[i]]
  <1>1. r \in Row /\ x # Gone
    BY DEF Plan, ToMigrate, Gone
  <1>2. x \in Contents(r)
    BY <1>1 DEF MigrateTypes
  <1>3. Migrated(r) = [x EXCEPT !.images = y]
    BY DEF Migrated
  <1>4. DOMAIN x.images = Slots(r)
    BY <1>1, <1>2, ContentsAreNotGone
  <1>5. y \in [Slots(r) -> {"legacy", "media", "foreign", "empty", "fresh"}]
    BY <1>1, <1>2, <1>4, ContentsAreNotGone
  <1>6. \A i \in Slots(r) : SameObject(x.images[i], y[i])
    BY <1>4 DEF SameObject
  <1> HIDE DEF y
  <1>7. Migrated(r) = [images |-> y, text |-> x.text]
    BY <1>1, <1>2, <1>3 DEF Contents
  <1> QED
    BY <1>1, <1>2, <1>5, <1>6, <1>7 DEF Contents

\* A row that can be converted shows references only, once it is migrated.
LEMMA MigratedIsReferenced ==
  ASSUME MigrateTypes, NEW r \in Plan, Convertible(r)
  PROVE  Referenced(r, Migrated(r))
  <1>1. DOMAIN script.read[r].images = Slots(r)
    BY MigratedShowsTheSame, ContentsAreNotGone DEF Plan
  <1> QED
    BY <1>1, MigratedShowsTheSame DEF Convertible, Referenced, SameObject, InMedia

\* No step of the script, of an update or a deletion, or of a creation.
LEMMA MigrateSteps == MigrateInv /\ [MigrateNext]_migrateVars => MigrateInv'
  <1> SUFFICES ASSUME MigrateInv, [MigrateNext]_migrateVars
               PROVE  MigrateInv'
    OBVIOUS
  <1>t. MigrateTypes
    BY DEF MigrateInv
  <1>1. ASSUME NEW dry \in BOOLEAN, MigrateStart(dry)
        PROVE  MigrateInv'
    <2>1. /\ script' \in [op : {"idle", "photos", "albums", "pages", "decide", "apply"},
                          dry : BOOLEAN, read : [Row -> AnyContents]]
          /\ script'.op = "photos" /\ \A r \in Row : script'.read[r] = Gone
      BY <1>1, UnreadIsTyped DEF MigrateStart
    <2> QED
      BY <1>1, <1>t, <2>1 DEF MigrateStart, MigrateInv, MigrateTypes, ReadBy, Alive
  <1>2. ASSUME NEW op, NEW rows, NEW next, Reading(op, rows, next),
               \/ op = "photos" /\ rows = PhotoRow /\ next = "albums"
               \/ op = "albums" /\ rows = CoverRow /\ next = "pages"
               \/ op = "pages" /\ rows = PageRow /\ next = "decide"
        PROVE  MigrateInv'
    <2> DEFINE read == [r \in Row |-> IF r \in rows THEN row[r] ELSE script.read[r]]
    <2>1. read \in [Row -> AnyContents] /\ \A r \in Row : read[r] # Gone => read[r] \in Contents(r)
      BY <1>t DEF MigrateTypes
    <2>2. /\ script' = [script EXCEPT !.op = next, !.read = read] /\ script.op = op
          /\ UNCHANGED <<row, marker, editing>>
      BY <1>2 DEF Reading
    <2>3. \A r \in ReadBy(next) : row[r] # Gone => read[r] = row[r] \/ (r \in ReadBy(op) /\ read[r] = script.read[r])
      BY <1>2 DEF ReadBy, Row
    <2> HIDE DEF read
    <2>4. /\ script' \in [op : {"idle", "photos", "albums", "pages", "decide", "apply"},
                          dry : BOOLEAN, read : [Row -> AnyContents]]
          /\ script'.op = next /\ next # "apply" /\ script'.read = read
      BY <1>2, <1>t, <2>1, <2>2 DEF MigrateTypes
    <2>5. MigrateTypes'
      BY <1>t, <2>1, <2>2, <2>4 DEF MigrateTypes
    <2> QED
      BY <2>2, <2>3, <2>4, <2>5 DEF MigrateInv, Alive
  <1>3. CASE Decide
    <2>1. UNCHANGED <<row, marker, editing>> /\ script.op = "decide"
      BY <1>3 DEF Decide
    <2>2. CASE script' = Unread
      BY <1>t, <2>1, <2>2, UnreadIsTyped DEF MigrateInv, MigrateTypes, ReadBy, Alive
    <2>3. CASE script' = [script EXCEPT !.op = "apply"] /\ \A r \in Plan : Convertible(r)
      <3>1. /\ script' \in [op : {"idle", "photos", "albums", "pages", "decide", "apply"},
                            dry : BOOLEAN, read : [Row -> AnyContents]]
            /\ script'.read = script.read /\ script'.op = "apply"
        BY <1>t, <2>3 DEF MigrateTypes
      <3>2. \A r \in Plan' : Convertible(r)'
        BY <2>3, <3>1 DEF Plan, ToMigrate, Convertible
      <3>3. ReadBy(script'.op) = ReadBy(script.op)
        BY <2>1, <3>1 DEF ReadBy
      <3> QED
        BY <1>t, <2>1, <3>1, <3>2, <3>3 DEF MigrateInv, MigrateTypes, Alive
    <2> QED
      BY <1>3, <2>2, <2>3 DEF Decide
  <1>4. CASE MigrateApply
    <2>1. script' = Unread /\ UNCHANGED editing /\ script.op = "apply"
      BY <1>4 DEF MigrateApply
    <2>2. CASE UNCHANGED <<row, marker>>
      BY <1>t, <2>1, <2>2, UnreadIsTyped DEF MigrateInv, MigrateTypes, ReadBy, Alive
    <2>3. CASE /\ Plan \subseteq Alive /\ marker' = TRUE
               /\ row' = [r \in Row |-> IF r \in Plan THEN Migrated(r) ELSE row[r]]
      <3>1. \A r \in Row : row'[r] # Gone => row'[r] \in Contents(r)
        BY <1>t, <2>3, MigratedShowsTheSame DEF MigrateTypes
      <3>2. row' \in [Row -> AnyContents]
        BY <2>3, <3>1 DEF AnyContents
      <3>3. MigrateTypes'
        BY <1>t, <2>1, <2>3, <3>1, <3>2, UnreadIsTyped DEF MigrateTypes
      <3>4. ASSUME NEW r \in Row, row'[r] # Gone
            PROVE  Referenced(r, row'[r])
        <4>1. CASE r \in Plan
          BY <1>t, <2>1, <2>3, <4>1, MigratedIsReferenced DEF MigrateInv
        <4>2. CASE r \notin Plan
          <5>1. row'[r] = row[r]
            BY <2>3, <3>4, <4>2
          <5>2. row[r] = script.read[r] \/ Referenced(r, row[r])
            BY <2>1, <3>4, <5>1 DEF MigrateInv, ReadBy
          <5> QED
            BY <1>t, <3>4, <4>2, <5>1, <5>2, UnplannedIsReferenced
        <4> QED
          BY <4>1, <4>2
      <3> QED
        BY <2>1, <2>3, <3>3, <3>4, UnreadIsTyped DEF MigrateInv, ReadBy, Alive
    <2> QED
      BY <1>4, <2>2, <2>3 DEF MigrateApply
  <1>5. CASE MigrateDies
    BY <1>5, <1>t, UnreadIsTyped DEF MigrateDies, MigrateInv, MigrateTypes, ReadBy, Alive
  <1>6. ASSUME NEW r \in Row, NEW new \in SUBSET Slots(r), EditRead(r, new)
        PROVE  MigrateInv'
    <2>1. /\ editing' = [of |-> {r}, was |-> row[r], new |-> new] /\ r \in Alive \ PhotoRow
          /\ UNCHANGED <<row, marker, script>>
      BY <1>6 DEF EditRead
    <2>2. editing'.of = {r} /\ editing'.was = row[r] /\ editing'.new = new
      BY <2>1
    <2>3. new \in SUBSET (1 .. 2)
      BY DEF Slots
    <2>4. MigrateTypes'
      BY <1>t, <2>1, <2>3 DEF MigrateTypes, Alive
    <2>5. r \in CoverRow => new = Slots(r)
      BY <1>6, KindsAreDisjoint DEF EditRead, Slots
    <2>6. \A i \in Slots(r) \ new : InMedia(row[r].images[i])
      BY <1>6 DEF EditRead
    <2>7. \A q \in editing'.of : /\ q \in CoverRow => editing'.new = Slots(q)
                                /\ \A i \in Slots(q) \ editing'.new : InMedia(editing'.was.images[i])
      BY <2>2, <2>5, <2>6
    <2> QED
      BY <2>1, <2>4, <2>7 DEF MigrateInv, Alive, Plan, ToMigrate, Convertible
  <1>7. ASSUME NEW r \in Row, DeleteRow(r)
        PROVE  MigrateInv'
    <2>1. row' = [row EXCEPT ![r] = Gone] /\ UNCHANGED <<marker, script, editing>>
      BY <1>7 DEF DeleteRow
    <2>2. MigrateTypes'
      BY <1>t, <2>1 DEF MigrateTypes, AnyContents
    <2>3. \A q \in Row : row'[q] # Gone => row'[q] = row[q]
      BY <1>t, <2>1 DEF MigrateTypes
    <2>4. ReadBy(script.op) \subseteq Row
      BY <1>t DEF MigrateTypes, ReadBy, Row
    <2> QED
      BY <2>1, <2>2, <2>3, <2>4 DEF MigrateInv, Alive, Plan, ToMigrate, Convertible
  <1>8. ASSUME NEW r \in Row, EditWrite(r)
        PROVE  MigrateInv'
    <2> DEFINE images == [i \in Slots(r) |-> IF i \in editing.new THEN "fresh" ELSE editing.was.images[i]]
    <2>1. /\ editing.of = {r} /\ r \in Alive
          /\ editing' = NotEditing /\ UNCHANGED <<marker, script>>
      BY <1>8 DEF EditWrite
    <2>2. editing.was \in Contents(r)
      BY <1>t, <2>1 DEF MigrateTypes
    <2>3. PICK text \in {editing.was.text} \cup IF r \in PageRow THEN {"edited"} ELSE {} :
             row' = [row EXCEPT ![r] = [editing.was EXCEPT !.text = text, !.images = images]]
      BY <1>8, <2>2 DEF EditWrite, Contents
    <2>4. /\ images \in [Slots(r) -> {"legacy", "media", "foreign", "empty", "fresh"}]
          /\ text \in {"old", "edited"}
      BY <2>2, <2>3, ContentsAreNotGone
    <2>5. \A i \in Slots(r) : InMedia(images[i])
      BY <2>1 DEF MigrateInv, InMedia
    <2> HIDE DEF images
    <2> DEFINE content == [editing.was EXCEPT !.text = text, !.images = images]
    <2>6. content \in Contents(r) /\ content.images = images
      BY <2>2, <2>4 DEF Contents
    <2> HIDE DEF content
    <2>7. row' = [row EXCEPT ![r] = content]
      BY <2>3 DEF content
    <2>8. /\ row'[r] = content /\ content # Gone /\ \A q \in Row \ {r} : row'[q] = row[q]
          /\ row' \in [Row -> AnyContents]
      BY <1>t, <2>6, <2>7, ContentsAreNotGone DEF MigrateTypes, AnyContents
    <2>9. MigrateTypes'
      BY <1>t, <2>1, <2>6, <2>8 DEF MigrateTypes, NotEditing, AnyContents
    <2>10. Referenced(r, row'[r])
      BY <2>5, <2>6, <2>8 DEF Referenced
    <2>11. marker => \A q \in Alive' : Referenced(q, row'[q])
      BY <2>8, <2>10 DEF MigrateInv, Alive
    <2>12. ReadBy(script.op) \subseteq Row
      BY <1>t DEF MigrateTypes, ReadBy, Row
    <2>13. r \in ReadBy(script.op) => script.read[r] # Gone
      BY <2>1 DEF MigrateInv, Alive
    <2>14. \A q \in ReadBy(script.op) : row'[q] # Gone =>
              row'[q] = script.read[q] \/ (script.read[q] # Gone /\ Referenced(q, row'[q]))
      BY <2>8, <2>10, <2>12, <2>13 DEF MigrateInv
    <2> QED
      BY <2>1, <2>9, <2>11, <2>14 DEF MigrateInv, NotEditing, Plan, ToMigrate, Convertible
  <1>9. CASE EditFails
    BY <1>9, <1>t DEF EditFails, MigrateInv, MigrateTypes, NotEditing, AnyContents, Alive, Plan,
       ToMigrate, Convertible
  <1>10. CASE UNCHANGED migrateVars
    BY <1>10, <1>t DEF migrateVars, MigrateInv, MigrateTypes, Alive, Plan, ToMigrate, Convertible
  <1>11. CASE ReadPhotos \/ ReadAlbums \/ ReadPages
    BY <1>2, <1>11 DEF ReadPhotos, ReadAlbums, ReadPages
  <1> QED
    BY <1>1, <1>3, <1>4, <1>5, <1>6, <1>7, <1>8, <1>9, <1>10, <1>11 DEF MigrateNext

\* The inductive invariant of the migration (migrate-legacy-media-refs.ts).
THEOREM MigrateInvHolds == MigrateSpec => []MigrateInv
  BY MigrateStarts, MigrateSteps, PTL DEF MigrateSpec

\* Once the marker is set every image that is shown is a media:// reference,
\* whatever updates cross the script (migrate-legacy-media-refs.ts and
\* album.service.ts, update and updatePage).
THEOREM MarkedAreMigrated == MigrateSpec => []MarkedMeansMigrated
  <1>1. MigrateInv => MarkedMeansMigrated
    BY DEF MigrateInv, MarkedMeansMigrated, Referenced
  <1> QED
    BY <1>1, MigrateInvHolds, PTL

\* A row of the plan that can be converted has a legacy image, another has none.
LEMMA PlannedWereLegacy ==
  ASSUME MigrateTypes, NEW r \in Row, script.read[r] # Gone, r \in Plan => Convertible(r)
  PROVE  r \in Plan <=> WasLegacy(r)
  <1>1. DOMAIN script.read[r].images = Slots(r)
    BY ContentsAreNotGone DEF MigrateTypes
  <1> QED
    BY <1>1 DEF Plan, ToMigrate, Convertible, WasLegacy, InMedia

\* When the migration commits, only the rows that showed a legacy image when they
\* were read are written, and show the objects and the text they had then; every
\* other goes on as it is, whatever updates cross the script
\* (migrate-legacy-media-refs.ts).
THEOREM MigrationKeepsTheContent == MigrateSpec => MigrationKeepsContent
  <1> DEFINE Shown(r) == IF WasLegacy(r) THEN script.read[r] ELSE row[r]
             Kept(r) == /\ row'[r].text = Shown(r).text
                        /\ \A i \in Slots(r) : SameObject(Shown(r).images[i], row'[r].images[i])
  <1>1. ASSUME MigrateInv, [MigrateNext]_migrateVars, ~marker, marker', NEW r \in Alive
        PROVE  Kept(r)
    <2>1. MigrateApply
      BY <1>1 DEF MigrateNext, migrateVars, MigrateStart, ReadPhotos, ReadAlbums, ReadPages,
         Reading, Decide, MigrateDies, EditRead, DeleteRow, EditWrite, EditFails
    <2>2. /\ row' = [q \in Row |-> IF q \in Plan THEN Migrated(q) ELSE row[q]]
          /\ r \in Row /\ row[r] # Gone /\ MigrateTypes
          /\ script.op = "apply"
      BY <1>1, <2>1 DEF MigrateApply, Alive, MigrateInv
    <2>3. script.read[r] # Gone /\ (r \in Plan => Convertible(r))
      BY <1>1, <2>2 DEF MigrateInv, ReadBy
    <2>4. CASE r \in Plan
      BY <2>2, <2>3, <2>4, MigratedShowsTheSame, PlannedWereLegacy
    <2>5. CASE r \notin Plan
      <3>1. row'[r] = row[r] /\ Shown(r) = row[r]
        BY <2>2, <2>3, <2>5, PlannedWereLegacy
      <3>2. \A i \in Slots(r) : row[r].images[i] # "legacy"
        <4>1. row[r] = script.read[r] \/ Referenced(r, row[r])
          BY <1>1, <2>2 DEF MigrateInv, ReadBy
        <4> QED
          BY <2>2, <2>3, <2>5, <4>1, UnplannedIsReferenced DEF Referenced, InMedia
      <3> QED
        BY <3>1, <3>2 DEF SameObject
    <2> QED
      BY <2>4, <2>5
  <1>2. MigrateInv /\ [MigrateNext]_migrateVars =>
          [~marker /\ marker' => \A r \in Alive : Kept(r)]_migrateVars
    BY <1>1
  <1>3. MigrateSpec => [][~marker /\ marker' => \A r \in Alive : Kept(r)]_migrateVars
    BY <1>2, MigrateInvHolds, PTL DEF MigrateSpec
  <1> QED
    BY <1>3 DEF MigrationKeepsContent
=============================================================================
