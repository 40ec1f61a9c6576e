-------------------------- MODULE CompletionProofs --------------------------
(***************************************************************************)
(* A completion makes the object of exactly the parts selected.            *)
(*                                                                         *)
(* CompletionInv follows what a completion has joined so far; it is        *)
(* compared with JoinedUpTo, which is recursive on the part number.  What  *)
(* that function is follows from the least number at which it would be     *)
(* something else (LeastNumber).                                           *)
(***************************************************************************)
EXTENDS UploadProofs, WellFoundedInduction

----------------------------------------------------------------------------
(***************************************************************************)
(* Numbers.                                                                *)
(***************************************************************************)
\* Of some numbers one is the least.
LEMMA LeastNumber ==
    ASSUME NEW T, T \subseteq Nat, T # {}
    PROVE  \E n \in T : \A m \in T : n <= m
<1>1. PICK n \in T : \A m \in T : <<m, n>> \notin OpToRel(<, Nat)
  BY NatLessThanWellFounded, WFMin
<1>2. \A m \in T : ~(m < n)
  BY <1>1 DEF OpToRel
<1>. QED
  BY <1>2

\* What holds of 0 and passes from each number to the next holds up to N.
LEMMA Reaches ==
    ASSUME NEW N \in Nat, NEW S, 0 \in S,
           \A n \in S : n \in 0..N /\ n < N => n + 1 \in S
    PROVE  \A n \in 0..N : n \in S
<1> DEFINE T == {n \in 0..N : n \notin S}
<1>1. SUFFICES ASSUME T # {} PROVE FALSE
  OBVIOUS
<1>2. PICK n \in T : \A m \in T : n <= m
  <2>1. T \subseteq Nat
    OBVIOUS
  <2> HIDE DEF T
  <2>. QED
    BY <1>1, <2>1, LeastNumber
<1>3. n \in 0..N /\ n \notin S /\ n # 0
  OBVIOUS
<1>4. n - 1 \in 0..N /\ n - 1 < N /\ (n - 1) + 1 = n
  BY <1>3
<1>5. n - 1 \in S
  BY <1>2, <1>4
<1>. QED
  BY <1>3, <1>4, <1>5

----------------------------------------------------------------------------
(***************************************************************************)
(* What the parts of a selection are joined to.                            *)
(***************************************************************************)
\* f joins what is selected of the numbers up to n.
Goes(sel, f, n) ==
    f = [k \in 0..n |-> IF k = 0 THEN <<>> ELSE f[k - 1] \o Chosen(sel, k)]

\* There is such a function up to the largest number, ...
LEMMA Grows ==
    ASSUME NEW sel, NEW n \in Nat, NEW f, Goes(sel, f, n)
    PROVE  \E g : Goes(sel, g, n + 1)
<1> DEFINE g == [k \in 0..(n + 1) |-> IF k <= n THEN f[k] ELSE f[n] \o Chosen(sel, n + 1)]
<1>1. \A k \in 0..n : f[k] = IF k = 0 THEN <<>> ELSE f[k - 1] \o Chosen(sel, k)
  BY DEF Goes
<1>2. ASSUME NEW k \in 0..(n + 1)
      PROVE  g[k] = IF k = 0 THEN <<>> ELSE g[k - 1] \o Chosen(sel, k)
  <2>1. CASE k = 0
    BY <1>1, <2>1
  <2>2. CASE k \in 1..n
    <3>1. k \in 0..n /\ k - 1 \in 0..n /\ k # 0 /\ k - 1 <= n /\ k - 1 \in 0..(n + 1)
      BY <2>2
    <3>2. g[k] = f[k] /\ g[k - 1] = f[k - 1]
      BY <3>1
    <3>. QED
      BY <1>1, <3>1, <3>2
  <2>3. CASE k = n + 1
    <3>1. k - 1 = n /\ k # 0 /\ ~(k <= n) /\ n <= n /\ n \in 0..(n + 1)
      BY <2>3
    <3>2. g[k] = f[n] \o Chosen(sel, n + 1) /\ g[k - 1] = f[n]
      BY <2>3, <3>1
    <3>. QED
      BY <2>3, <3>1, <3>2
  <2>. QED
    BY <2>1, <2>2, <2>3
<1>3. Goes(sel, g, n + 1)
  BY <1>2 DEF Goes
<1>. QED
  BY <1>3

\* ... so JoinedUpTo is one, and goes from number to number.
LEMMA JoinedStep ==
    ASSUME NEW sel
    PROVE  /\ JoinedUpTo(sel)[0] = <<>>
           /\ \A n \in 1..PartCount :
                 JoinedUpTo(sel)[n] = JoinedUpTo(sel)[n - 1] \o Chosen(sel, n)
<1> DEFINE S == {n \in Nat : \E f : Goes(sel, f, n)}
<1>1. 0 \in S
  <2>1. Goes(sel, [k \in 0..0 |-> <<>>], 0)
    BY DEF Goes
  <2>. QED
    BY <2>1
<1>2. \A n \in S : n + 1 \in S
  BY Grows
<1>3. PICK f : Goes(sel, f, PartCount)
  <2>1. PartCount \in Nat /\ PartCount \in 0..PartCount
    BY PartCountAssumption
  <2> HIDE DEF S
  <2>2. PartCount \in S
    BY <1>1, <1>2, <2>1, Reaches
  <2>. QED
    BY <2>2 DEF S
<1>4. Goes(sel, JoinedUpTo(sel), PartCount)
  BY <1>3 DEF Goes, JoinedUpTo
<1>5. ASSUME NEW k \in 0..PartCount
      PROVE  JoinedUpTo(sel)[k]
                 = IF k = 0 THEN <<>> ELSE JoinedUpTo(sel)[k - 1] \o Chosen(sel, k)
  BY <1>4, <1>5 DEF Goes
<1>6. PartCount \in Nat
  BY PartCountAssumption
<1>7. JoinedUpTo(sel)[0] = <<>>
  BY <1>5, <1>6
<1>8. ASSUME NEW n \in 1..PartCount
      PROVE  JoinedUpTo(sel)[n] = JoinedUpTo(sel)[n - 1] \o Chosen(sel, n)
  <2>1. n \in 0..PartCount /\ n # 0
    BY <1>6, <1>8
  <2>. QED
    BY <1>5, <2>1
<1>. QED
  BY <1>7, <1>8

\* What is selected is numbers, each with an ETag.
LEMMA SelectedTypes ==
    ASSUME NEW sel \in Selections
    PROVE  \A k \in DOMAIN sel : sel[k].part \in Int /\ sel[k].etag \in Seq(Bytes)
<1> DEFINE T == [part: Int, etag: Bodies]
<1>1. sel \in Seq(T) /\ \A s \in T : s.part \in Int /\ s.etag \in Seq(Bytes)
  BY BodiesAssumption DEF Selections
<1> HIDE DEF T
<1>2. \A k \in DOMAIN sel : sel[k] \in T
  BY <1>1
<1>. QED
  BY <1>1, <1>2

\* What is chosen is a body or nothing, and so is what is joined.
LEMMA ChosenIsBody ==
    ASSUME NEW sel \in Selections, NEW n
    PROVE  /\ Chosen(sel, n) \in Seq(Bytes)
           /\ (\A k \in DOMAIN sel : sel[k].part # n) => Chosen(sel, n) = <<>>
BY SelectedTypes DEF Chosen

LEMMA JoinedIsBody ==
    ASSUME NEW sel \in Selections
    PROVE  \A n \in 0..PartCount : JoinedUpTo(sel)[n] \in Seq(Bytes)
<1> DEFINE S == {n \in 0..PartCount : JoinedUpTo(sel)[n] \in Seq(Bytes)}
<1>1. PartCount \in Nat
  BY PartCountAssumption
<1>2. 0 \in S
  <2>1. JoinedUpTo(sel)[0] = <<>>
    BY JoinedStep
  <2>2. <<>> \in Seq(Bytes) /\ 0 \in 0..PartCount
    BY <1>1
  <2>. QED
    BY <2>1, <2>2
<1>3. ASSUME NEW n \in S, n < PartCount PROVE n + 1 \in S
  <2>1. n + 1 \in 1..PartCount /\ n + 1 \in 0..PartCount /\ (n + 1) - 1 = n
    BY <1>1, <1>3
  <2>2. JoinedUpTo(sel)[n + 1] = JoinedUpTo(sel)[n] \o Chosen(sel, n + 1)
    BY <2>1, JoinedStep
  <2>3. JoinedUpTo(sel)[n] \in Seq(Bytes) /\ Chosen(sel, n + 1) \in Seq(Bytes)
    BY ChosenIsBody
  <2>4. \A b, c \in Seq(Bytes) : b \o c \in Seq(Bytes)
    OBVIOUS
  <2>5. JoinedUpTo(sel)[n + 1] \in Seq(Bytes)
    BY <2>2, <2>3, <2>4
  <2>. QED
    BY <2>1, <2>5
<1> HIDE DEF S
<1>4. \A n \in 0..PartCount : n \in S
  BY <1>1, <1>2, <1>3, Reaches
<1>. QED
  BY <1>4 DEF S

\* Numbers that are not selected add nothing.
LEMMA JoinedOver ==
    ASSUME NEW sel \in Selections, NEW m \in 0..PartCount, NEW n \in m..PartCount,
           \A k \in DOMAIN sel : sel[k].part <= m \/ n < sel[k].part
    PROVE  JoinedUpTo(sel)[n] = JoinedUpTo(sel)[m]
<1> DEFINE S == {i \in 0..(n - m) : JoinedUpTo(sel)[m + i] = JoinedUpTo(sel)[m]}
<1>1. PartCount \in Nat /\ m \in Nat /\ n \in Nat /\ m <= n /\ n <= PartCount /\ n - m \in Nat
  BY PartCountAssumption
<1>2. 0 \in S
  BY <1>1
<1>3. ASSUME NEW i \in S, i < n - m PROVE i + 1 \in S
  <2>1. /\ m + i \in 0..PartCount /\ m + (i + 1) \in 1..PartCount
        /\ i + 1 \in 0..(n - m) /\ (m + (i + 1)) - 1 = m + i
        /\ m < m + (i + 1) /\ m + (i + 1) <= n
    BY <1>1, <1>3
  <2>2. JoinedUpTo(sel)[m + (i + 1)] = JoinedUpTo(sel)[m + i] \o Chosen(sel, m + (i + 1))
    BY <2>1, JoinedStep
  <2>3. Chosen(sel, m + (i + 1)) = <<>>
    <3>1. ASSUME NEW k \in DOMAIN sel PROVE sel[k].part # m + (i + 1)
      BY <1>1, <2>1
    <3>. QED
      BY <3>1, ChosenIsBody
  <2>4. JoinedUpTo(sel)[m + i] \in Seq(Bytes)
    BY <2>1, JoinedIsBody
  <2>5. \A b \in Seq(Bytes) : b \o <<>> = b
    OBVIOUS
  <2>. QED
    BY <2>1, <2>2, <2>3, <2>4, <2>5
<1> HIDE DEF S
<1>4. n - m \in S
  BY <1>1, <1>2, <1>3, Reaches
<1>5. m + (n - m) = n
  BY <1>1
<1>. QED
  BY <1>4, <1>5 DEF S

\* The next number that is selected adds the part selected under it, if it is
\* the only one.
LEMMA JoinedNext ==
    ASSUME NEW sel \in Selections, NEW m \in 0..PartCount, NEW c \in DOMAIN sel,
           sel[c].part \in 1..PartCount, m < sel[c].part,
           \A k \in DOMAIN sel : k = c \/ sel[k].part <= m \/ sel[c].part < sel[k].part
    PROVE  JoinedUpTo(sel)[sel[c].part] = JoinedUpTo(sel)[m] \o sel[c].etag
<1> DEFINE n == sel[c].part
<1>1. PartCount \in Nat /\ n \in Nat /\ m \in Nat /\ n - 1 \in m..PartCount /\ n \in 1..PartCount
  BY PartCountAssumption
<1>2. \A k \in DOMAIN sel : sel[k].part \in Int
  BY SelectedTypes
<1>3. \A k \in DOMAIN sel : sel[k].part <= m \/ n - 1 < sel[k].part
  BY <1>1, <1>2
<1>4. JoinedUpTo(sel)[n - 1] = JoinedUpTo(sel)[m]
  <2> HIDE DEF n
  <2>. QED
    BY <1>1, <1>3, JoinedOver
<1>5. Chosen(sel, n) = sel[c].etag
  <2>1. \A k \in DOMAIN sel : sel[k].part = n => k = c
    BY <1>1, <1>2
  <2>2. (CHOOSE k \in DOMAIN sel : sel[k].part = n) = c
    BY <2>1
  <2>. QED
    BY <2>2 DEF Chosen
<1>. QED
  BY <1>1, <1>4, <1>5, JoinedStep

----------------------------------------------------------------------------
(***************************************************************************)
(* The calls of others, and those of a completion that join nothing.       *)
(***************************************************************************)
\* Who stands still keeps what it has joined, and nothing it compares it with
\* changes.
LEMMA StandsCompletion ==
    ASSUME PartsInv, NEW q \in Workers, Stands(q), pc[q] # "idle", CompleteAt(q), CompletionAt(q)
    PROVE  CompletionAt(q)'
<1> SUFFICES ASSUME req[q].op = "Complete" PROVE CompletionAt(q)'
  BY DEF CompletionAt, Stands
<1>1. /\ pc'[q] = pc[q] /\ got'[q] = got[q] /\ job'[q] = job[q] /\ req'[q] = req[q]
      /\ Path(q)' = Path(q) /\ Item(q)' = Item(q) /\ Dst(q)' = Dst(q)
      /\ ComesAgain(q)' = ComesAgain(q)
  BY DEF Stands, Path, Item, Dst, ComesAgain
<1>2. Dst(q) \in quiet'[q] =>
         /\ Dst(q) \in quiet[q] /\ acked'[Dst(q)] = acked[Dst(q)]
         /\ Dst(q) \in dirty' <=> Dst(q) \in dirty
  BY DEF Stands
<1>3. Alone(q)' => Alone(q) /\ \A x \in ItemsOf(Path(q)) : kept'[x] = kept[x]
  BY <1>1 DEF Alone, Sure, Stands
<1>4. /\ Path(q) \in ItemsOf(Path(q))
      /\ pc[q] = "CombineData" => Item(q) \in ItemsOf(Path(q))
  BY DEF CompleteAt, Item, ItemsOf
<1>5. TickedAt(q)'
  BY <1>1 DEF CompletionAt, TickedAt
<1>6. JoinedAt(q)'
  BY <1>1, <1>3, <1>4 DEF CompletionAt, JoinedAt
<1>7. HeadersAt(q)'
  BY <1>1, <1>2, <1>3, <1>4 DEF CompletionAt, HeadersAt
<1>8. Dst(q)' \in quiet'[q] => StoredAt(q)'
  BY <1>1, <1>2, <1>3, <1>4 DEF CompletionAt, StoredAt
<1>. QED
  BY <1>5, <1>6, <1>7, <1>8 DEF CompletionAt

\* A completion about which the invariant is known.
Completing(p) == AtOwn(p) /\ req[p].op = "Complete" /\ CompletionAt(p)

\* One that fails has stored nothing to speak of.
LEMMA FailsCompletion ==
    ASSUME NEW p \in Workers, Completing(p), NEW code \in Codes \ {"OK"}, Fail(p, code)
    PROVE  CompletionAt(p)'
<1>1. pc'[p] = "done" /\ got'[p].code # "OK"
  BY DEF Completing, AtOwn, Fail, Finish, Goto, Nothing
<1>. QED
  BY <1>1 DEF CompletionAt, TickedAt, JoinedAt, HeadersAt, StoredAt, CombineCalls, Finishing,
     ObjectPuts

\* The history stays as it is, and so does the request.
Unmoved(p) == job' = job /\ UNCHANGED <<req, acked, dirty, quiet, kept, unsure, calm>>

LEMMA UnmovedIs ==
    ASSUME NEW p \in Workers, Unmoved(p)
    PROVE  /\ Path(p)' = Path(p) /\ Item(p)' = Item(p) /\ Dst(p)' = Dst(p)
           /\ Alone(p)' = Alone(p) /\ ComesAgain(p)' = ComesAgain(p)
BY DEF Unmoved, Path, Item, Dst, Alone, Sure, ComesAgain

\* BucketExists, before readUpload and before HeadObject.
LEMMA BucketKnownCompletion ==
    ASSUME NEW p \in Workers, Completing(p), UploadExists(p) \/ CompleteExists(p)
    PROVE  CompletionAt(p)'
<1>1. CASE Fail(p, "NoSuchBucket")
  BY <1>1, FailsCompletion DEF Codes
<1>2. CASE /\ UNCHANGED got
           /\ \/ pc[p] = "UploadExists" /\ Goto(p, "UploadRead")
              \/ pc[p] = "CompleteExists" /\ Goto(p, "CompleteMeta")
  <2>1. /\ UNCHANGED got
        /\ \/ pc[p] = "UploadExists" /\ pc'[p] = "UploadRead"
           \/ pc[p] = "CompleteExists" /\ pc'[p] = "CompleteMeta"
    BY <1>2 DEF Completing, AtOwn, Goto
  <2>2. Unmoved(p)
    BY DEF UploadExists, CompleteExists, BucketKnown, LookUpload, Look, history, uploadHistory,
       Unmoved
  <2>3. TickedAt(p)'
    BY <2>1, <2>2, UnmovedIs DEF Unmoved, Completing, CompletionAt, TickedAt
  <2>4. JoinedAt(p)'
    BY <2>1, <2>2, UnmovedIs DEF Unmoved, Completing, CompletionAt, JoinedAt, Finishing,
       ObjectPuts
  <2>5. HeadersAt(p)'
    BY <2>1, <2>2, UnmovedIs DEF Unmoved, Completing, CompletionAt, HeadersAt, CombineCalls,
       ObjectPuts
  <2>6. Dst(p)' \in quiet'[p] => StoredAt(p)'
    BY <2>1, <2>2, UnmovedIs DEF Unmoved, Completing, CompletionAt, StoredAt
  <2>. QED
    BY <2>3, <2>4, <2>5, <2>6 DEF CompletionAt
<1>. QED
  BY <1>1, <1>2 DEF UploadExists, CompleteExists, BucketKnown, FailUpload

\* readUpload has the headers from upload.json.
LEMMA UploadReadCompletion ==
    ASSUME PartsInv, NEW p \in Workers, Completing(p), UploadRead(p)
    PROVE  CompletionAt(p)'
<1>1. pc[p] = "UploadRead" /\ Unmoved(p)
  BY DEF UploadRead, LookUpload, Look, history, uploadHistory, Unmoved, Completing, AtOwn
<1>2. CASE \E code \in {"NoSuchUpload", "InternalError"} : Fail(p, code)
  BY <1>2, FailsCompletion DEF Codes
<1>3. CASE Goto(p, AfterRead[req[p].op]) /\ got' = [got EXCEPT ![p].attrs = doc[Path(p)].attrs]
  <2>1. /\ pc'[p] = "CombinedTemp" /\ got'[p].attrs = doc[Path(p)].attrs
        /\ got'[p].body = got[p].body /\ got'[p].etag = got[p].etag
    <3>1. AfterRead[req[p].op] = "CombinedTemp"
      BY DEF Completing, AfterRead
    <3>. QED
      BY <1>3, <3>1, GotDomain DEF Completing, AtOwn, Goto, Nothing
  <2>2. Alone(p) => doc[Path(p)].attrs = kept[Path(p)].attrs
    <3>1. Path(p) \in ItemsOf(Path(p)) /\ Midway(p) = {}
      BY <1>1 DEF ItemsOf, Midway
    <3>. QED
      BY <3>1, FoundCalm DEF Alone, Sure
  <2>3. TickedAt(p)'
    BY <1>1, <2>1, UnmovedIs DEF Unmoved, Completing, CompletionAt, TickedAt
  <2>4. JoinedAt(p)' /\ StoredAt(p)'
    BY <2>1 DEF JoinedAt, StoredAt, Finishing, ObjectPuts
  <2>5. HeadersAt(p)'
    BY <1>1, <2>1, <2>2, UnmovedIs DEF Unmoved, Completing, CompletionAt, HeadersAt, CombineCalls,
       ObjectPuts
  <2>. QED
    BY <2>3, <2>4, <2>5 DEF CompletionAt
<1>. QED
  BY <1>2, <1>3 DEF UploadRead, FailUpload

\* os.CreateTemp for the combined file.
LEMMA CombinedTempCompletion ==
    ASSUME PartsInv, NEW p \in Workers, Completing(p), CompleteAt(p), CombinedTemp(p)
    PROVE  CompletionAt(p)'
<1>1. /\ pc[p] = "CombinedTemp" /\ Unmoved(p) /\ job[p].part = 0
  BY DEF CombinedTemp, CreateTemp, Elsewhere, LookUpload, Look, history, uploadHistory, Unmoved,
     Completing, AtOwn, CompleteAt
<1>2. CASE \E code \in {"InvalidPart", "InternalError"} : Fail(p, code)
  BY <1>2, FailsCompletion DEF Codes
<1>3. CASE Goto(p, "CombineMeta") /\ UNCHANGED got
  <2>1. pc'[p] = "CombineMeta" /\ UNCHANGED got
    BY <1>3 DEF Completing, AtOwn, Goto
  <2>2. /\ job[p].left = DOMAIN job[p].sel /\ job[p].etags = None /\ got[p].body = None
    BY <1>1, PartCountAssumption DEF Completing, CompletionAt, TickedAt
  <2>3. TickedAt(p)' /\ JoinedAt(p)'
    BY <1>1, <2>1, <2>2 DEF Unmoved, TickedAt, JoinedAt, Finishing, ObjectPuts
  <2>4. HeadersAt(p)'
    BY <1>1, <2>1, UnmovedIs DEF Unmoved, Completing, CompletionAt, HeadersAt, CombineCalls,
       ObjectPuts
  <2>5. StoredAt(p)'
    BY <2>1 DEF StoredAt
  <2>. QED
    BY <2>3, <2>4, <2>5 DEF CompletionAt
<1>. QED
  BY <1>2, <1>3 DEF CombinedTemp, CreateTemp, FailUpload

\* The next selected part is ticked off, by its number.
LEMMA CombineMetaCompletion ==
    ASSUME PartsInv, NEW p \in Workers, Completing(p), CombineMeta(p)
    PROVE  CompletionAt(p)'
<1> DEFINE j == job[p]
<1>1. /\ pc[p] = "CombineMeta"
      /\ UNCHANGED <<acked, dirty, quiet, kept, unsure, calm, req>>
  BY DEF Completing, AtOwn, CombineMeta, LookUpload, Look, history, uploadHistory
<1>2. /\ j \in [path: Paths, part: Int, sel: Selections, left: SUBSET Nat,
                etags: Bodies \cup {None}]
      /\ j.left \subseteq DOMAIN j.sel
  BY <1>1 DEF Completing, AtOwn, OwnOK, InHandOK, JobOps
<1>3. PICK k \in DOMAIN j.sel :
         /\ NextSelected(p, k)
         /\ \/ /\ Accepted(p, j.sel[k])
               /\ job' = [job EXCEPT ![p].part = j.sel[k].part, ![p].left = @ \ {k},
                                     ![p].etags = Join(@, j.sel[k].etag)]
               /\ Goto(p, "CombineData") /\ UNCHANGED got
            \/ Fail(p, "InvalidPart")
  BY DEF CombineMeta, FailUpload
<1> DEFINE s == j.sel[k]
           x == <<Path(p), s.part>>
<1>4. CASE Fail(p, "InvalidPart")
  BY <1>4, FailsCompletion DEF Codes
<1>5. CASE /\ Accepted(p, s)
           /\ job' = [job EXCEPT ![p].part = s.part, ![p].left = @ \ {k},
                                 ![p].etags = Join(@, s.etag)]
           /\ Goto(p, "CombineData") /\ UNCHANGED got
  <2>1. pc'[p] = "CombineData" /\ got' = got
    BY <1>5 DEF Completing, AtOwn, Goto
  <2>2. /\ job'[p].path = j.path /\ job'[p].part = s.part /\ job'[p].sel = j.sel
        /\ job'[p].left = j.left \ {k} /\ job'[p].etags = Join(j.etags, s.etag)
    BY <1>2, <1>5 DEF Completing, AtOwn
  <2>3. \A i \in DOMAIN j.sel : j.sel[i].part \in Int /\ j.sel[i].etag \in Seq(Bytes)
    BY <1>2, SelectedTypes
  <2>4. /\ k \in j.left /\ s.part \in 1..PartCount /\ s.part # j.part /\ doc[x] = s.etag
        /\ \A i \in j.left : s.part <= j.sel[i].part
    BY <1>3, <1>5 DEF NextSelected, Accepted, validPartNumber
  <2>5. /\ Path(p)' = Path(p) /\ Item(p)' = x /\ Dst(p)' = Dst(p) /\ Alone(p)' = Alone(p)
    BY <1>1, <2>2 DEF Completing, Path, Item, Dst, Alone, Sure
  <2>6. Alone(p) => kept[x] = s.etag
    <3>1. x \in ItemsOf(Path(p)) /\ Midway(p) = {}
      BY <1>1, <2>4 DEF ItemsOf, Midway
    <3>. QED
      BY <2>4, <3>1, FoundCalm DEF Alone, Sure
  <2>7. \/ /\ j.part = 0 /\ j.left = DOMAIN j.sel /\ j.etags = None
        \/ /\ j.part \in 1..PartCount
           /\ \A i \in DOMAIN j.sel : IF i \in j.left THEN j.part <= j.sel[i].part
                                      ELSE j.sel[i].part <= j.part
           /\ ComesAgain(p) \/ j.etags = JoinedUpTo(j.sel)[j.part]
    BY <1>1 DEF Completing, CompletionAt, TickedAt
  <2>8. (Alone(p) => got[p].body = j.etags)
    BY <1>1 DEF Completing, CompletionAt, JoinedAt
  <2>9. j.part \in 0..PartCount /\ j.part < s.part
    <3>1. j.part \in 0..PartCount /\ j.part <= s.part /\ s.part \in Int
      BY <1>3, <2>3, <2>4, <2>7, PartCountAssumption
    <3>. QED
      BY <2>4, <3>1, PartCountAssumption
  <2>10. \A i \in DOMAIN j.sel : IF i \in j.left \ {k} THEN s.part <= j.sel[i].part
                                 ELSE j.sel[i].part <= s.part
    <3> SUFFICES ASSUME NEW i \in DOMAIN j.sel
                 PROVE  IF i \in j.left \ {k} THEN s.part <= j.sel[i].part
                        ELSE j.sel[i].part <= s.part
      OBVIOUS
    <3>1. j.sel[i].part \in Int
      BY <2>3
    <3>. QED
      BY <1>3, <2>4, <2>7, <2>9, <3>1, PartCountAssumption
  <2>11. ComesAgain(p)' \/ Join(j.etags, s.etag) = JoinedUpTo(j.sel)[s.part]
    <3>1. SUFFICES ASSUME ~ComesAgain(p)'
                   PROVE  Join(j.etags, s.etag) = JoinedUpTo(j.sel)[s.part]
      OBVIOUS
    <3>2. \A i \in j.left \ {k} : j.sel[i].part # s.part
      BY <2>2, <3>1 DEF ComesAgain
    <3>3. ASSUME NEW i \in DOMAIN j.sel
          PROVE  i = k \/ j.sel[i].part <= j.part \/ s.part < j.sel[i].part
      <4>1. j.sel[i].part \in Int
        BY <2>3
      <4>. QED
        BY <1>3, <2>4, <2>7, <3>2, <4>1
    <3>4. JoinedUpTo(j.sel)[s.part] = JoinedUpTo(j.sel)[j.part] \o s.etag
      <4> HIDE DEF j
      <4>. QED
        BY <1>2, <1>3, <2>4, <2>9, <3>3, JoinedNext
    <3>5. s.etag \in Seq(Bytes)
      BY <1>3, <2>3
    <3>6. CASE j.part = 0 /\ j.etags = None
      <4>1. \A e \in Seq(Bytes) : <<>> \o e = e
        OBVIOUS
      <4>2. JoinedUpTo(j.sel)[0] = <<>>
        BY JoinedStep
      <4>. QED
        BY <3>4, <3>5, <3>6, <4>1, <4>2 DEF Join
    <3>7. CASE j.part # 0 /\ j.part \in 1..PartCount
      <4>1. ~ComesAgain(p)
        <5>1. SUFFICES ASSUME NEW i \in j.left, j.sel[i].part = j.part PROVE FALSE
          BY DEF ComesAgain
        <5>. QED
          BY <2>4, <2>9, <5>1, PartCountAssumption
      <4>2. j.etags = JoinedUpTo(j.sel)[j.part]
        BY <2>7, <3>7, <4>1
      <4>3. j.etags # None
        <5>1. j.etags \in Seq(Bytes)
          BY <1>2, <2>9, <4>2, JoinedIsBody
        <5>. QED
          BY <5>1, BodiesAssumption, ValuesAssumption
      <4>. QED
        BY <3>4, <4>2, <4>3 DEF Join
    <3>. QED
      BY <2>7, <3>6, <3>7, PartCountAssumption
  <2> HIDE DEF j, s, x
  <2>12. TickedAt(p)'
    BY <2>1, <2>2, <2>4, <2>10, <2>11 DEF TickedAt
  <2>13. JoinedAt(p)'
    BY <1>1, <2>1, <2>2, <2>5, <2>6, <2>8 DEF JoinedAt, Finishing, ObjectPuts
  <2>14. HeadersAt(p)'
    BY <1>1, <2>1, <2>5 DEF Completing, CompletionAt, HeadersAt, CombineCalls, ObjectPuts
  <2>15. StoredAt(p)'
    BY <2>1 DEF StoredAt
  <2>. QED
    BY <2>12, <2>13, <2>14, <2>15 DEF CompletionAt
<1>. QED
  BY <1>3, <1>4, <1>5

\* Its data is joined to what was read before; after the last one there is
\* nothing left to join.
LEMMA CombineDataCompletion ==
    ASSUME PartsInv, NEW p \in Workers, Completing(p), CombineData(p)
    PROVE  CompletionAt(p)'
<1>1. pc[p] = "CombineData" /\ Unmoved(p)
  BY DEF Completing, AtOwn, CombineData, LookUpload, Look, history, uploadHistory, Unmoved
<1>2. CASE Fail(p, "InvalidPart") \/ Fail(p, "InternalError")
  BY <1>2, FailsCompletion DEF Codes
<1>3. CASE /\ got' = [got EXCEPT ![p].body = Join(@, partData[Item(p)])]
           /\ Goto(p, IF job[p].left = {} THEN "CombinedOpen" ELSE "CombineMeta")
  <2>1. /\ got'[p].body = Join(got[p].body, partData[Item(p)])
        /\ got'[p].attrs = got[p].attrs /\ got'[p].etag = got[p].etag
        /\ pc'[p] = IF job[p].left = {} THEN "CombinedOpen" ELSE "CombineMeta"
    BY <1>3, GotDomain DEF Completing, AtOwn, Goto, Nothing
  <2>2. /\ job[p].sel \in Selections /\ job[p].part \in 1..PartCount
        /\ Item(p) = <<Path(p), job[p].part>> /\ Path(p) \in Paths
    BY <1>1 DEF Completing, AtOwn, OwnOK, InHandOK, UploadAt, CompleteAt, Item, JobOps,
       RequestOK
  <2>3. /\ \A k \in DOMAIN job[p].sel : IF k \in job[p].left THEN job[p].part <= job[p].sel[k].part
                                        ELSE job[p].sel[k].part <= job[p].part
        /\ ComesAgain(p) \/ job[p].etags = JoinedUpTo(job[p].sel)[job[p].part]
    BY <1>1 DEF Completing, CompletionAt, TickedAt
  <2>4. Alone(p) => got'[p].body = job[p].etags
    <3>1. Item(p) \in ItemsOf(Path(p)) /\ Item(p) \in Parts /\ Midway(p) = {}
      BY <1>1, <2>2, ItemFacts DEF Midway
    <3>2. Alone(p) => partData[Item(p)] = kept[Item(p)]
      BY <3>1, FoundCalm DEF Alone, Sure
    <3>3. Alone(p) => job[p].etags = Join(got[p].body, kept[Item(p)])
      BY <1>1 DEF Completing, CompletionAt, JoinedAt
    <3>. QED
      BY <2>1, <3>2, <3>3
  <2>5. job[p].left = {} => job[p].etags = Joined(job[p].sel)
    <3>1. SUFFICES ASSUME job[p].left = {} PROVE job[p].etags = Joined(job[p].sel)
      OBVIOUS
    <3>2. job[p].etags = JoinedUpTo(job[p].sel)[job[p].part]
      BY <2>3, <3>1 DEF ComesAgain
    <3>3. job[p].part \in 0..PartCount /\ PartCount \in job[p].part..PartCount
      BY <2>2, PartCountAssumption
    <3>4. \A k \in DOMAIN job[p].sel : job[p].sel[k].part <= job[p].part
      BY <2>3, <3>1
    <3>5. JoinedUpTo(job[p].sel)[PartCount] = JoinedUpTo(job[p].sel)[job[p].part]
      BY <2>2, <3>3, <3>4, JoinedOver
    <3>. QED
      BY <3>2, <3>5 DEF Joined
  <2>6. TickedAt(p)'
    BY <1>1, <2>1, <2>2, <2>3, UnmovedIs DEF Unmoved, TickedAt
  <2>7. JoinedAt(p)'
    BY <1>1, <2>1, <2>4, <2>5, UnmovedIs DEF Unmoved, JoinedAt, Finishing, ObjectPuts
  <2>8. HeadersAt(p)'
    BY <1>1, <2>1, UnmovedIs DEF Unmoved, Completing, CompletionAt, HeadersAt, CombineCalls,
       ObjectPuts
  <2>9. StoredAt(p)'
    BY <2>1 DEF StoredAt
  <2>. QED
    BY <2>6, <2>7, <2>8, <2>9 DEF CompletionAt
<1>. QED
  BY <1>2, <1>3 DEF CombineData, FailUpload

\* The combined file is opened, and PutObject begins.
LEMMA CombinedOpenCompletion ==
    ASSUME NEW p \in Workers, Completing(p), CombinedOpen(p)
    PROVE  CompletionAt(p)'
<1>1. pc[p] = "CombinedOpen" /\ Unmoved(p)
  BY DEF Completing, AtOwn, CombinedOpen, LookUpload, Look, history, uploadHistory, Unmoved
<1>2. CASE Fail(p, "InternalError")
  BY <1>2, FailsCompletion DEF Codes
<1>3. CASE Goto(p, "PutExists") /\ UNCHANGED got
  <2>1. pc'[p] = "PutExists" /\ got' = got
    BY <1>3 DEF Completing, AtOwn, Goto
  <2>2. TickedAt(p)' /\ StoredAt(p)'
    BY <2>1 DEF TickedAt, StoredAt
  <2>3. JoinedAt(p)'
    BY <1>1, <2>1, UnmovedIs DEF Unmoved, Completing, CompletionAt, JoinedAt, Finishing,
       ObjectPuts
  <2>4. HeadersAt(p)'
    BY <1>1, <2>1, UnmovedIs DEF Unmoved, Completing, CompletionAt, HeadersAt, CombineCalls,
       ObjectPuts
  <2>. QED
    BY <2>2, <2>3, <2>4 DEF CompletionAt
<1>. QED
  BY <1>2, <1>3 DEF CombinedOpen, FailUpload

\* PutObject stores the joined bodies with the headers of the upload, and, the
\* second time, PutMetadata the ETag of the parts.
LEMMA PutsCompletion ==
    ASSUME IInv, PartsInv, NEW p \in Workers, Completing(p), PlainStep(p)
    PROVE  CompletionAt(p)'
<1>1. /\ pc[p] \in ObjectPuts /\ Dst(p) \in Resources
      /\ \/ got'[p] = got[p] /\ pc'[p] \in ObjectPuts /\ acked' = acked
         \/ /\ got'[p] = got[p] /\ pc'[p] = AfterPut(p)
            /\ Commit(p, {Dst(p)}, Version(got[p].body, NewDocument(p)))
         \/ pc'[p] = "done" /\ got'[p].code \in {"NoSuchBucket", "InternalError"}
  BY CompletePuts DEF PlainStep, Completing, PutCalls, ObjectPuts, Resources
<1>2. /\ job' = job /\ UNCHANGED <<req, quiet, kept, unsure, calm>>
      /\ Path(p)' = Path(p) /\ Dst(p)' = Dst(p) /\ Alone(p)' = Alone(p)
  BY OwnStep DEF PlainStep, uploadHistory, Path, Dst, Alone, Sure
<1>3. /\ job[p].etags = Joined(job[p].sel) /\ (Alone(p) => got[p].body = job[p].etags)
      /\ got[p].etag \in {None, [kind |-> "multipart", of |-> job[p].etags]}
      /\ Alone(p) /\ (got[p].etag = None \/ Dst(p) \in quiet[p])
         => got[p].attrs = kept[Path(p)].attrs
  BY <1>1 DEF Completing, CompletionAt, JoinedAt, HeadersAt, Finishing
<1>4. CASE pc'[p] = "done" /\ got'[p].code \in {"NoSuchBucket", "InternalError"}
  BY <1>4 DEF CompletionAt, TickedAt, JoinedAt, HeadersAt, StoredAt, CombineCalls, Finishing,
     ObjectPuts
<1>5. CASE got'[p] = got[p] /\ pc'[p] \in ObjectPuts /\ acked' = acked
  <2>1. TickedAt(p)' /\ StoredAt(p)'
    BY <1>5 DEF TickedAt, StoredAt, ObjectPuts
  <2>2. JoinedAt(p)' /\ HeadersAt(p)'
    BY <1>2, <1>3, <1>5 DEF JoinedAt, HeadersAt, CombineCalls, Finishing, ObjectPuts
  <2>. QED
    BY <2>1, <2>2 DEF CompletionAt
<1>6. CASE /\ got'[p] = got[p] /\ pc'[p] = AfterPut(p)
           /\ Commit(p, {Dst(p)}, Version(got[p].body, NewDocument(p)))
  <2>1. pc'[p] = IF got[p].etag = None THEN "CompleteExists" ELSE "RemoveNames"
    BY <1>6 DEF AfterPut, Completing
  <2>2. TickedAt(p)' /\ JoinedAt(p)' /\ HeadersAt(p)'
    BY <1>2, <1>3, <1>6, <2>1 DEF TickedAt, JoinedAt, HeadersAt, CombineCalls, Finishing,
       ObjectPuts
  <2>3. ASSUME Dst(p) \in quiet[p]
        PROVE  /\ Dst(p) \notin dirty'
               /\ acked'[Dst(p)] = [body |-> got[p].body, attrs |-> got[p].attrs,
                                    etag |-> NewDocument(p).etag]
    BY <1>1, <1>6, <2>3 DEF Commit, Version, NewDocument
  <2>4. got[p].etag # None => NewDocument(p).etag = got[p].etag
    BY DEF NewDocument, Completing
  <2>5. Dst(p) \in quiet[p] => StoredAt(p)'
    <3>1. CASE got[p].etag = None
      BY <1>2, <1>6, <2>1, <2>3, <3>1 DEF StoredAt
    <3>2. CASE got[p].etag # None
      BY <1>2, <1>3, <1>6, <2>1, <2>3, <2>4, <3>2 DEF StoredAt
    <3>. QED
      BY <3>1, <3>2
  <2>. QED
    BY <1>2, <2>2, <2>5 DEF CompletionAt
<1>. QED
  BY <1>1, <1>4, <1>5, <1>6

\* The document that was stored is found, and written again with the ETag of
\* the parts.
LEMMA CompleteMetaCompletion ==
    ASSUME IInv, PartsInv, UploadInv, NEW p \in Workers, Completing(p), CompleteMeta(p)
    PROVE  CompletionAt(p)'
<1>1. pc[p] = "CompleteMeta" /\ Unmoved(p)
  BY DEF Completing, AtOwn, CompleteMeta, LookUpload, Look, history, uploadHistory, Unmoved
<1>2. CASE Fail(p, "InternalError")
  BY <1>2, FailsCompletion DEF Codes
<1>3. CASE /\ Goto(p, "MetaMkdir")
           /\ got' = [got EXCEPT ![p] = [@ EXCEPT
                          !.etag = [kind |-> "multipart", of |-> job[p].etags],
                          !.attrs = meta[Dst(p)].attrs]]
  <2>1. /\ pc'[p] = "MetaMkdir" /\ got'[p].body = got[p].body
        /\ got'[p].etag = [kind |-> "multipart", of |-> job[p].etags]
        /\ got'[p].attrs = meta[Dst(p)].attrs
    BY <1>3, GotDomain DEF Completing, AtOwn, Goto, Nothing
  <2>2. got'[p].etag # None
    <3>1. job[p].etags \in Bodies
      BY <1>1 DEF Completing, AtOwn, OwnOK, InHandOK
    <3>2. [kind |-> "multipart", of |-> job[p].etags] \in ETags
      BY <3>1 DEF ETags
    <3>. QED
      BY <2>1, <3>2, ValuesAssumption
  <2>3. Dst(p) \in quiet[p] => meta[Dst(p)].attrs = got[p].attrs
    <3>1. SUFFICES ASSUME Dst(p) \in quiet[p] PROVE meta[Dst(p)].attrs = got[p].attrs
      OBVIOUS
    <3>2. Dst(p) \in Again(p) /\ Flux(p) = {}
      BY <1>1 DEF Again, Flux
    <3>3. /\ Dst(p) \notin dirty /\ acked[Dst(p)] # None
          /\ \A q \in Workers \ {p} : Dst(p) \notin Flux(q)
      BY <3>1, <3>2 DEF UploadInv, AgainOK
    <3>4. Dst(p) \in Objects
      BY <3>2, AgainIsOwn DEF IInv
    <3>5. Settled(Dst(p))
      BY <3>2, <3>3, <3>4 DEF IInv, DiskInv, AckedStateHolds, Resources
    <3>6. acked[Dst(p)].attrs = got[p].attrs
      BY <1>1, <3>1 DEF Completing, CompletionAt, StoredAt
    <3>. QED
      BY <3>3, <3>4, <3>5, <3>6, NamesAssumption DEF Settled, Version
  <2>4. TickedAt(p)' /\ StoredAt(p)'
    BY <2>1 DEF TickedAt, StoredAt
  <2>5. JoinedAt(p)'
    BY <1>1, <2>1, UnmovedIs DEF Unmoved, Completing, CompletionAt, JoinedAt, Finishing,
       ObjectPuts
  <2>6. /\ got[p].etag = None
        /\ Alone(p) => got[p].attrs = kept[Path(p)].attrs
    BY <1>1 DEF Completing, CompletionAt, HeadersAt, CombineCalls
  <2>7. HeadersAt(p)'
    BY <1>1, <2>1, <2>2, <2>3, <2>6, UnmovedIs DEF Unmoved, HeadersAt, CombineCalls, ObjectPuts
  <2>. QED
    BY <2>4, <2>5, <2>7 DEF CompletionAt
<1>. QED
  BY <1>2, <1>3 DEF CompleteMeta, FailUpload

\* The upload is removed, and the answer is the ETag that was stored.
LEMMA RemovalCompletion ==
    ASSUME PartsInv, NEW p \in Workers, Completing(p),
           RemoveNames(p) \/ RemoveEntry(p) \/ RemoveFolder(p)
    PROVE  CompletionAt(p)'
<1>1. /\ pc[p] \in {"RemoveNames", "RemoveEntries"} /\ job' = job
      /\ UNCHANGED <<req, acked, dirty, quiet>> /\ Dst(p)' = Dst(p)
  BY DEF Completing, AtOwn, RemoveNames, RemoveEntry, RemoveFolder, Elsewhere, history, Dst
<1>2. Dst(p) \in quiet[p] => Dst(p) \notin dirty /\ got[p].etag = acked[Dst(p)].etag
  BY <1>1 DEF Completing, CompletionAt, StoredAt
<1>3. CASE Fail(p, "InternalError")
  BY <1>3, FailsCompletion DEF Codes
<1>4. CASE pc'[p] \in {"RemoveEntries", "done"} /\ got'[p].etag = got[p].etag
  <2>1. TickedAt(p)' /\ JoinedAt(p)' /\ HeadersAt(p)'
    BY <1>4 DEF TickedAt, JoinedAt, HeadersAt, CombineCalls, Finishing, ObjectPuts
  <2>2. Dst(p)' \in quiet'[p] => StoredAt(p)'
    BY <1>1, <1>2, <1>4 DEF StoredAt
  <2>. QED
    BY <2>1, <2>2 DEF CompletionAt
<1>5. RemoveNames(p) \/ RemoveEntry(p) => pc'[p] = "RemoveEntries" /\ got' = got
  BY DEF RemoveNames, RemoveEntry, Goto, Completing, AtOwn
<1>6. Succeed(p) => pc'[p] = "done" /\ got'[p].etag = got[p].etag
  BY GotDomain DEF Succeed, Finish, Goto, Completing, AtOwn, Nothing
<1>. QED
  BY <1>3, <1>4, <1>5, <1>6 DEF RemoveFolder, FailUpload

----------------------------------------------------------------------------
(***************************************************************************)
(* The whole server.                                                       *)
(***************************************************************************)
\* A completion makes a call.
LEMMA WorkCompletion ==
    ASSUME ServerInv, NEW p \in Workers, UploadStep(p) \/ PlainStep(p),
           req[p].op = "Complete", CompletionAt(p)
    PROVE  CompletionAt(p)'
<1>1. IInv /\ PartsInv /\ UploadInv
  BY DEF ServerInv
<1>2. AtOwn(p) /\ Completing(p) /\ CompleteAt(p)
  <2>1. AtOwn(p)
    BY <1>1, OwnAt DEF JobOps
  <2>. QED
    BY <2>1 DEF Completing, AtOwn, OwnOK, UploadAt
<1>3. CASE PlainStep(p)
  BY <1>1, <1>2, <1>3, PutsCompletion
<1>4. CASE UploadExists(p) \/ UploadRead(p) \/ CombinedTemp(p) \/ CombineMeta(p)
  BY <1>1, <1>2, <1>4, BucketKnownCompletion, UploadReadCompletion, CombinedTempCompletion,
     CombineMetaCompletion
<1>5. CASE CombineData(p) \/ CombinedOpen(p) \/ CompleteExists(p) \/ CompleteMeta(p)
  BY <1>1, <1>2, <1>5, CombineDataCompletion, CombinedOpenCompletion, BucketKnownCompletion,
     CompleteMetaCompletion
<1>6. CASE RemoveNames(p) \/ RemoveEntry(p) \/ RemoveFolder(p)
  BY <1>1, <1>2, <1>6, RemovalCompletion
<1>7. ~(\/ UploadBucket(p) \/ UploadMkdir(p) \/ DocOpen(p) \/ DocWrite(p) \/ PartNumber(p)
        \/ PartTemp(p) \/ PartCopy(p) \/ PartRename(p) \/ SweepUploads(p) \/ RmdirUploads(p)
        \/ PartsScan(p) \/ PartsRead(p) \/ UploadsExists(p) \/ UploadsScan(p)
        \/ UploadsRead(p))
  <2>1. UploadControlAt("Complete", pc[p])
    BY <1>2 DEF AtOwn, RequestOK
  <2>2. /\ ~(UploadBucket(p) \/ UploadMkdir(p) \/ DocOpen(p) \/ DocWrite(p) \/ PartNumber(p))
        /\ ~(PartTemp(p) \/ PartCopy(p) \/ PartRename(p))
    BY <2>1 DEF UploadControlAt, UploadBucket, BucketKnown, UploadMkdir, DocOpen, DocWrite,
       PartNumber, PartTemp, PartCopy, PartRename, PartOps
  <2>3. /\ ~(SweepUploads(p) \/ RmdirUploads(p) \/ PartsScan(p) \/ PartsRead(p))
        /\ ~(UploadsExists(p) \/ UploadsScan(p) \/ UploadsRead(p))
    BY <2>1 DEF UploadControlAt, SweepUploads, RmdirUploads, PartsScan, PartsRead,
       UploadsExists, BucketKnown, UploadsScan, UploadsRead, SweepCalls
  <2>. QED
    BY <2>2, <2>3
<1>. QED
  BY <1>3, <1>4, <1>5, <1>6, <1>7 DEF UploadStep

\* A completion that begins has ticked off and joined nothing.
LEMMA BeginCompletion ==
    ASSUME PartsInv, NEW p \in Workers, NEW r, NEW j, Sendable(r, j), BeginUpload(p, r, j)
    PROVE  CompletionAt(p)'
<1>1. /\ pc'[p] = FirstCall[r.op] /\ req'[p] = r /\ job'[p] = j
      /\ got'[p].body = r.up /\ got'[p].etag = None
  BY GotDomain DEF BeginUpload, Begin, Goto, PartsInv, Tables, Nothing
<1>2. SUFFICES ASSUME r.op = "Complete" PROVE CompletionAt(p)'
  BY <1>1 DEF CompletionAt
<1>3. FirstCall[r.op] = "UploadExists"
  BY <1>2 DEF FirstCall
<1>4. r.up = None
  BY <1>2, SentIs DEF IsRequest
<1>5. j.part = 0 /\ j.left = DOMAIN j.sel /\ j.etags = None
  <2>1. ~(r \in Requests /\ j = None)
    BY <1>2, RequestsAssumption DEF Ops, Readers, Writers, Deleters, BucketOps
  <2>2. PICK c \in Calls : r = c.req /\ j = c.job /\ IsCall(c)
    BY <2>1, CallsAssumption DEF Sendable
  <2>. QED
    BY <1>2, <2>2 DEF IsCall, Jobs
<1>6. TickedAt(p)'
  BY <1>1, <1>3, <1>4, <1>5 DEF TickedAt
<1>7. JoinedAt(p)' /\ HeadersAt(p)' /\ StoredAt(p)'
  BY <1>1, <1>3 DEF JoinedAt, HeadersAt, StoredAt, CombineCalls, Finishing, ObjectPuts
<1>. QED
  BY <1>6, <1>7 DEF CompletionAt

\* Whatever happens, a completion keeps to its invariant.
LEMMA CompletionNext ==
    ASSUME ServerInv, ServerInv', CompletionInv, [UploadNext]_uploadVars
    PROVE  CompletionInv'
<1>1. SUFFICES ASSUME NEW q \in Workers, pc'[q] # "idle" PROVE CompletionAt(q)'
  BY DEF CompletionInv
<1>2. IInv /\ PartsInv /\ UploadInv
  BY DEF ServerInv
<1>3. ASSUME Stands(q) PROVE CompletionAt(q)'
  <2>1. pc[q] # "idle" /\ CompletionAt(q) /\ CompleteAt(q)
    BY <1>1, <1>2, <1>3 DEF Stands, CompletionInv, UploadInv, UploadAt
  <2>. QED
    BY <1>2, <1>3, <2>1, StandsCompletion
<1>4. ASSUME NEW p \in Workers, UploadStep(p) \/ PlainStep(p) PROVE CompletionAt(q)'
  <2>1. Frame(p)
    BY <1>2, <1>4, UploadStepFrame, PlainFrameIs
  <2>2. CASE q # p
    BY <1>2, <1>3, <2>1, <2>2, FrameStands
  <2>3. CASE q = p /\ req[p].op = "Complete"
    <3>1. CompletionAt(p)
      BY <2>1 DEF Frame, Active, CompletionInv
    <3>. QED
      BY <1>4, <2>3, <3>1, WorkCompletion
  <2>4. CASE q = p /\ req[p].op # "Complete"
    BY <2>1, <2>4 DEF Frame, CompletionAt
  <2>. QED
    BY <2>2, <2>3, <2>4
<1>5. ASSUME NEW p \in Workers, NEW r, NEW j, Sendable(r, j), BeginUpload(p, r, j)
      PROVE  CompletionAt(q)'
  <2>1. IsRequest(r)
    BY <1>5, SentIs
  <2>. QED
    BY <1>2, <1>3, <1>5, <2>1, BetweenStands, BeginCompletion
<1>6. ASSUME NEW p \in Workers, RespondUpload(p) PROVE CompletionAt(q)'
  <2>1. pc'[p] = "idle"
    BY <1>2, <1>6 DEF RespondUpload, Respond, Goto, PartsInv, Tables
  <2>. QED
    BY <1>1, <1>2, <1>3, <1>6, <2>1, BetweenStands
<1>7. ~CrashUpload
  BY <1>1 DEF CrashUpload, Crash
<1>8. CASE UNCHANGED uploadVars
  BY <1>3, <1>8 DEF Stands, uploadVars, vars, uploadHistory
<1>9. ASSUME NEW p \in Workers, NEW r \in Requests, BeginUpload(p, r, None)
      PROVE  CompletionAt(q)'
  BY <1>5, <1>9 DEF Sendable
<1>10. ASSUME NEW p \in Workers, NEW c \in Calls, BeginUpload(p, c.req, c.job)
       PROVE  CompletionAt(q)'
  BY <1>5, <1>10 DEF Sendable
<1>. QED
  BY <1>4, <1>6, <1>7, <1>8, <1>9, <1>10 DEF UploadNext

\* Every completion that is under way has joined, so far, just what was
\* selected, and has stored it once it is past PutObject.
THEOREM CompletionInvariant == UploadSpec => []CompletionInv
<1>1. UploadInit => CompletionInv
  BY DEF UploadInit, InitWith, CompletionInv
<1>2. ServerInv /\ ServerInv' /\ CompletionInv /\ [UploadNext]_uploadVars => CompletionInv'
  BY CompletionNext
<1>. QED
  BY <1>1, <1>2, ServerInvariant, PTL DEF UploadSpec

\* A completion that nothing overlaps makes the object out of exactly the
\* selected parts, in the order of their numbers, with the headers of the
\* upload and the ETag of those parts, and answers with this ETag.
THEOREM CompletesAreExactCorrect == UploadSpec => []CompletesAreExact
<1>1. ASSUME ServerInv, CompletionInv PROVE CompletesAreExact
  <2> SUFFICES ASSUME NEW p \in Workers, req[p] # None, req[p].op = "Complete",
                      Dst(p) \in quiet[p]
               PROVE  LET whole == Joined(job[p].sel) IN
                      /\ pc[p] = "RemoveNames" /\ Sure(p, ItemsOf(Path(p)))
                         => /\ Dst(p) \notin dirty
                            /\ acked[Dst(p)] = [body |-> whole, attrs |-> kept[Path(p)].attrs,
                                                etag |-> [kind |-> "multipart", of |-> whole]]
                      /\ Answered(p, "Complete", "OK")
                         => Dst(p) \notin dirty /\ got[p].etag = acked[Dst(p)].etag
    BY DEF CompletesAreExact
  <2>1. pc[p] # "idle"
    BY <1>1 DEF ServerInv, IInv, TypeInv, TypesOK, ServersOK
  <2>2. StoredAt(p)
    BY <1>1, <2>1 DEF CompletionInv, CompletionAt
  <2>. QED
    BY <2>2 DEF StoredAt, Alone, Answered
<1>. QED
  BY <1>1, ServerInvariant, CompletionInvariant, PTL

=============================================================================
