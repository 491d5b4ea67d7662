------------------------ MODULE SwiftUITasks_proofs ------------------------
(***************************************************************************)
(* Proofs about SwiftUITasks, for any names, times and documents, any      *)
(* screen and any set of failures.                                         *)
(***************************************************************************)
EXTENDS SwiftUITasks, SequenceLemmas, FiniteSetTheorems, TLAPS

(***************************************************************************)
(* The inductive invariant.                                                *)
(***************************************************************************)
Gone == Range(disappeared)

\* An id is handed out once and saved under once, before the server has a
\* document for it; what a pending delete finds there, or will find when an
\* earlier save arrives, is a task whose row has disappeared.
StoreOK(ms, srv, us, gone) ==
  /\ \A id \in DocIds : srv[id] # NoDoc => id \in us
  /\ \A k \in 1..Len(ms) : ms[k].id \in us
  /\ \A k \in 1..Len(ms) : ms[k].entry # NoDoc =>
       /\ srv[ms[k].id] = NoDoc
       /\ \A j \in 1..Len(ms) : ms[j].id = ms[k].id /\ ms[j].entry # NoDoc => j = k
  /\ \A k \in 1..Len(ms) : ms[k].entry = NoDoc =>
       /\ srv[ms[k].id] # NoDoc => srv[ms[k].id] \in gone
       /\ \A j \in 1..Len(ms) : ms[j].id = ms[k].id /\ ms[j].entry # NoDoc => ms[j].entry \in gone

\* Unless something raced, a completion of Save finds the texts it saved.
ReadsOK(ms, dr, race) ==
  \A k \in 1..Len(ms) :
    /\ ms[k].reads = <<"none">> <=> ms[k].entry = NoDoc
    /\ ~race /\ ms[k].reads = <<"form">> => ms[k].entry = dr
    /\ ~race => \A d \in Draft : ms[k].reads = <<"left", d>> => ms[k].entry = d

\* What a row may show: a task whose row has disappeared, or one the server has.
Shown(srv, gone) == {t \in Draft : t \in gone \/ \E id \in DocIds : srv[id] = t}

RowsOK == ~raced => Alltasks \in Seq(Shown(server, Gone))

\* So may the documents that loadTasks is about to append.
LoadOK ==
  ~raced => \A id \in DocIds : snapshot[id] # NoDoc => snapshot[id] \in Shown(server, Gone)

\* The documents that may be deleted: whatever they are, or will be when an
\* earlier save arrives, a row with these texts has disappeared.
Doomed(ms, srv, us, gone) ==
  {id \in DocIds :
     /\ id \in us
     /\ srv[id] # NoDoc => srv[id] \in gone
     /\ \A j \in 1..Len(ms) : ms[j].id = id /\ ms[j].entry # NoDoc => ms[j].entry \in gone}

\* A delete was started by a row that disappeared, and has found only those.
GoodQueries(gone, doomed) == {q \in Query : q.temp \in gone /\ q.found \subseteq doomed}
QueriesOK == queries \in Seq(GoodQueries(Gone, Doomed(mutations, server, used, Gone)))

IInv ==
  /\ TypeOK /\ StoreOK(mutations, server, used, Gone)
  /\ ReadsOK(mutations, draft, raced) /\ RowsOK /\ LoadOK /\ QueriesOK

-----------------------------------------------------------------------------
(***************************************************************************)
(* The pending writes.                                                     *)
(***************************************************************************)

\* The fields of a write, and the three places its completion can read.
LEMMA WriteFields ==
  ASSUME NEW w \in Write
  PROVE  /\ w.id \in DocIds /\ w.entry \in Task \cup {NoDoc}
         /\ w.reads = <<"form">> \/ w.reads = <<"none">> \/ \E d \in Draft : w.reads = <<"left", d>>
BY DEF Write

LEMMA ReadsDiffer ==
  /\ <<"form">> # <<"none">>
  /\ \A d : <<"left", d>> # <<"form">> /\ <<"left", d>> # <<"none">> /\ <<"left", d>>[2] = d
  /\ \A d, e : <<"left", d>> = <<"left", e>> => d = e
<1>1. \A d : <<"left", d>>[1] = "left" /\ <<"left", d>>[2] = d
  OBVIOUS
<1>2. <<"form">>[1] = "form" /\ <<"none">>[1] = "none"
  OBVIOUS
<1>3. "left" # "form" /\ "left" # "none" /\ "form" # "none"
  OBVIOUS
<1>4. \A d, e : <<"left", d>> = <<"left", e>> => d = e
  BY <1>1
<1> QED BY <1>1, <1>2, <1>3, <1>4

LEMMA TasksAreDrafts ==
  Task \subseteq Draft /\ NoDoc \notin Task /\ Empty \in Draft
BY NoDocAssumption DEF Task, Draft, Empty

LEMMA WritesAre ==
  ASSUME NEW ms \in Seq(Write)
  PROVE  Len(ms) \in Nat /\ DOMAIN ms = 1..Len(ms) /\ \A k \in 1..Len(ms) : ms[k] \in Write
BY LenProperties, ElementOfSeq

\* More rows may disappear.
LEMMA GoneGrows ==
  ASSUME NEW ms, NEW srv, NEW us, NEW gone, NEW more, gone \subseteq more,
         StoreOK(ms, srv, us, gone)
  PROVE  StoreOK(ms, srv, us, more)
BY DEF StoreOK

\* The form leaves: only what the completions read changes.
LEMMA FormLeftIs ==
  ASSUME NEW ms \in Seq(Write), draft \in Draft
  PROVE  /\ FormLeft(ms) \in Seq(Write) /\ Len(FormLeft(ms)) = Len(ms)
         /\ \A k \in 1..Len(ms) :
              /\ FormLeft(ms)[k].id = ms[k].id /\ FormLeft(ms)[k].entry = ms[k].entry
              /\ FormLeft(ms)[k].reads =
                   IF ms[k].reads = <<"form">> THEN <<"left", draft>> ELSE ms[k].reads
<1> DEFINE l == Len(ms)
           f == FormLeft(ms)
<1>1. l \in Nat /\ DOMAIN ms = 1..l /\ \A k \in 1..l : ms[k] \in Write
  BY WritesAre
<1>2. \A k \in 1..l : f[k] = IF ms[k].reads = <<"form">>
                             THEN [ms[k] EXCEPT !.reads = <<"left", draft>>] ELSE ms[k]
  BY <1>1 DEF FormLeft
<1>3. ASSUME NEW k \in 1..l
      PROVE  /\ f[k] \in Write /\ f[k].id = ms[k].id /\ f[k].entry = ms[k].entry
             /\ f[k].reads = IF ms[k].reads = <<"form">> THEN <<"left", draft>> ELSE ms[k].reads
  <2>1. <<"left", draft>> \in {<<"left", d>> : d \in Draft}
    OBVIOUS
  <2> DEFINE x == <<"left", draft>>
             R == {<<"form">>, <<"none">>} \cup {<<"left", d>> : d \in Draft}
             form == <<"form">>
  <2>2. x \in R
    BY <2>1
  <2>3. ms[k] \in [id : DocIds, entry : Task \cup {NoDoc}, reads : R]
    BY <1>1 DEF Write
  <2>4. f[k] = IF ms[k].reads = form THEN [ms[k] EXCEPT !.reads = x] ELSE ms[k]
    BY <1>2
  <2> HIDE DEF x, R, f, form
  <2>5. /\ f[k] \in [id : DocIds, entry : Task \cup {NoDoc}, reads : R]
        /\ f[k].id = ms[k].id /\ f[k].entry = ms[k].entry
        /\ f[k].reads = IF ms[k].reads = form THEN x ELSE ms[k].reads
    BY <2>2, <2>3, <2>4
  <2> QED BY <2>5 DEF x, R, Write, form
<1>4. f \in [1..l -> Write]
  <2>1. f = [k \in 1..l |-> f[k]]
    BY <1>1 DEF FormLeft
  <2> HIDE DEF f
  <2> QED BY <1>3, <2>1
<1>5. f \in Seq(Write) /\ Len(f) = l
  <2> HIDE DEF f, l
  <2> QED BY <1>1, <1>4, FcnIsSeq
<1> QED BY <1>3, <1>5

LEMMA StoreAlike ==
  ASSUME NEW ms, NEW ns, NEW srv, NEW us, NEW gone, StoreOK(ms, srv, us, gone),
         Len(ns) = Len(ms),
         \A k \in 1..Len(ms) : ns[k].id = ms[k].id /\ ns[k].entry = ms[k].entry
  PROVE  StoreOK(ns, srv, us, gone)
BY DEF StoreOK

\* A save takes an id that was never handed out.
LEMMA StoreSaved ==
  ASSUME NEW ms \in Seq(Write), NEW srv, NEW us, NEW gone, StoreOK(ms, srv, us, gone),
         NEW w \in Write, w.entry # NoDoc, w.id \notin us
  PROVE  StoreOK(Append(ms, w), srv, us \cup {w.id}, gone)
<1> DEFINE n == Len(ms)
           a == Append(ms, w)
<1>1. n \in Nat /\ Len(a) = n + 1 /\ a[n + 1] = w /\ \A k \in 1..n : a[k] = ms[k]
  BY AppendParts
<1>2. \A k \in 1..(n + 1) : k \in 1..n \/ k = n + 1
  BY <1>1
<1>3. \A k \in 1..n : ms[k].id \in us /\ ms[k].id # w.id
  BY DEF StoreOK
<1>4. srv[w.id] = NoDoc
  BY WriteFields DEF StoreOK
<1> HIDE DEF n, a
<1>5. \A id \in DocIds : srv[id] # NoDoc => id \in us \cup {w.id}
  BY DEF StoreOK
<1>6. ASSUME NEW k \in 1..(n + 1) PROVE a[k].id \in us \cup {w.id}
  BY <1>1, <1>2, <1>3
<1>7. ASSUME NEW k \in 1..(n + 1), a[k].entry # NoDoc
      PROVE  /\ srv[a[k].id] = NoDoc
             /\ \A j \in 1..(n + 1) : a[j].id = a[k].id /\ a[j].entry # NoDoc => j = k
  <2>1. CASE k = n + 1
    BY <1>1, <1>2, <1>3, <1>4, <2>1
  <2>2. CASE k \in 1..n
    BY <1>1, <1>2, <1>3, <1>7, <2>2 DEF StoreOK, n
  <2> QED BY <1>2, <2>1, <2>2
<1>8. ASSUME NEW k \in 1..(n + 1), a[k].entry = NoDoc
      PROVE  /\ srv[a[k].id] # NoDoc => srv[a[k].id] \in gone
             /\ \A j \in 1..(n + 1) : a[j].id = a[k].id /\ a[j].entry # NoDoc => a[j].entry \in gone
  <2>1. k \in 1..n
    BY <1>1, <1>2, <1>8
  <2> QED BY <1>1, <1>2, <1>3, <1>8, <2>1 DEF StoreOK, n
<1>9. StoreOK(a, srv, us \cup {w.id}, gone)
  BY <1>1, <1>5, <1>6, <1>7, <1>8 DEF StoreOK
<1> QED BY <1>9 DEF a

\* A delete is for a document with the texts of a row that disappeared.
LEMMA StoreDeleted ==
  ASSUME NEW ms \in Seq(Write), NEW srv, NEW us, NEW gone, StoreOK(ms, srv, us, gone),
         NEW ds \in Seq(Write),
         \A k \in 1..Len(ds) :
           /\ ds[k].entry = NoDoc /\ ds[k].id \in us
           /\ srv[ds[k].id] # NoDoc => srv[ds[k].id] \in gone
           /\ \A j \in 1..Len(ms) : ms[j].id = ds[k].id /\ ms[j].entry # NoDoc => ms[j].entry \in gone
  PROVE  StoreOK(ms \o ds, srv, us, gone)
<1> DEFINE n == Len(ms)
           m == Len(ds)
           a == ms \o ds
<1>1. /\ n \in Nat /\ m \in Nat /\ Len(a) = n + m /\ \A k \in 1..n : a[k] = ms[k]
      /\ \A k \in 1..m : a[n + k] = ds[k]
  BY ConcatParts
<1> HIDE DEF n, m, a
<1>2. \A k \in 1..(n + m) : a[k].entry # NoDoc => k \in 1..n /\ a[k] = ms[k]
  <2> SUFFICES ASSUME NEW k \in 1..(n + m), a[k].entry # NoDoc, k \notin 1..n PROVE FALSE
    BY <1>1
  <2>1. k - n \in 1..m /\ n + (k - n) = k
    BY <1>1
  <2> QED BY <1>1, <2>1 DEF m
<1>3. ASSUME NEW k \in 1..(n + m)
      PROVE  (k \in 1..n /\ a[k] = ms[k]) \/ \E j \in 1..m : a[k] = ds[j]
  <2>1. CASE k \in 1..n
    BY <1>1, <2>1
  <2>2. CASE k \notin 1..n
    <3>1. k - n \in 1..m /\ n + (k - n) = k
      BY <1>1, <2>2
    <3> QED BY <1>1, <3>1
  <2> QED BY <2>1, <2>2
<1>4. ASSUME NEW k \in 1..(n + m) PROVE a[k].id \in us
  BY <1>3 DEF StoreOK, n, m
<1>5. ASSUME NEW k \in 1..(n + m), a[k].entry # NoDoc
      PROVE  /\ srv[a[k].id] = NoDoc
             /\ \A j \in 1..(n + m) : a[j].id = a[k].id /\ a[j].entry # NoDoc => j = k
  BY <1>2, <1>5 DEF StoreOK, n
<1>6. ASSUME NEW k \in 1..(n + m), a[k].entry = NoDoc
      PROVE  /\ srv[a[k].id] # NoDoc => srv[a[k].id] \in gone
             /\ \A j \in 1..(n + m) : a[j].id = a[k].id /\ a[j].entry # NoDoc => a[j].entry \in gone
  <2>1. CASE k \in 1..n /\ a[k] = ms[k]
    BY <1>2, <1>6, <2>1 DEF StoreOK, n
  <2>2. CASE \E j \in 1..m : a[k] = ds[j]
    BY <1>2, <2>2 DEF n, m
  <2> QED BY <1>3, <2>1, <2>2
<1>7. StoreOK(a, srv, us, gone)
  BY <1>1, <1>4, <1>5, <1>6 DEF StoreOK
<1> QED BY <1>7 DEF a

\* The server refuses the oldest write,
LEMMA StoreRefused ==
  ASSUME NEW ms \in Seq(Write), ms # << >>, NEW srv, NEW us, NEW gone, StoreOK(ms, srv, us, gone)
  PROVE  StoreOK(Tail(ms), srv, us, gone)
<1> DEFINE n == Len(ms)
           t == Tail(ms)
<1>1. n \in Nat \ {0} /\ Len(t) = n - 1 /\ \A k \in 1..(n - 1) : t[k] = ms[k + 1]
  BY TailParts
<1> HIDE DEF n, t
<1>2. \A k \in 1..(n - 1) : k + 1 \in 1..n
  BY <1>1
<1>3. \A j, k \in 1..(n - 1) : j + 1 = k + 1 => j = k
  BY <1>1
<1>4. \A id \in DocIds : srv[id] # NoDoc => id \in us
  BY DEF StoreOK
<1>5. \A k \in 1..(n - 1) : t[k].id \in us
  BY <1>1, <1>2 DEF StoreOK, n
<1>6. ASSUME NEW k \in 1..(n - 1), t[k].entry # NoDoc
      PROVE  /\ srv[t[k].id] = NoDoc
             /\ \A j \in 1..(n - 1) : t[j].id = t[k].id /\ t[j].entry # NoDoc => j = k
  BY <1>1, <1>2, <1>3, <1>6 DEF StoreOK, n
<1>7. ASSUME NEW k \in 1..(n - 1), t[k].entry = NoDoc
      PROVE  /\ srv[t[k].id] # NoDoc => srv[t[k].id] \in gone
             /\ \A j \in 1..(n - 1) : t[j].id = t[k].id /\ t[j].entry # NoDoc => t[j].entry \in gone
  <2>1. srv[t[k].id] # NoDoc => srv[t[k].id] \in gone
    BY <1>1, <1>2, <1>7 DEF StoreOK, n
  <2>2. \A j \in 1..(n - 1) : t[j].id = t[k].id /\ t[j].entry # NoDoc => t[j].entry \in gone
    BY <1>1, <1>2, <1>7 DEF StoreOK, n
  <2> QED BY <2>1, <2>2
<1>8. StoreOK(t, srv, us, gone)
  BY <1>1, <1>4, <1>5, <1>6, <1>7 DEF StoreOK
<1> QED BY <1>8 DEF t

\* or takes it: a save meets no document, a delete only one that is to go.
LEMMA StoreTaken ==
  ASSUME NEW ms \in Seq(Write), ms # << >>, NEW srv \in [DocIds -> Task \cup {NoDoc}],
         NEW us, NEW gone, StoreOK(ms, srv, us, gone)
  PROVE  /\ StoreOK(Tail(ms), [srv EXCEPT ![Head(ms).id] = Head(ms).entry], us, gone)
         /\ srv[Head(ms).id] = NoDoc \/ (Head(ms).entry = NoDoc /\ srv[Head(ms).id] \in gone)
<1> DEFINE n == Len(ms)
           t == Tail(ms)
           w == Head(ms)
           new == [srv EXCEPT ![w.id] = w.entry]
<1>1. /\ n \in Nat \ {0} /\ Len(t) = n - 1 /\ \A k \in 1..(n - 1) : t[k] = ms[k + 1]
      /\ w = ms[1] /\ w \in Write /\ t \in Seq(Write)
  BY TailParts
<1>2. w.id \in DocIds /\ w.entry \in Task \cup {NoDoc}
  BY <1>1, WriteFields
<1>3. new[w.id] = w.entry /\ \A id \in DocIds : id # w.id => new[id] = srv[id]
  BY <1>2
<1>4. \A k \in 1..(n - 1) : t[k].id \in DocIds
  <2>1. \A k \in 1..(n - 1) : t[k] \in Write
    BY <1>1, WritesAre
  <2> QED BY <2>1, WriteFields
<1> HIDE DEF n, t, w, new
<1>5. 1 \in 1..n /\ \A k \in 1..(n - 1) : k + 1 \in 1..n /\ k + 1 # 1
  BY <1>1
<1>6. \A j, k \in 1..(n - 1) : j + 1 = k + 1 => j = k
  BY <1>1
<1>7. srv[w.id] = NoDoc \/ (w.entry = NoDoc /\ srv[w.id] \in gone)
  BY <1>1, <1>5 DEF StoreOK, n
<1>8. \A id \in DocIds : new[id] # NoDoc => id \in us
  <2>1. w.id \in us
    BY <1>1, <1>5 DEF StoreOK, n
  <2> QED BY <1>3, <2>1 DEF StoreOK
<1>9. \A k \in 1..(n - 1) : t[k].id \in us
  BY <1>1, <1>5 DEF StoreOK, n
<1>10. ASSUME NEW k \in 1..(n - 1), t[k].entry # NoDoc
       PROVE  /\ new[t[k].id] = NoDoc
              /\ \A j \in 1..(n - 1) : t[j].id = t[k].id /\ t[j].entry # NoDoc => j = k
  <2>1. srv[t[k].id] = NoDoc
    BY <1>1, <1>5, <1>10 DEF StoreOK, n
  <2>2. t[k].id = w.id => w.entry = NoDoc
    BY <1>1, <1>5, <1>10 DEF StoreOK, n
  <2>3. \A j \in 1..(n - 1) : t[j].id = t[k].id /\ t[j].entry # NoDoc => j = k
    BY <1>1, <1>5, <1>6, <1>10 DEF StoreOK, n
  <2> QED BY <1>3, <1>4, <2>1, <2>2, <2>3
<1>11. ASSUME NEW k \in 1..(n - 1), t[k].entry = NoDoc
       PROVE  /\ new[t[k].id] # NoDoc => new[t[k].id] \in gone
              /\ \A j \in 1..(n - 1) : t[j].id = t[k].id /\ t[j].entry # NoDoc => t[j].entry \in gone
  <2>1. srv[t[k].id] # NoDoc => srv[t[k].id] \in gone
    BY <1>1, <1>5, <1>11 DEF StoreOK, n
  <2>2. t[k].id = w.id /\ w.entry # NoDoc => w.entry \in gone
    BY <1>1, <1>5, <1>11 DEF StoreOK, n
  <2>3. ASSUME NEW j \in 1..(n - 1), t[j].id = t[k].id, t[j].entry # NoDoc
        PROVE  t[j].entry \in gone
    <3>1. k + 1 \in 1..n /\ j + 1 \in 1..n /\ t[k] = ms[k + 1] /\ t[j] = ms[j + 1]
      BY <1>1, <1>5
    <3> QED BY <1>11, <2>3, <3>1 DEF StoreOK, n
  <2> QED BY <1>3, <1>4, <2>1, <2>2, <2>3
<1>12. StoreOK(t, new, us, gone)
  BY <1>1, <1>8, <1>9, <1>10, <1>11 DEF StoreOK
<1> QED BY <1>7, <1>12 DEF t, w, new

(***************************************************************************)
(* A document that may be deleted stays one: when more rows disappear,     *)
(***************************************************************************)
LEMMA DoomedGrows ==
  ASSUME NEW ms, NEW srv, NEW us, NEW gone, NEW more, gone \subseteq more
  PROVE  Doomed(ms, srv, us, gone) \subseteq Doomed(ms, srv, us, more)
BY DEF Doomed

\* when the completions read something else,
LEMMA DoomedAlike ==
  ASSUME NEW ms, NEW ns, NEW srv, NEW us, NEW gone, Len(ns) = Len(ms),
         \A k \in 1..Len(ms) : ns[k].id = ms[k].id /\ ns[k].entry = ms[k].entry
  PROVE  Doomed(ms, srv, us, gone) \subseteq Doomed(ns, srv, us, gone)
BY DEF Doomed

\* when another document is saved,
LEMMA DoomedSaved ==
  ASSUME NEW ms \in Seq(Write), NEW srv, NEW us, NEW gone, NEW w \in Write, w.id \notin us
  PROVE  Doomed(ms, srv, us, gone) \subseteq Doomed(Append(ms, w), srv, us \cup {w.id}, gone)
<1> DEFINE n == Len(ms)
           a == Append(ms, w)
<1>1. n \in Nat /\ Len(a) = n + 1 /\ a[n + 1] = w /\ \A k \in 1..n : a[k] = ms[k]
  BY AppendParts
<1>2. \A k \in 1..(n + 1) : k \in 1..n \/ k = n + 1
  BY <1>1
<1> HIDE DEF n, a
<1>3. Doomed(ms, srv, us, gone) \subseteq Doomed(a, srv, us \cup {w.id}, gone)
  BY <1>1, <1>2 DEF Doomed, n
<1> QED BY <1>3 DEF a

\* when deletes are called,
LEMMA DoomedDeleted ==
  ASSUME NEW ms \in Seq(Write), NEW srv, NEW us, NEW gone, NEW ds \in Seq(Write),
         \A k \in 1..Len(ds) : ds[k].entry = NoDoc
  PROVE  Doomed(ms, srv, us, gone) \subseteq Doomed(ms \o ds, srv, us, gone)
<1> DEFINE n == Len(ms)
           m == Len(ds)
           a == ms \o ds
<1>1. /\ n \in Nat /\ m \in Nat /\ Len(a) = n + m /\ \A k \in 1..n : a[k] = ms[k]
      /\ \A k \in 1..m : a[n + k] = ds[k]
  BY ConcatParts
<1> HIDE DEF n, m, a
<1>2. \A k \in 1..(n + m) : a[k].entry # NoDoc => k \in 1..n /\ a[k] = ms[k]
  <2> SUFFICES ASSUME NEW k \in 1..(n + m), a[k].entry # NoDoc, k \notin 1..n PROVE FALSE
    BY <1>1
  <2>1. k - n \in 1..m /\ n + (k - n) = k
    BY <1>1
  <2> QED BY <1>1, <2>1 DEF m
<1>3. Doomed(ms, srv, us, gone) \subseteq Doomed(a, srv, us, gone)
  BY <1>1, <1>2 DEF Doomed, n
<1> QED BY <1>3 DEF a

\* and when the server answers the oldest write.
LEMMA DoomedRefused ==
  ASSUME NEW ms \in Seq(Write), ms # << >>, NEW srv, NEW us, NEW gone
  PROVE  Doomed(ms, srv, us, gone) \subseteq Doomed(Tail(ms), srv, us, gone)
<1> DEFINE n == Len(ms)
           t == Tail(ms)
<1>1. n \in Nat \ {0} /\ Len(t) = n - 1 /\ \A k \in 1..(n - 1) : t[k] = ms[k + 1]
  BY TailParts
<1> HIDE DEF n, t
<1>2. \A k \in 1..(n - 1) : k + 1 \in 1..n
  BY <1>1
<1>3. Doomed(ms, srv, us, gone) \subseteq Doomed(t, srv, us, gone)
  BY <1>1, <1>2 DEF Doomed, n
<1> QED BY <1>3 DEF t

LEMMA DoomedTaken ==
  ASSUME NEW ms \in Seq(Write), ms # << >>, NEW srv \in [DocIds -> Task \cup {NoDoc}],
         NEW us, NEW gone
  PROVE  Doomed(ms, srv, us, gone) \subseteq
           Doomed(Tail(ms), [srv EXCEPT ![Head(ms).id] = Head(ms).entry], us, gone)
<1> DEFINE t == Tail(ms)
           w == Head(ms)
           new == [srv EXCEPT ![w.id] = w.entry]
<1>1. Len(ms) \in Nat \ {0} /\ w = ms[1]
  BY TailParts
<1>2. 1 \in 1..Len(ms)
  BY <1>1
<1>3. \A id \in DocIds : new[id] = IF id = w.id THEN w.entry ELSE srv[id]
  OBVIOUS
<1> HIDE DEF t, w, new
<1>4. ASSUME NEW id \in Doomed(ms, srv, us, gone)
      PROVE  /\ id \in DocIds /\ id \in Doomed(t, srv, us, gone)
             /\ new[id] # NoDoc => new[id] \in gone
  <2>1. id \in DocIds /\ id \in Doomed(t, srv, us, gone)
    BY DoomedRefused DEF Doomed, t
  <2>2. CASE id = w.id
    BY <1>1, <1>2, <1>3, <2>1, <2>2 DEF Doomed
  <2>3. CASE id # w.id
    BY <1>3, <2>1, <2>3 DEF Doomed
  <2> QED BY <2>1, <2>2, <2>3
<1>5. Doomed(ms, srv, us, gone) \subseteq Doomed(t, new, us, gone)
  BY <1>4 DEF Doomed
<1> QED BY <1>5 DEF t, w, new

\* What the completions read, when the oldest write is answered
LEMMA ReadsAnswered ==
  ASSUME NEW ms \in Seq(Write), ms # << >>, NEW dr, NEW race, ReadsOK(ms, dr, race)
  PROVE  ReadsOK(Tail(ms), dr, race)
<1> DEFINE n == Len(ms)
           t == Tail(ms)
<1>1. n \in Nat \ {0} /\ Len(t) = n - 1 /\ \A k \in 1..(n - 1) : t[k] = ms[k + 1]
  BY TailParts
<1> HIDE DEF n, t
<1>2. \A k \in 1..(n - 1) : k + 1 \in 1..n
  BY <1>1
<1>3. ReadsOK(t, dr, race)
  BY <1>1, <1>2 DEF ReadsOK, n
<1> QED BY <1>3 DEF t

\* and when the form leaves.
LEMMA ReadsLeft ==
  ASSUME NEW ms \in Seq(Write), draft \in Draft, NEW race, ReadsOK(ms, draft, race), NEW dr
  PROVE  ReadsOK(FormLeft(ms), dr, race)
<1> DEFINE f == FormLeft(ms)
           form == <<"form">>
           none == <<"none">>
<1>1. /\ Len(f) = Len(ms)
      /\ \A k \in 1..Len(ms) :
           /\ f[k].entry = ms[k].entry
           /\ f[k].reads = IF ms[k].reads = form THEN <<"left", draft>> ELSE ms[k].reads
  BY FormLeftIs
<1>2. /\ form # none /\ \A d : <<"left", d>> # form /\ <<"left", d>> # none
      /\ \A d, e : <<"left", d>> = <<"left", e>> => d = e
  BY ReadsDiffer
<1>3. ASSUME NEW k \in 1..Len(ms)
      PROVE  /\ ms[k].reads = none <=> ms[k].entry = NoDoc
             /\ ~race /\ ms[k].reads = form => ms[k].entry = draft
             /\ ~race => \A d \in Draft : ms[k].reads = <<"left", d>> => ms[k].entry = d
  BY DEF ReadsOK
<1> HIDE DEF f, form, none
<1>4. ASSUME NEW k \in 1..Len(ms)
      PROVE  /\ f[k].reads = none <=> f[k].entry = NoDoc
             /\ ~race /\ f[k].reads = form => f[k].entry = dr
             /\ ~race => \A d \in Draft : f[k].reads = <<"left", d>> => f[k].entry = d
  <2>1. CASE ms[k].reads = form
    <3>1. f[k].reads = <<"left", draft>> /\ f[k].entry = ms[k].entry
      BY <1>1, <2>1
    <3>2. ms[k].entry # NoDoc
      BY <1>2, <1>3, <2>1
    <3>3. ~race => ms[k].entry = draft
      BY <1>3, <2>1
    <3> QED BY <1>2, <3>1, <3>2, <3>3
  <2>2. CASE ms[k].reads # form
    BY <1>1, <1>3, <2>2
  <2> QED BY <2>1, <2>2
<1>5. ReadsOK(f, dr, race)
  BY <1>1, <1>4 DEF ReadsOK, form, none
<1> QED BY <1>5 DEF f

\* A query sees a document of the server or the last pending write for its id.
LEMMA Viewed ==
  ASSUME TypeOK, NEW cached \in SUBSET DocIds, NEW id \in DocIds
  PROVE  \/ \E k \in 1..Len(mutations) :
              mutations[k].id = id /\ QueryView(cached)[id] = mutations[k].entry
         \/ /\ \A k \in 1..Len(mutations) : mutations[k].id # id
            /\ QueryView(cached)[id] = IF id \in cached THEN server[id] ELSE NoDoc
<1> DEFINE n == Len(mutations)
           W == {k \in DOMAIN mutations : mutations[k].id = id}
<1>1. n \in Nat /\ DOMAIN mutations = 1..n
  BY WritesAre DEF TypeOK
<1>2. QueryView(cached)[id] = IF W # {} THEN mutations[Max(W)].entry
                              ELSE IF id \in cached THEN server[id] ELSE NoDoc
  BY DEF QueryView
<1>3. CASE W = {}
  BY <1>1, <1>2, <1>3
<1>4. CASE W # {}
  <2>1. W \in SUBSET (1..n)
    BY <1>1
  <2> HIDE DEF W
  <2>2. \E k \in W : \A j \in W : j <= k
    BY <1>1, <1>4, <2>1, LastPosition
  <2>3. \E k \in W : \A j \in W : k >= j
    BY <1>1, <2>1, <2>2
  <2>4. Max(W) \in W
    BY <2>3 DEF Max
  <2> QED BY <1>1, <1>2, <1>4, <2>4 DEF W
<1> QED BY <1>3, <1>4

LEMMA ViewTyped ==
  ASSUME TypeOK, NEW cached \in SUBSET DocIds, NEW id \in DocIds
  PROVE  QueryView(cached)[id] \in Task \cup {NoDoc}
<1>1. server[id] \in Task \cup {NoDoc}
  BY DEF TypeOK
<1>2. \A k \in 1..Len(mutations) : mutations[k] \in Write
  BY WritesAre DEF TypeOK
<1>3. \A k \in 1..Len(mutations) : mutations[k].entry \in Task \cup {NoDoc}
  BY <1>2, WriteFields
<1> QED BY <1>1, <1>3, Viewed

LEMMA CachesAre ==
  ASSUME NEW cached \in Caches
  PROVE  cached \in SUBSET DocIds
BY DEF Caches

\* The deletes of a set of documents.
LEMMA DeletesAre ==
  ASSUME NEW ids \in SUBSET DocIds
  PROVE  /\ Deletes(ids) \in Seq(Write)
         /\ \A k \in 1..Len(Deletes(ids)) :
              /\ Deletes(ids)[k].id \in ids /\ Deletes(ids)[k].entry = NoDoc
              /\ Deletes(ids)[k].reads = <<"none">>
<1> DEFINE n == Cardinality(ids)
           order == SetToSeq(ids)
           none == <<"none">>
           del == [k \in 1..n |-> [id |-> order[k], entry |-> NoDoc, reads |-> none]]
<1>1. IsFiniteSet(ids)
  BY DocIdsAssumption, FS_Subset
<1>2. n \in Nat /\ ExistsBijection(1..n, ids)
  BY <1>1, FS_CardinalityType
<1>3. \E f \in [1..n -> ids] : IsInjective(f)
  BY <1>2 DEF ExistsBijection, Bijection, Injection
<1>4. order \in [1..n -> ids]
  BY <1>3 DEF SetToSeq
<1> HIDE DEF order, n
<1>5. Deletes(ids) = del
  BY <1>4 DEF Deletes, order
<1>6. \A k \in 1..n : del[k] = [id |-> order[k], entry |-> NoDoc, reads |-> none]
  OBVIOUS
<1>7. none \in {<<"form">>, <<"none">>} \cup {<<"left", d>> : d \in Draft}
  OBVIOUS
<1> HIDE DEF none
<1>8. \A k \in 1..n : /\ del[k].id \in ids /\ del[k].entry = NoDoc /\ del[k].reads = none
                      /\ del[k] \in Write
  BY <1>4, <1>6, <1>7 DEF Write
<1>9. del \in [1..n -> Write]
  <2>1. del = [k \in 1..n |-> del[k]]
    OBVIOUS
  <2> HIDE DEF del
  <2> QED BY <1>8, <2>1
<1> HIDE DEF del
<1>10. del \in Seq(Write) /\ Len(del) = n
  BY <1>2, <1>9, FcnIsSeq
<1> QED BY <1>5, <1>8, <1>10 DEF none

-----------------------------------------------------------------------------
(***************************************************************************)
(* The invariant holds at the start and is kept by every step.             *)
(***************************************************************************)

\* What a row may show stays so when rows disappear and documents do not go.
LEMMA ShownKept ==
  ASSUME NEW srv, NEW new, NEW gone, NEW more, gone \subseteq more,
         \A id \in DocIds : new[id] = srv[id] \/ srv[id] = NoDoc \/ srv[id] \in gone
  PROVE  Shown(srv, gone) \subseteq Shown(new, more)
BY NoDocAssumption DEF Shown

LEMMA RowsKept ==
  ASSUME NEW rows, NEW S, NEW T, S \subseteq T, rows \in Seq(S)
  PROVE  rows \in Seq(T)
BY SeqMonotonic

\* What a loading completion will append may be shown then.
LEMMA LoadKept ==
  ASSUME IInv, snapshot' = snapshot, ~raced' => ~raced,
         Shown(server, Gone) \subseteq Shown(server', Gone')
  PROVE  LoadOK'
BY DEF IInv, LoadOK

\* The queries keep what they have found.
LEMMA QueriesKept ==
  ASSUME NEW qs, NEW gone, NEW more, gone \subseteq more, NEW doomed, NEW larger,
         doomed \subseteq larger, qs \in Seq(GoodQueries(gone, doomed))
  PROVE  qs \in Seq(GoodQueries(more, larger))
<1>1. GoodQueries(gone, doomed) \subseteq GoodQueries(more, larger)
  BY DEF GoodQueries
<1> QED BY <1>1, SeqMonotonic

LEMMA InitIInv ==
  ASSUME Init
  PROVE  IInv
<1>1. /\ server \in [DocIds -> Task \cup {NoDoc}] /\ mutations = << >>
      /\ used = {id \in DocIds : server[id] # NoDoc}
      /\ loading = "idle" /\ snapshot = [id \in DocIds |-> NoDoc]
      /\ queries = << >> /\ Alltasks = << >> /\ clicked = FALSE
      /\ draft = Empty /\ errorInput = FALSE /\ errorDB = FALSE /\ app = "appearing"
      /\ disappeared = << >> /\ raced = FALSE /\ failed = FALSE
  BY DEF Init, Documents, NoSnapshot
<1>2. /\ mutations \in Seq(Write) /\ queries \in Seq(Query)
      /\ Alltasks \in Seq(Draft) /\ disappeared \in Seq(Draft)
  BY <1>1
<1>3. TypeOK
  BY <1>1, <1>2, TasksAreDrafts DEF TypeOK
<1>4. Len(mutations) = 0
  BY <1>1
<1>5. StoreOK(mutations, server, used, Gone) /\ ReadsOK(mutations, draft, raced)
  BY <1>1, <1>4 DEF StoreOK, ReadsOK
<1>6. RowsOK /\ LoadOK /\ QueriesOK
  BY <1>1 DEF RowsOK, LoadOK, QueriesOK
<1> QED BY <1>3, <1>5, <1>6 DEF IInv

\* Steps that leave the store and the rows alone.
LEMMA Idle ==
  ASSUME IInv, TypeOK', UNCHANGED <<storeVars, snapshot, queries, Alltasks, disappeared, raced>>,
         draft' = draft
  PROVE  IInv'
<1>1. /\ server' = server /\ mutations' = mutations /\ used' = used /\ queries' = queries
      /\ Alltasks' = Alltasks /\ disappeared' = disappeared /\ raced' = raced
      /\ snapshot' = snapshot
  BY DEF storeVars
<1>2. Gone' = Gone
  BY <1>1 DEF Gone
<1>3. RowsOK' /\ LoadOK' /\ QueriesOK'
  BY <1>1, <1>2 DEF IInv, RowsOK, LoadOK, QueriesOK
<1> QED BY <1>1, <1>2, <1>3 DEF IInv

LEMMA IdleSteps ==
  ASSUME IInv, onAppear \/ loadFailed \/ ADD_NEW \/ SaveInvalid \/ DismissAlert \/ UNCHANGED vars
  PROVE  IInv'
<1>1. UNCHANGED <<storeVars, snapshot, queries, Alltasks, disappeared, raced, draft>>
  BY DEF onAppear, loadFailed, ADD_NEW, SaveInvalid, DismissAlert, vars, loadVars, formVars, noteVars
<1>2. /\ loading' \in {"idle", "requested", "answered"} /\ clicked' \in BOOLEAN /\ errorInput' \in BOOLEAN
      /\ errorDB' \in BOOLEAN /\ failed' \in BOOLEAN
      /\ app' \in {"appearing", "running", "crashed"}
  BY DEF IInv, TypeOK, onAppear, loadFailed, ADD_NEW, SaveInvalid, DismissAlert, vars, loadVars,
         formVars, noteVars
<1>3. TypeOK'
  BY <1>1, <1>2 DEF IInv, TypeOK, storeVars
<1> QED BY <1>1, <1>3, Idle

LEMMA TypeStep ==
  ASSUME IInv, NEW d \in Typed, Type(d)
  PROVE  IInv'
<1>1. /\ draft' = d /\ raced' = (raced \/ (Saving /\ d # draft))
      /\ server' = server /\ mutations' = mutations /\ used' = used /\ queries' = queries
      /\ Alltasks' = Alltasks /\ disappeared' = disappeared /\ loading' = loading /\ snapshot' = snapshot
      /\ clicked' = clicked /\ errorInput' = errorInput /\ errorDB' = errorDB /\ app' = app
      /\ failed' = failed
  BY DEF Type, storeVars, loadVars
<1>2. d \in Draft
  BY TypedAssumption
<1>3. Gone' = Gone
  BY <1>1 DEF Gone
<1>4. TypeOK'
  BY <1>1, <1>2 DEF IInv, TypeOK
<1>5. RowsOK' /\ LoadOK' /\ QueriesOK'
  BY <1>1, <1>3 DEF IInv, RowsOK, LoadOK, QueriesOK
<1>6. DOMAIN mutations = 1..Len(mutations)
  BY WritesAre DEF IInv, TypeOK
<1>7. ASSUME ~raced'
      PROVE  ~raced /\ \A k \in 1..Len(mutations) : mutations[k].reads = <<"form">> => d = draft
  BY <1>1, <1>6, <1>7 DEF Saving
<1>8. ReadsOK(mutations, d, raced')
  BY <1>7 DEF IInv, ReadsOK
<1> QED BY <1>1, <1>3, <1>4, <1>5, <1>8 DEF IInv

LEMMA SaveStep ==
  ASSUME IInv, saveDataInDtabase
  PROVE  IInv'
<1>1. PICK id \in DocIds \ used :
        /\ used' = used \cup {id}
        /\ mutations' = Append(mutations, [id |-> id, entry |-> draft, reads |-> <<"form">>])
  BY DEF saveDataInDtabase
<1> DEFINE w == [id |-> id, entry |-> draft, reads |-> <<"form">>]
           n == Len(mutations)
<1>2. /\ validateTask(draft) /\ server' = server /\ queries' = queries /\ Alltasks' = Alltasks
      /\ disappeared' = disappeared /\ loading' = loading /\ snapshot' = snapshot /\ draft' = draft
      /\ clicked' = clicked /\ errorInput' = errorInput /\ errorDB' = errorDB /\ app' = app
      /\ failed' = failed /\ raced' = raced
  BY DEF saveDataInDtabase, loadVars, formVars, noteVars
<1>3. draft \in Task /\ draft # NoDoc
  <2>1. draft \in Draft
    BY DEF IInv, TypeOK
  <2>2. draft \in Task
    BY <1>2, <2>1 DEF validateTask, Draft, Task
  <2> QED BY <2>2, TasksAreDrafts
<1>4. w \in Write /\ w.id = id /\ w.entry = draft /\ w.reads = <<"form">>
  <2> DEFINE form == <<"form">>
             R == {<<"form">>, <<"none">>} \cup {<<"left", d>> : d \in Draft}
  <2>1. form \in R
    OBVIOUS
  <2> HIDE DEF form, R
  <2>2. [id |-> id, entry |-> draft, reads |-> form]
          \in [id : DocIds, entry : Task \cup {NoDoc}, reads : R]
    BY <1>3, <2>1
  <2> QED BY <2>2 DEF form, R, Write
<1>5. mutations \in Seq(Write) /\ used \subseteq DocIds
  BY DEF IInv, TypeOK
<1> HIDE DEF w
<1>6. /\ n \in Nat /\ mutations' \in Seq(Write) /\ Len(mutations') = n + 1 /\ mutations'[n + 1] = w
      /\ \A k \in 1..n : mutations'[k] = mutations[k]
  BY <1>1, <1>4, <1>5, AppendParts DEF w
<1>7. TypeOK'
  BY <1>1, <1>2, <1>5, <1>6 DEF IInv, TypeOK
<1>8. Gone' = Gone
  BY <1>2 DEF Gone
<1>9. StoreOK(mutations', server', used', Gone')
  BY <1>1, <1>2, <1>3, <1>4, <1>5, <1>8, StoreSaved DEF IInv, w
<1>10. ReadsOK(mutations', draft', raced')
  <2>1. ASSUME NEW k \in 1..(n + 1)
        PROVE  /\ mutations'[k].reads = <<"none">> <=> mutations'[k].entry = NoDoc
               /\ ~raced /\ mutations'[k].reads = <<"form">> => mutations'[k].entry = draft
               /\ ~raced => \A d \in Draft :
                              mutations'[k].reads = <<"left", d>> => mutations'[k].entry = d
    <3>1. CASE k \in 1..n
      BY <1>6, <3>1 DEF IInv, ReadsOK
    <3>2. CASE k = n + 1
      BY <1>3, <1>4, <1>6, <3>2, ReadsDiffer
    <3> QED BY <1>6, <3>1, <3>2
  <2> QED BY <1>2, <1>6, <2>1 DEF ReadsOK
<1>11. RowsOK' /\ LoadOK'
  BY <1>2, <1>8 DEF IInv, RowsOK, LoadOK
<1>12. QueriesOK'
  <2>1. Doomed(mutations, server, used, Gone) \subseteq Doomed(mutations', server, used', Gone)
    BY <1>1, <1>4, <1>5, DoomedSaved DEF w
  <2> QED BY <1>2, <1>8, <2>1, QueriesKept DEF IInv, QueriesOK
<1> QED BY <1>7, <1>9, <1>10, <1>11, <1>12 DEF IInv

LEMMA CancelStep ==
  ASSUME IInv, Cancel
  PROVE  IInv'
<1>1. /\ clicked' = FALSE /\ draft' = Empty /\ mutations' = FormLeft(mutations)
      /\ server' = server /\ used' = used /\ queries' = queries /\ Alltasks' = Alltasks
      /\ disappeared' = disappeared /\ loading' = loading /\ snapshot' = snapshot /\ errorInput' = errorInput
      /\ errorDB' = errorDB /\ app' = app /\ failed' = failed /\ raced' = raced
  BY DEF Cancel, loadVars, noteVars
<1>2. mutations \in Seq(Write) /\ draft \in Draft
  BY DEF IInv, TypeOK
<1>3. /\ mutations' \in Seq(Write) /\ Len(mutations') = Len(mutations)
      /\ \A k \in 1..Len(mutations) : /\ mutations'[k].id = mutations[k].id
                                      /\ mutations'[k].entry = mutations[k].entry
  BY <1>1, <1>2, FormLeftIs
<1>4. TypeOK'
  BY <1>1, <1>3, TasksAreDrafts DEF IInv, TypeOK
<1>5. Gone' = Gone
  BY <1>1 DEF Gone
<1>6. StoreOK(mutations', server', used', Gone')
  BY <1>1, <1>3, <1>5, StoreAlike DEF IInv
<1>7. ReadsOK(mutations', draft', raced')
  BY <1>1, <1>2, ReadsLeft DEF IInv
<1>8. RowsOK' /\ LoadOK'
  BY <1>1, <1>5 DEF IInv, RowsOK, LoadOK
<1>9. QueriesOK'
  <2>1. Doomed(mutations, server, used, Gone) \subseteq Doomed(mutations', server, used, Gone)
    BY <1>3, DoomedAlike
  <2> QED BY <1>1, <1>5, <2>1, QueriesKept DEF IInv, QueriesOK
<1> QED BY <1>4, <1>6, <1>7, <1>8, <1>9 DEF IInv

LEMMA AckStep ==
  ASSUME IInv, ServerAck
  PROVE  IInv'
<1> DEFINE w == Head(mutations)
           form == <<"form">>
           none == <<"none">>
           text == IF w.reads = form THEN draft ELSE w.reads[2]
           rest == Tail(mutations)
<1>1. /\ mutations # << >> /\ server' = [server EXCEPT ![w.id] = w.entry]
      /\ mutations' = (IF w.reads = form THEN FormLeft(rest) ELSE rest)
      /\ w.reads = none => Alltasks' = Alltasks
      /\ w.reads # none => Alltasks' = Append(Alltasks, text)
      /\ w.reads = form => /\ clicked' = FALSE /\ draft' = Empty
                           /\ errorInput' = FALSE /\ errorDB' = FALSE
      /\ w.reads # form => /\ clicked' = clicked /\ draft' = draft
                           /\ errorInput' = errorInput /\ errorDB' = errorDB
  <2>1. /\ mutations # << >> /\ server' = [server EXCEPT ![w.id] = w.entry]
        /\ IF w.reads = none THEN UNCHANGED <<Alltasks, formVars>> ELSE SaveDone(w)
        /\ mutations' = (IF w.reads = form THEN FormLeft(rest) ELSE rest)
    BY DEF ServerAck
  <2>2. form # none
    BY ReadsDiffer
  <2> HIDE DEF form, none
  <2> QED BY <2>1, <2>2 DEF SaveDone, formVars, form
<1>2. /\ used' = used /\ queries' = queries /\ disappeared' = disappeared /\ loading' = loading /\ snapshot' = snapshot
      /\ app' = app /\ failed' = failed /\ raced' = raced
  BY DEF ServerAck, loadVars, noteVars
<1>3. /\ mutations \in Seq(Write) /\ draft \in Draft /\ Alltasks \in Seq(Draft)
      /\ server \in [DocIds -> Task \cup {NoDoc}]
  BY DEF IInv, TypeOK
<1>4. rest \in Seq(Write) /\ w \in Write /\ w = mutations[1] /\ 1 \in 1..Len(mutations)
  <2>1. rest \in Seq(Write) /\ w \in Write /\ w = mutations[1] /\ Len(mutations) \in Nat \ {0}
    BY <1>1, <1>3, TailParts
  <2> QED BY <2>1
<1>5. /\ w.id \in DocIds /\ w.entry \in Task \cup {NoDoc}
      /\ w.reads = form \/ w.reads = none \/ \E d \in Draft : w.reads = <<"left", d>>
  BY <1>4, WriteFields
<1>6. /\ w.reads = none <=> w.entry = NoDoc
      /\ ~raced /\ w.reads = form => w.entry = draft
      /\ ~raced => \A d \in Draft : w.reads = <<"left", d>> => w.entry = d
  BY <1>4 DEF IInv, ReadsOK
<1> HIDE DEF w, rest, form, none
<1>7. w.reads # none => text \in Draft /\ (~raced => text = w.entry)
  <2>1. CASE w.reads = form
    BY <1>3, <1>6, <2>1
  <2>2. CASE \E d \in Draft : w.reads = <<"left", d>>
    <3>1. PICK d \in Draft : w.reads = <<"left", d>>
      BY <2>2
    <3>2. w.reads[2] = d /\ w.reads # form
      BY <3>1, ReadsDiffer DEF form
    <3> QED BY <1>6, <3>1, <3>2
  <2> QED BY <1>5, <2>1, <2>2
<1> HIDE DEF text
<1>8. /\ StoreOK(rest, server', used, Gone)
      /\ server[w.id] = NoDoc \/ (w.entry = NoDoc /\ server[w.id] \in Gone)
  BY <1>1, <1>3, StoreTaken DEF IInv, rest, w
<1>9. ReadsOK(rest, draft, raced)
  BY <1>1, <1>3, ReadsAnswered DEF IInv, rest
<1>10. /\ mutations' \in Seq(Write) /\ StoreOK(mutations', server', used, Gone)
       /\ ReadsOK(mutations', draft', raced)
       /\ Doomed(mutations, server, used, Gone) \subseteq Doomed(mutations', server', used, Gone)
  <2>0. Doomed(mutations, server, used, Gone) \subseteq Doomed(rest, server', used, Gone)
    BY <1>1, <1>3, DoomedTaken DEF rest, w
  <2>1. CASE w.reads = form
    <3>1. /\ mutations' \in Seq(Write) /\ Len(mutations') = Len(rest)
          /\ \A k \in 1..Len(rest) : /\ mutations'[k].id = rest[k].id
                                     /\ mutations'[k].entry = rest[k].entry
      BY <1>1, <1>3, <1>4, <2>1, FormLeftIs
    <3>2. StoreOK(mutations', server', used, Gone)
      BY <1>8, <3>1, StoreAlike
    <3>3. ReadsOK(mutations', draft', raced)
      BY <1>1, <1>3, <1>4, <1>9, <2>1, ReadsLeft
    <3>4. Doomed(rest, server', used, Gone) \subseteq Doomed(mutations', server', used, Gone)
      BY <3>1, DoomedAlike
    <3> QED BY <2>0, <3>1, <3>2, <3>3, <3>4
  <2>2. CASE w.reads # form
    BY <1>1, <1>4, <1>8, <1>9, <2>0, <2>2
  <2> QED BY <2>1, <2>2
<1>11. /\ server' \in [DocIds -> Task \cup {NoDoc}] /\ server'[w.id] = w.entry
       /\ \A id \in DocIds : id # w.id => server'[id] = server[id]
  BY <1>1, <1>3, <1>5
<1>12. Alltasks' \in Seq(Draft)
  BY <1>1, <1>3, <1>7, AppendParts, SMTT(30)
<1>13. draft' \in Draft /\ clicked' \in BOOLEAN /\ errorInput' \in BOOLEAN /\ errorDB' \in BOOLEAN
  <2>1. CASE w.reads = form
    BY <1>1, <2>1, TasksAreDrafts
  <2>2. CASE w.reads # form
    BY <1>1, <2>2 DEF IInv, TypeOK
  <2> QED BY <2>1, <2>2
<1>14. TypeOK'
  BY <1>2, <1>10, <1>11, <1>12, <1>13 DEF IInv, TypeOK
<1>15. Gone' = Gone
  BY <1>2 DEF Gone
<1>a. Shown(server, Gone) \subseteq Shown(server', Gone)
  <2>1. \A id \in DocIds : server'[id] = server[id] \/ server[id] = NoDoc \/ server[id] \in Gone
    BY <1>8, <1>11
  <2> QED BY <2>1, ShownKept
<1>16. RowsOK'
  <2> SUFFICES ASSUME ~raced PROVE Alltasks' \in Seq(Shown(server', Gone))
    BY <1>2, <1>15 DEF RowsOK
  <2>2. Alltasks \in Seq(Shown(server', Gone))
    <3>1. Alltasks \in Seq(Shown(server, Gone))
      BY DEF IInv, RowsOK
    <3> QED BY <1>a, <3>1, RowsKept
  <2>3. w.reads # none => text \in Shown(server', Gone)
    BY <1>5, <1>7, <1>11 DEF Shown
  <2> QED BY <1>1, <2>2, <2>3, AppendParts
<1>17. QueriesOK'
  BY <1>2, <1>10, <1>15, QueriesKept DEF IInv, QueriesOK
<1>18. LoadOK'
  BY <1>2, <1>a, <1>15, LoadKept
<1> QED BY <1>2, <1>10, <1>14, <1>15, <1>16, <1>17, <1>18 DEF IInv

LEMMA RejectStep ==
  ASSUME IInv, ServerReject
  PROVE  IInv'
<1>1. /\ mutations # << >> /\ mutations' = Tail(mutations) /\ failed' = TRUE
      /\ Alltasks' = Alltasks /\ errorDB' \in {errorDB, ~errorDB}
      /\ server' = server /\ used' = used /\ queries' = queries /\ disappeared' = disappeared
      /\ loading' = loading /\ snapshot' = snapshot /\ clicked' = clicked /\ draft' = draft /\ errorInput' = errorInput
      /\ app' = app /\ raced' = raced
  BY DEF ServerReject, SaveFailed, loadVars
<1>2. mutations \in Seq(Write)
  BY DEF IInv, TypeOK
<1>3. mutations' \in Seq(Write)
  BY <1>1, <1>2, TailParts
<1>4. TypeOK'
  BY <1>1, <1>3 DEF IInv, TypeOK
<1>5. Gone' = Gone
  BY <1>1 DEF Gone
<1>6. StoreOK(mutations', server', used', Gone')
  BY <1>1, <1>2, <1>5, StoreRefused DEF IInv
<1>7. ReadsOK(mutations', draft', raced')
  BY <1>1, <1>2, ReadsAnswered DEF IInv
<1>8. RowsOK' /\ LoadOK'
  BY <1>1, <1>5 DEF IInv, RowsOK, LoadOK
<1>9. QueriesOK'
  <2>1. Doomed(mutations, server, used, Gone) \subseteq Doomed(mutations', server, used, Gone)
    BY <1>1, <1>2, DoomedRefused
  <2> QED BY <1>1, <1>5, <2>1, QueriesKept DEF IInv, QueriesOK
<1> QED BY <1>4, <1>6, <1>7, <1>8, <1>9 DEF IInv

\* A row disappears, and is taken out or not.
LEMMA DisappearStep ==
  ASSUME IInv, NEW i \in DOMAIN Alltasks, SwipeDelete(i) \/ Scroll(i)
  PROVE  IInv'
<1> DEFINE e == Alltasks[i]
           q == [temp |-> e, row |-> i, answered |-> FALSE, found |-> {}]
<1>1. /\ queries' = Append(queries, q) /\ disappeared' = Append(disappeared, e)
      /\ raced' = raced /\ failed' = failed /\ server' = server /\ mutations' = mutations
      /\ used' = used /\ loading' = loading /\ snapshot' = snapshot /\ clicked' = clicked /\ draft' = draft
      /\ errorInput' = errorInput /\ errorDB' = errorDB /\ app' = app
      /\ Alltasks' = Alltasks \/ Alltasks' = RemoveAt(Alltasks, i)
  BY DEF SwipeDelete, Scroll, onDisappear, storeVars, loadVars, formVars
<1>2. Alltasks \in Seq(Draft) /\ disappeared \in Seq(Draft)
  BY DEF IInv, TypeOK
<1>3. i \in 1..Len(Alltasks) /\ i \in Nat \ {0} /\ e \in Draft
  <2>1. i \in 1..Len(Alltasks) /\ Len(Alltasks) \in Nat
    BY <1>2, LenProperties
  <2> QED BY <1>2, <2>1, ElementOfSeq
<1> HIDE DEF e
<1>4. Gone \subseteq Gone' /\ e \in Gone'
  <2> DEFINE n == Len(disappeared)
             a == Append(disappeared, e)
  <2>1. /\ n \in Nat /\ a \in Seq(Draft) /\ Len(a) = n + 1 /\ \A k \in 1..n : a[k] = disappeared[k]
        /\ a[n + 1] = e
    BY <1>2, <1>3, AppendParts
  <2>2. DOMAIN disappeared = 1..n
    BY <1>2, LenProperties
  <2> HIDE DEF a, n
  <2>3. DOMAIN a = 1..(n + 1)
    BY <2>1, LenProperties
  <2>4. n + 1 \in 1..(n + 1) /\ \A k \in 1..n : k \in 1..(n + 1)
    BY <2>1
  <2>5. disappeared' = a
    BY <1>1 DEF a
  <2> QED BY <2>1, <2>2, <2>3, <2>4, <2>5 DEF Gone, Range
<1>5. disappeared' \in Seq(Draft)
  BY <1>1, <1>2, <1>3, AppendParts
<1>6. queries' \in Seq(Query)
  <2>1. queries \in Seq(Query)
    BY DEF IInv, TypeOK
  <2>2. q \in Query
    BY <1>3 DEF Query
  <2> HIDE DEF q
  <2> QED BY <1>1, <2>1, <2>2, AppendParts
<1>7. QueriesOK'
  <2> DEFINE D == Doomed(mutations, server, used, Gone')
  <2>1. queries \in Seq(GoodQueries(Gone', D))
    <3>1. Doomed(mutations, server, used, Gone) \subseteq D
      BY <1>4, DoomedGrows
    <3> QED BY <1>4, <3>1, QueriesKept DEF IInv, QueriesOK
  <2>2. q \in Query /\ q.temp = e /\ q.found = {}
    BY <1>3 DEF Query
  <2> HIDE DEF q, D
  <2>3. q \in GoodQueries(Gone', D)
    BY <1>4, <2>2 DEF GoodQueries
  <2>4. queries' \in Seq(GoodQueries(Gone', D))
    BY <1>1, <2>1, <2>3, AppendParts
  <2> QED BY <1>1, <2>4 DEF QueriesOK, D
<1>8. ASSUME NEW S, Alltasks \in Seq(S) PROVE Alltasks' \in Seq(S)
  BY <1>1, <1>3, <1>8, RemoveAtSeq
<1>9. TypeOK'
  <2>1. Alltasks' \in Seq(Draft)
    BY <1>2, <1>8
  <2> QED BY <1>1, <1>5, <1>6, <2>1 DEF IInv, TypeOK
<1>10. RowsOK'
  <2> SUFFICES ASSUME ~raced PROVE Alltasks' \in Seq(Shown(server, Gone'))
    BY <1>1 DEF RowsOK
  <2>1. Alltasks' \in Seq(Shown(server, Gone))
    BY <1>8 DEF IInv, RowsOK
  <2>2. Shown(server, Gone) \subseteq Shown(server, Gone')
    BY <1>4, ShownKept
  <2> QED BY <2>1, <2>2, RowsKept
<1>11. StoreOK(mutations', server', used', Gone')
  BY <1>1, <1>4, GoneGrows DEF IInv
<1>12. ReadsOK(mutations', draft', raced')
  BY <1>1 DEF IInv
<1>13. LoadOK'
  BY <1>1, <1>4, ShownKept, LoadKept
<1> QED BY <1>7, <1>9, <1>10, <1>11, <1>12, <1>13 DEF IInv

LEMMA MoveStep ==
  ASSUME IInv, NEW i \in DOMAIN Alltasks, NEW j \in DOMAIN Alltasks, MoveRow(i, j)
  PROVE  IInv'
<1> DEFINE without == RemoveAt(Alltasks, i)
<1>1. /\ Alltasks' = InsertAt(without, j, Alltasks[i])
      /\ queries' = queries /\ disappeared' = disappeared
      /\ raced' = raced /\ failed' = failed /\ server' = server /\ mutations' = mutations
      /\ used' = used /\ loading' = loading /\ snapshot' = snapshot /\ clicked' = clicked /\ draft' = draft
      /\ errorInput' = errorInput /\ errorDB' = errorDB /\ app' = app
  BY DEF MoveRow, storeVars, loadVars, formVars, noteVars
<1>2. i \in 1..Len(Alltasks) /\ j \in 1..Len(Alltasks) /\ Len(Alltasks) \in Nat
  BY LenProperties DEF IInv, TypeOK
<1>3. ASSUME NEW S, Alltasks \in Seq(S) PROVE Alltasks' \in Seq(S)
  <2>1. without \in Seq(S) /\ Len(without) = Len(Alltasks) - 1
    BY <1>2, <1>3, RemoveAtSeq
  <2>2. Alltasks[i] \in S
    BY <1>2, <1>3, ElementOfSeq
  <2>3. j \in 1..(Len(without) + 1)
    BY <1>2, <2>1
  <2> HIDE DEF without
  <2> QED BY <1>1, <2>1, <2>2, <2>3, InsertAtSeq
<1>4. TypeOK'
  <2>1. Alltasks' \in Seq(Draft)
    BY <1>3 DEF IInv, TypeOK
  <2> QED BY <1>1, <2>1 DEF IInv, TypeOK
<1>5. Gone' = Gone
  BY <1>1 DEF Gone
<1>6. RowsOK'
  BY <1>1, <1>3, <1>5 DEF IInv, RowsOK
<1>7. QueriesOK' /\ LoadOK'
  BY <1>1, <1>5 DEF IInv, QueriesOK, LoadOK
<1> QED BY <1>1, <1>4, <1>5, <1>6, <1>7 DEF IInv

\* The answer to a load: without a pending write, the documents of the server.
LEMMA AnswerLoadStep ==
  ASSUME IInv, LoadAnswered
  PROVE  IInv'
<1>1. PICK cached \in Caches : snapshot' = QueryView(cached) /\ failed' = (failed \/ cached # DocIds)
  BY DEF LoadAnswered
<1>2. /\ loading' = "answered" /\ raced' = (raced \/ mutations # << >>)
      /\ queries' = queries /\ disappeared' = disappeared
      /\ server' = server /\ mutations' = mutations /\ Alltasks' = Alltasks
      /\ used' = used /\ clicked' = clicked /\ draft' = draft
      /\ errorInput' = errorInput /\ errorDB' = errorDB /\ app' = app
  BY DEF LoadAnswered, storeVars, formVars
<1>3. cached \in SUBSET DocIds
  BY CachesAre
<1>4. \A id \in DocIds : snapshot'[id] \in Task \cup {NoDoc}
  BY <1>1, <1>3, ViewTyped DEF IInv
<1>5. TypeOK'
  <2>1. snapshot' = [id \in DocIds |-> snapshot'[id]]
    BY <1>1 DEF QueryView
  <2>2. snapshot' \in [DocIds -> Task \cup {NoDoc}]
    BY <1>4, <2>1
  <2>3. failed' \in BOOLEAN
    BY <1>1 DEF IInv, TypeOK
  <2>4. raced' \in BOOLEAN
    BY <1>2 DEF IInv, TypeOK
  <2> QED BY <1>2, <2>2, <2>3, <2>4 DEF IInv, TypeOK
<1>6. Gone' = Gone
  BY <1>2 DEF Gone
<1>7. LoadOK'
  <2> SUFFICES ASSUME ~raced', NEW id \in DocIds, snapshot'[id] # NoDoc
               PROVE  snapshot'[id] \in Shown(server, Gone)
    BY <1>2, <1>6 DEF LoadOK
  <2>1. Len(mutations) = 0
    <3>1. mutations = << >>
      BY <1>2
    <3> QED BY ONLY <3>1
  <2>2. snapshot'[id] = IF id \in cached THEN server[id] ELSE NoDoc
    BY <1>1, <1>3, <2>1, Viewed DEF IInv
  <2> QED BY <1>4, <2>2, TasksAreDrafts DEF Shown
<1>8. RowsOK' /\ QueriesOK' /\ ReadsOK(mutations, draft, raced')
  BY <1>2, <1>6 DEF IInv, RowsOK, QueriesOK, ReadsOK
<1> QED BY <1>2, <1>5, <1>6, <1>7, <1>8 DEF IInv

\* The completion of a load appends the documents of the answer.
LEMMA LoadStep ==
  ASSUME IInv, loadTasks
  PROVE  IInv'
<1> DEFINE D == Documents(snapshot)
           n == Cardinality(D)
<1>1. PICK order \in SetToSeqs(D) :
        Alltasks' = Alltasks \o [k \in DOMAIN order |-> snapshot[order[k]]]
  BY DEF loadTasks
<1>2. /\ loading' = "idle" /\ snapshot' = NoSnapshot /\ raced' = raced /\ failed' = failed
      /\ queries' = queries /\ disappeared' = disappeared
      /\ server' = server /\ mutations' = mutations
      /\ used' = used /\ clicked' = clicked /\ draft' = draft
      /\ errorInput' = errorInput /\ errorDB' = errorDB /\ app' = app
  BY DEF loadTasks, storeVars, formVars, noteVars
<1>3. D \in SUBSET DocIds /\ \A id \in D : snapshot[id] # NoDoc
  BY DEF Documents
<1>4. n \in Nat
  <2>1. IsFiniteSet(D)
    BY <1>3, DocIdsAssumption, FS_Subset
  <2> QED BY <2>1, FS_CardinalityType
<1>5. order \in [1..n -> D]
  BY <1>1 DEF SetToSeqs
<1>6. \A id \in D : snapshot[id] \in Task
  BY <1>3 DEF IInv, TypeOK
<1> DEFINE loaded == [k \in DOMAIN order |-> snapshot[order[k]]]
<1> HIDE DEF D, n
<1>7. ASSUME NEW S, \A id \in D : snapshot[id] \in S, Alltasks \in Seq(S)
      PROVE  Alltasks' \in Seq(S)
  <2>1. loaded \in [1..n -> S]
    BY <1>5, <1>7
  <2> HIDE DEF loaded
  <2>2. loaded \in Seq(S)
    BY <1>4, <2>1, FcnIsSeq
  <2> QED BY <1>1, <1>7, <2>2, ConcatParts DEF loaded
<1>8. TypeOK'
  <2>1. Alltasks \in Seq(Draft) /\ \A id \in D : snapshot[id] \in Draft
    BY <1>6, TasksAreDrafts DEF IInv, TypeOK
  <2>2. Alltasks' \in Seq(Draft)
    BY <1>7, <2>1
  <2>3. snapshot' \in [DocIds -> Task \cup {NoDoc}]
    BY <1>2 DEF NoSnapshot
  <2> QED BY <1>2, <2>2, <2>3 DEF IInv, TypeOK
<1>9. Gone' = Gone
  BY <1>2 DEF Gone
<1>10. RowsOK'
  <2> SUFFICES ASSUME ~raced PROVE Alltasks' \in Seq(Shown(server, Gone))
    BY <1>2, <1>9 DEF RowsOK
  <2>1. Alltasks \in Seq(Shown(server, Gone))
    BY DEF IInv, RowsOK
  <2>2. \A id \in D : snapshot[id] \in Shown(server, Gone)
    BY <1>3 DEF IInv, LoadOK
  <2> QED BY <1>7, <2>1, <2>2
<1>11. LoadOK'
  BY <1>2 DEF LoadOK, NoSnapshot
<1>12. ReadsOK(mutations, draft, raced) /\ QueriesOK'
  BY <1>2, <1>9 DEF IInv, QueriesOK
<1> QED BY <1>2, <1>8, <1>9, <1>10, <1>11, <1>12 DEF IInv

\* A query in deleteFromDB finds documents that were saved or are on the server,
\* with the texts of a row that disappeared.
LEMMA Matched ==
  ASSUME IInv, NEW cached \in SUBSET DocIds, NEW t \in Gone, NEW id \in Matching(t, cached)
  PROVE  id \in Doomed(mutations, server, used, Gone)
<1> SUFFICES /\ id \in DocIds /\ id \in used
             /\ server[id] # NoDoc => server[id] \in Gone
             /\ \A j \in 1..Len(mutations) :
                  mutations[j].id = id /\ mutations[j].entry # NoDoc => mutations[j].entry \in Gone
  BY DEF Doomed
<1>1. id \in DocIds /\ QueryView(cached)[id] = t
  BY DEF Matching
<1>2. t # NoDoc
  <2>1. disappeared \in Seq(Draft)
    BY DEF IInv, TypeOK
  <2>2. \A k \in DOMAIN disappeared : disappeared[k] \in Draft
    BY <2>1, LenProperties, ElementOfSeq
  <2> QED BY <2>2, NoDocAssumption DEF Gone, Range
<1>3. StoreOK(mutations, server, used, Gone) /\ TypeOK
  BY DEF IInv
<1>4. CASE \E k \in 1..Len(mutations) : mutations[k].id = id /\ t = mutations[k].entry
  <2>1. PICK k \in 1..Len(mutations) : mutations[k].id = id /\ t = mutations[k].entry
    BY <1>4
  <2> QED BY <1>1, <1>2, <1>3, <2>1 DEF StoreOK
<1>5. CASE /\ \A k \in 1..Len(mutations) : mutations[k].id # id
           /\ t = IF id \in cached THEN server[id] ELSE NoDoc
  BY <1>1, <1>2, <1>3, <1>5 DEF StoreOK
<1> QED BY <1>1, <1>3, <1>4, <1>5, Viewed

LEMMA AnswerDeleteStep ==
  ASSUME IInv, NEW k \in DOMAIN queries, DeleteAnswered(k)
  PROVE  IInv'
<1> DEFINE q == queries[k]
           D == Doomed(mutations, server, used, Gone)
<1>1. PICK cached \in Caches :
        /\ queries' = [queries EXCEPT ![k] =
                         [q EXCEPT !.answered = TRUE, !.found = Matching(q.temp, cached)]]
        /\ failed' = (failed \/ cached # DocIds)
  BY DEF DeleteAnswered
<1> DEFINE ids == Matching(q.temp, cached)
           new == [q EXCEPT !.answered = TRUE, !.found = ids]
<1>2. /\ Alltasks' = Alltasks /\ mutations' = mutations
      /\ disappeared' = disappeared /\ server' = server /\ used' = used
      /\ loading' = loading /\ snapshot' = snapshot
      /\ clicked' = clicked /\ draft' = draft /\ errorInput' = errorInput
      /\ errorDB' = errorDB /\ app' = app /\ raced' = raced
  BY DEF DeleteAnswered, storeVars, loadVars, formVars
<1>3. queries \in Seq(GoodQueries(Gone, D)) /\ queries \in Seq(Query)
  BY DEF IInv, TypeOK, QueriesOK
<1>4. k \in 1..Len(queries)
  BY <1>3, LenProperties
<1>5. q \in GoodQueries(Gone, D) /\ q \in Query
  <2> HIDE DEF D
  <2> QED BY <1>3, <1>4, ElementOfSeq
<1>6. q.temp \in Gone /\ cached \in SUBSET DocIds
  BY <1>5, CachesAre DEF GoodQueries
<1> HIDE DEF q
<1>7. ids \subseteq D /\ ids \in SUBSET DocIds
  BY <1>6, Matched DEF Matching
<1> HIDE DEF ids, D
<1>8. new \in Query /\ new.temp = q.temp /\ new.found = ids
  BY <1>5, <1>7 DEF Query
<1>9. new \in GoodQueries(Gone, D)
  <2> HIDE DEF new
  <2> QED BY <1>6, <1>7, <1>8 DEF GoodQueries
<1>10. queries' = [queries EXCEPT ![k] = new]
  BY <1>1 DEF ids, q
<1> HIDE DEF new
<1>11. Gone' = Gone
  BY <1>2 DEF Gone
<1>12. QueriesOK'
  <2>1. queries' \in Seq(GoodQueries(Gone, D))
    BY <1>3, <1>4, <1>9, <1>10, ExceptSeq
  <2> QED BY <1>2, <1>11, <2>1 DEF QueriesOK, D
<1>13. TypeOK'
  <2>1. queries' \in Seq(Query)
    BY <1>3, <1>4, <1>8, <1>10, ExceptSeq
  <2>2. failed' \in BOOLEAN
    BY <1>1 DEF IInv, TypeOK
  <2> QED BY <1>2, <2>1, <2>2 DEF IInv, TypeOK
<1>14. RowsOK' /\ LoadOK'
  BY <1>2, <1>11 DEF IInv, RowsOK, LoadOK
<1> QED BY <1>2, <1>11, <1>12, <1>13, <1>14 DEF IInv

LEMMA DeleteStep ==
  ASSUME IInv, NEW k \in DOMAIN queries, deleteFromDB(k)
  PROVE  IInv'
<1> DEFINE ids == queries[k].found
           ds == Deletes(ids)
           n == Len(mutations)
           D == Doomed(mutations, server, used, Gone)
<1>2. /\ queries' = RemoveAt(queries, k) /\ Alltasks' = Alltasks
      /\ disappeared' = disappeared /\ server' = server /\ used' = used
      /\ loading' = loading /\ snapshot' = snapshot
      /\ clicked' = clicked /\ draft' = draft /\ errorInput' = errorInput
      /\ errorDB' = errorDB /\ app' = app /\ raced' = raced /\ failed' = failed
  BY DEF deleteFromDB, loadVars, formVars, noteVars
<1>3. queries \in Seq(GoodQueries(Gone, D)) /\ mutations \in Seq(Write)
  BY DEF IInv, TypeOK, QueriesOK
<1>4. k \in 1..Len(queries) /\ queries[k] \in GoodQueries(Gone, D)
  <2> HIDE DEF D
  <2>1. k \in 1..Len(queries)
    BY <1>3, LenProperties
  <2> QED BY <1>3, <2>1, ElementOfSeq
<1>6. ids \subseteq D /\ ids \in SUBSET DocIds
  BY <1>4 DEF GoodQueries, Query
<1> HIDE DEF ids, D
<1>7. /\ ds \in Seq(Write)
      /\ \A j \in 1..Len(ds) : ds[j].id \in ids /\ ds[j].entry = NoDoc /\ ds[j].reads = <<"none">>
  BY <1>6, DeletesAre
<1> HIDE DEF ds
<1>8. mutations' = mutations \o ds
  BY DEF deleteFromDB, ds, ids
<1>9. StoreOK(mutations', server, used, Gone)
  <2>1. \A j \in 1..Len(ds) :
          /\ ds[j].entry = NoDoc /\ ds[j].id \in used
          /\ server[ds[j].id] # NoDoc => server[ds[j].id] \in Gone
          /\ \A i \in 1..n : mutations[i].id = ds[j].id /\ mutations[i].entry # NoDoc
                               => mutations[i].entry \in Gone
    BY <1>6, <1>7 DEF D, Doomed
  <2> QED BY <1>3, <1>7, <1>8, <2>1, StoreDeleted DEF IInv
<1>10. /\ mutations' \in Seq(Write) /\ n \in Nat /\ Len(ds) \in Nat
       /\ Len(mutations') = n + Len(ds)
       /\ \A j \in 1..n : mutations'[j] = mutations[j]
       /\ \A j \in 1..Len(ds) : mutations'[n + j] = ds[j]
  BY <1>3, <1>7, <1>8, ConcatParts
<1>11. ReadsOK(mutations', draft, raced)
  <2> DEFINE m == Len(ds)
  <2>1. ASSUME NEW j \in 1..(n + m)
        PROVE  /\ mutations'[j].reads = <<"none">> <=> mutations'[j].entry = NoDoc
               /\ ~raced /\ mutations'[j].reads = <<"form">> => mutations'[j].entry = draft
               /\ ~raced => \A d \in Draft :
                              mutations'[j].reads = <<"left", d>> => mutations'[j].entry = d
    <3>1. CASE j \in 1..n
      BY <1>10, <3>1 DEF IInv, ReadsOK
    <3>2. CASE j \notin 1..n
      <4>1. j - n \in 1..m /\ n + (j - n) = j
        <5>1. n \in Nat /\ m \in Nat
          BY <1>10
        <5> HIDE DEF n, m
        <5> QED BY <3>2, <5>1
      <4>2. mutations'[j].reads = <<"none">> /\ mutations'[j].entry = NoDoc
        BY <1>7, <1>10, <4>1
      <4> QED BY <4>2, ReadsDiffer
    <3> QED BY <3>1, <3>2
  <2> QED BY <1>10, <2>1 DEF ReadsOK
<1>12. Gone' = Gone
  BY <1>2 DEF Gone
<1>13. QueriesOK'
  <2>1. queries' \in Seq(GoodQueries(Gone, D))
    BY <1>2, <1>3, <1>4, RemoveAtSeq
  <2>2. D \subseteq Doomed(mutations', server, used, Gone)
    BY <1>3, <1>7, <1>8, DoomedDeleted DEF D
  <2> QED BY <1>2, <1>12, <2>1, <2>2, QueriesKept DEF QueriesOK
<1>14. TypeOK'
  <2>1. queries' \in Seq(Query)
    BY <1>2, <1>4, RemoveAtSeq DEF IInv, TypeOK
  <2> QED BY <1>2, <1>10, <2>1 DEF IInv, TypeOK
<1>15. RowsOK' /\ LoadOK'
  BY <1>2, <1>12 DEF IInv, RowsOK, LoadOK
<1> QED BY <1>2, <1>9, <1>11, <1>12, <1>13, <1>14, <1>15 DEF IInv

LEMMA DeleteFailedStep ==
  ASSUME IInv, NEW k \in DOMAIN queries, deleteFailed(k)
  PROVE  IInv'
<1> DEFINE q == queries[k]
           now == IF q.row \in DOMAIN Alltasks THEN {Alltasks[q.row].name} ELSE {}
<1>1. /\ queries' = RemoveAt(queries, k) /\ failed' = TRUE
      /\ disappeared' = disappeared /\ server' = server /\ used' = used /\ loading' = loading /\ snapshot' = snapshot
      /\ mutations' = mutations /\ clicked' = clicked /\ draft' = draft
      /\ errorInput' = errorInput /\ errorDB' = errorDB
  BY DEF deleteFailed, storeVars, loadVars, formVars
<1>2. \/ app' = "crashed" /\ Alltasks' = Alltasks /\ raced' = raced
      \/ \E name \in now \cup {q.temp.name} :
           /\ Alltasks' = Append(Alltasks, [name |-> name, time |-> q.temp.time])
           /\ raced' = (raced \/ name # q.temp.name) /\ app' = app
  BY DEF deleteFailed
<1> DEFINE D == Doomed(mutations, server, used, Gone)
<1> HIDE DEF D
<1>3. /\ queries \in Seq(GoodQueries(Gone, D)) /\ Alltasks \in Seq(Draft)
      /\ queries \in Seq(Query)
  BY DEF IInv, TypeOK, QueriesOK, D
<1>4. k \in 1..Len(queries) /\ q.temp \in Gone /\ q.temp \in Draft
  <2>1. k \in 1..Len(queries)
    BY <1>3, LenProperties
  <2>2. q \in GoodQueries(Gone, D)
    BY <1>3, <2>1, ElementOfSeq
  <2>3. q \in Query
    BY <1>3, <2>1, ElementOfSeq
  <2> HIDE DEF q
  <2> QED BY <2>1, <2>2, <2>3 DEF GoodQueries, Query
<1>5. Gone' = Gone
  BY <1>1 DEF Gone
<1>6. QueriesOK'
  BY <1>1, <1>3, <1>4, <1>5, RemoveAtSeq DEF QueriesOK, D
<1>7. queries' \in Seq(Query)
  BY <1>1, <1>3, <1>4, RemoveAtSeq
<1>8. /\ Alltasks' \in Seq(Draft) /\ raced' \in BOOLEAN /\ (~raced' => ~raced)
      /\ app' \in {"appearing", "running", "crashed"} /\ RowsOK'
  <2>1. CASE app' = "crashed" /\ Alltasks' = Alltasks /\ raced' = raced
    BY <1>1, <1>5, <2>1 DEF IInv, TypeOK, RowsOK
  <2>2. CASE \E name \in now \cup {q.temp.name} :
               /\ Alltasks' = Append(Alltasks, [name |-> name, time |-> q.temp.time])
               /\ raced' = (raced \/ name # q.temp.name) /\ app' = app
    <3>1. PICK name \in now \cup {q.temp.name} :
            /\ Alltasks' = Append(Alltasks, [name |-> name, time |-> q.temp.time])
            /\ raced' = (raced \/ name # q.temp.name) /\ app' = app
      BY <2>2
    <3> DEFINE e == [name |-> name, time |-> q.temp.time]
    <3>2. name \in Names \cup {Blank}
      <4>1. CASE name \in now
        <5>1. q.row \in DOMAIN Alltasks /\ name = Alltasks[q.row].name
          BY <4>1
        <5>2. Alltasks[q.row] \in Draft
          BY <1>3, <5>1, LenProperties, ElementOfSeq
        <5> QED BY <5>1, <5>2 DEF Draft
      <4>2. CASE name = q.temp.name
        BY <1>4, <4>2 DEF Draft
      <4> QED BY <4>1, <4>2
    <3> HIDE DEF q
    <3>3. e \in Draft /\ (name = q.temp.name => e = q.temp)
      BY <1>4, <3>2 DEF Draft
    <3> HIDE DEF e
    <3>4. Alltasks' = Append(Alltasks, e)
      BY <3>1 DEF e
    <3>5. Alltasks' \in Seq(Draft)
      BY <1>3, <3>3, <3>4, AppendParts
    <3>6. ~raced' => ~raced /\ e = q.temp
      BY <3>1, <3>3
    <3>7. RowsOK'
      <4> SUFFICES ASSUME ~raced' PROVE Alltasks' \in Seq(Shown(server, Gone))
        BY <1>1, <1>5 DEF RowsOK
      <4>1. Alltasks \in Seq(Shown(server, Gone))
        BY <3>6 DEF IInv, RowsOK
      <4>2. e \in Shown(server, Gone)
        BY <1>4, <3>6 DEF Shown
      <4> QED BY <3>4, <4>1, <4>2, AppendParts
    <3>8. raced' \in BOOLEAN /\ app' \in {"appearing", "running", "crashed"}
      BY <3>1 DEF IInv, TypeOK
    <3> QED BY <3>5, <3>6, <3>7, <3>8
  <2> QED BY <1>2, <2>1, <2>2
<1>9. TypeOK'
  BY <1>1, <1>7, <1>8 DEF IInv, TypeOK
<1>10. ReadsOK(mutations, draft, raced')
  BY <1>8 DEF IInv, ReadsOK
<1>11. LoadOK'
  BY <1>1, <1>5, <1>8, LoadKept
<1> QED BY <1>1, <1>5, <1>6, <1>8, <1>9, <1>10, <1>11 DEF IInv

LEMMA NextIInv ==
  ASSUME IInv, [Next]_vars
  PROVE  IInv'
BY IdleSteps, TypeStep, SaveStep, CancelStep, AckStep, RejectStep, DisappearStep, MoveStep,
   AnswerLoadStep, LoadStep, AnswerDeleteStep, DeleteStep, DeleteFailedStep DEF Next, UserStep, FirestoreStep

LEMMA AlwaysIInv == Spec => []IInv
<1>1. Init => IInv
  BY InitIInv
<1>2. IInv /\ [Next]_vars => IInv'
  BY NextIInv
<1> QED BY <1>1, <1>2, PTL DEF Spec

-----------------------------------------------------------------------------
(***************************************************************************)
(* Theorems.                                                               *)
(***************************************************************************)

\* Every variable keeps its type; above all, validateTask in Save lets only
\* complete tasks reach the store.
THEOREM TypeCorrect == Spec => []TypeOK
<1>1. IInv => TypeOK
  BY DEF IInv
<1> QED BY AlwaysIInv, <1>1, PTL

\* A row of MainView has a document, unless a row with its texts has disappeared
\* or a completion read texts it was not started for.
THEOREM RowsAreBacked == Spec => []RowsHaveDocuments
<1>1. ASSUME IInv PROVE RowsHaveDocuments
  <2> SUFFICES ASSUME ~raced, NEW i \in DOMAIN Alltasks, Alltasks[i] \notin Gone
               PROVE  Matching(Alltasks[i], DocIds) # {}
    BY DEF RowsHaveDocuments, Gone
  <2>1. Alltasks[i] \in Shown(server, Gone)
    <3>1. Alltasks \in Seq(Shown(server, Gone))
      BY <1>1 DEF IInv, RowsOK
    <3> QED BY <3>1, LenProperties, ElementOfSeq
  <2>2. PICK id \in DocIds : server[id] = Alltasks[i]
    BY <2>1 DEF Shown
  <2>3. server[id] # NoDoc
    BY <2>1, <2>2, NoDocAssumption DEF Shown
  <2>4. \A k \in 1..Len(mutations) : mutations[k].id # id
    BY <1>1, <2>2, <2>3 DEF IInv, StoreOK
  <2>5. QueryView(DocIds)[id] = server[id]
    BY <1>1, <2>4, Viewed DEF IInv
  <2> QED BY <2>2, <2>5 DEF Matching
<1> QED BY AlwaysIInv, <1>1, PTL

\* deleteFromDB deletes only what has the name and time of a row that
\* disappeared, and no other call takes a document from the server.
THEOREM OthersAreSpared == Spec => OnlyDisappearedTasksGo
<1> DEFINE Spared == \A id \in DocIds : server[id] # NoDoc /\ server'[id] = NoDoc =>
                       server[id] \in Range(disappeared)
<1>1. ASSUME IInv, [Next]_vars PROVE [Spared]_vars
  <2> SUFFICES ASSUME NEW id \in DocIds, server[id] # NoDoc, server'[id] = NoDoc
               PROVE  server[id] \in Gone
    BY DEF Gone
  <2>1. ServerAck
    <3> SUFFICES ASSUME ~ServerAck PROVE server' = server
      OBVIOUS
    <3> QED BY <1>1 DEF Next, UserStep, FirestoreStep, vars, storeVars, onAppear, ADD_NEW,
         SaveInvalid, saveDataInDtabase, Cancel, DismissAlert, Type, SwipeDelete, Scroll, MoveRow,
         loadVars, LoadAnswered, loadTasks, loadFailed, ServerReject, DeleteAnswered,
         deleteFromDB, deleteFailed
  <2>2. mutations # << >> /\ server' = [server EXCEPT ![Head(mutations).id] = Head(mutations).entry]
    BY <2>1 DEF ServerAck
  <2>3. server \in [DocIds -> Task \cup {NoDoc}] /\ mutations \in Seq(Write)
    BY <1>1 DEF IInv, TypeOK
  <2>4. id = Head(mutations).id
    BY <2>2, <2>3
  <2>5. server[Head(mutations).id] = NoDoc \/ server[Head(mutations).id] \in Gone
    BY <1>1, <2>2, <2>3, StoreTaken DEF IInv
  <2> QED BY <2>4, <2>5
<1> QED BY AlwaysIInv, <1>1, PTL DEF Spec, OnlyDisappearedTasksGo

=============================================================================
