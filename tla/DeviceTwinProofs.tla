--------------------------- MODULE DeviceTwinProofs ---------------------------
(***************************************************************************)
(* The memory and the row of a twin show the same twin unless a failure    *)
(* parted them, a stored reported value fits the twin's type, and what is  *)
(* stored never goes back to an earlier version: for any versions the cloud*)
(* may send and any number of updates, failures and restarts.              *)
(*                                                                         *)
(* A handler is a function of the twin in memory (DealMsgTwin); Moves says *)
(* what any of its results has: versions grow, and what is not among the   *)
(* columns to write still looks as before, unless a deletion was refused   *)
(* halfway.  The transaction writes those columns, so memory and row look  *)
(* alike afterwards (Looks); reading the row back gives a twin that looks  *)
(* like it.  The versions of the row never exceed those of the memory.     *)
(***************************************************************************)
EXTENDS DeviceTwin, TLAPS

\* The cloud sends versions, and the markers Nil and Empty are neither
\* versions nor strings; Nil is not a twin.
Constants ==
    /\ SyncVersions \subseteq Versions
    /\ Nil \notin Versions /\ Nil \notin Values \cup Types \cup {Blank, Deleted}
    /\ Empty \notin Versions /\ Empty \notin Values \cup Types \cup {Blank, Deleted}
    /\ \A t, o, e, a : Nil # [type |-> t, opt |-> o, exp |-> e, act |-> a]

\* Version w has seen all v has seen.
Below(v, w) == v.c <= w.c /\ v.e <= w.e

\* The columns, the ends and the results of a handler; the halves in memory
\* and in a row.
Cols == {"exp", "act", "opt", "type", "metadata"}
Ends == {"ok", "refused", "error", "panic"}
Results == [twin : Twins, cols : SUBSET Cols, end : Ends]
MemHalf == Half(Values \cup {Blank}, Nil)
RowHalf == Half(Values, Empty)

\* The two halves look the same to a reader.
Alike(h, g) == Column(h).value = Column(g).value /\ VersionOf(h) = VersionOf(g)

-----------------------------------------------------------------------------
(* Versions and halves.                                                    *)

LEMMA BelowRefl == \A v \in Versions : Below(v, v)
  BY DEF Versions, Below

LEMMA BelowTrans == \A u, v, w \in Versions : Below(u, v) /\ Below(v, w) => Below(u, w)
  BY DEF Versions, Below

LEMMA ZeroType == Zero \in Versions
  BY Zenon DEF Zero, Versions

LEMMA VersionOfType ==
  ASSUME NEW h, h \in MemHalf \/ h \in RowHalf
  PROVE  VersionOf(h) \in Versions
  BY Zenon, ZeroType DEF VersionOf, MemHalf, RowHalf, Half

\* dealVersion never returns less than the version it was given.
LEMMA dealVersionGrows ==
  ASSUME NEW v \in Versions, NEW req, req \in Versions \cup {Nil}, NEW kind
  PROVE  /\ dealVersion(v, req, kind).version \in Versions
         /\ Below(v, dealVersion(v, req, kind).version)
<1> DEFINE d == dealVersion(v, req, kind)
<1>1. \/ d.version = [v EXCEPT !.e = @ + 1]
      \/ d.version = v
      \/ d.version = req /\ req # Nil /\ ~(v.c > req.c \/ v.e > req.e)
  BY Zenon DEF dealVersion
<1> SUFFICES d.version \in Versions /\ Below(v, d.version)
  BY Zenon DEF d
<1> HIDE DEF d
<1>2. CASE d.version = [v EXCEPT !.e = @ + 1]
  BY <1>2 DEF Versions, Below
<1>3. CASE d.version = v
  BY Zenon, <1>3, BelowRefl
<1>4. CASE d.version = req /\ req # Nil /\ ~(v.c > req.c \/ v.e > req.e)
  BY <1>4 DEF Versions, Below
<1> QED BY Zenon, <1>1, <1>2, <1>3, <1>4

\* The twin t with another half f, and with another type.
HalfSet(t, f, h) == [t EXCEPT ![f] = h]
HalfTypeSet(t, f, h, ty) == [t EXCEPT ![f] = h, !.type = ty]

LEMMA WithHalf ==
  ASSUME NEW t \in Twins, NEW h \in MemHalf, NEW f \in Halves, NEW ty \in Types \cup {Deleted}, NEW u,
         u = HalfTypeSet(t, f, h, ty)
  PROVE  /\ u \in Twins /\ u[f] = h /\ u.type = ty /\ u.opt = t.opt
         /\ \A g \in Halves \ {f} : u[g] = t[g]
<1>1. CASE f = "exp"
  BY Zenon, <1>1 DEF Twins, MemHalf, Halves, HalfTypeSet
<1>2. CASE f = "act"
  BY Zenon, <1>2 DEF Twins, MemHalf, Halves, HalfTypeSet
<1> QED BY Zenon, <1>1, <1>2 DEF Halves

LEMMA TwinHalves ==
  ASSUME NEW t \in Twins, NEW f \in Halves
  PROVE  /\ t[f] \in MemHalf
         /\ VersionOf(t[f]) \in Versions
<1>1. t[f] \in MemHalf
  BY Zenon DEF Twins, MemHalf, Halves
<1> QED BY Zenon, <1>1, VersionOfType

LEMMA ResultEXCEPT ==
  ASSUME NEW s \in Results, NEW u, NEW e
  PROVE  /\ [s EXCEPT !.twin = u] = Ended(u, s.cols, s.end)
         /\ [s EXCEPT !.end = e] = Ended(s.twin, s.cols, e)
  BY DEF Results, Ended

LEMMA OnlyHalf ==
  ASSUME NEW t \in Twins, NEW h \in MemHalf, NEW f \in Halves, NEW u,
         u = HalfSet(t, f, h)
  PROVE  /\ u \in Twins /\ u[f] = h /\ u.type = t.type /\ u.opt = t.opt
         /\ \A g \in Halves \ {f} : u[g] = t[g]
<1>1. CASE f = "exp"
  BY Zenon, <1>1 DEF Twins, MemHalf, Halves, HalfSet
<1>2. CASE f = "act"
  BY Zenon, <1>2 DEF Twins, MemHalf, Halves, HalfSet
<1> QED BY Zenon, <1>1, <1>2 DEF Halves

LEMMA EndedType ==
  ASSUME NEW t \in Twins, NEW c \in SUBSET Cols, NEW e \in Ends
  PROVE  /\ Ended(t, c, e) \in Results
         /\ Ended(t, c, e).twin = t /\ Ended(t, c, e).cols = c /\ Ended(t, c, e).end = e
  BY Zenon DEF Ended, Results

\* A half whose missing version becomes version zero looks the same.
LEMMA VersionFilled ==
  ASSUME Constants, NEW h \in MemHalf, NEW g, g = [h EXCEPT !.version = VersionOf(h)]
  PROVE  /\ g \in MemHalf /\ Alike(g, h) /\ g.value = h.value /\ g.version \in Versions
         /\ VersionOf(g) = VersionOf(h)
<1>1. VersionOf(h) \in Versions
  BY Zenon, VersionOfType
<1>2. g \in MemHalf /\ g.value = h.value /\ g.version = VersionOf(h)
  BY Zenon, <1>1 DEF MemHalf, Half
<1>3. VersionOf(g) = VersionOf(h)
  BY Zenon, <1>1, <1>2 DEF VersionOf, Constants
<1> QED BY Zenon, <1>1, <1>2, <1>3 DEF Alike, Column

\* Everything but half f and the type is the same.
Untouched(f, t, u) ==
    /\ \A g \in Halves \ {f} : u[g] = t[g]
    /\ u.opt = t.opt

\* One half of dealTwinDelete left r of s: it kept the half (which has no
\* version), refused, or deleted.
HalfDeleted(s, f, r) ==
    /\ r \in Results
    /\ Untouched(f, s.twin, r.twin)
    /\ Below(VersionOf(s.twin[f]), VersionOf(r.twin[f]))
    /\ \/ /\ r.cols = s.cols /\ r.end = s.end /\ r.twin.type = s.twin.type
          /\ Alike(r.twin[f], s.twin[f]) /\ r.twin[f].value = s.twin[f].value
          /\ r.twin[f].version = Nil => s.twin[f].version = Nil
          /\ s.end = "ok" => s.twin[f].version = Nil
       \/ s.end = "ok" /\ r = Ended(s.twin, {}, "refused")
       \/ /\ s.end = "ok" /\ r.end = "ok" /\ r.cols = s.cols \cup {f, "type"}
          /\ r.twin.type = Deleted /\ r.twin[f].value = Blank

LEMMA DeleteHalfMoves ==
  ASSUME Constants, NEW s \in Results, NEW f \in Halves, NEW m, NEW k,
         k # "rest" => m[f].version \in Versions \cup {Nil},
         NEW r, r = DeleteHalf(s, f, m, k)
  PROVE  HalfDeleted(s, f, r)
<1> USE DEF HalfDeleted
<1> DEFINE h == s.twin[f]
           req == IF k = "rest" THEN Nil ELSE m[f].version
           v == dealVersion(h.version, req, k).version
<1>1. s.twin \in Twins /\ s.cols \in SUBSET Cols /\ s.end \in Ends
  BY Zenon DEF Results
<1>2. h \in MemHalf /\ VersionOf(h) \in Versions
  BY Zenon, <1>1, TwinHalves
<1>3. CASE s.end # "ok"
  <2>1. r = s
    BY Zenon, <1>3 DEF DeleteHalf
  <2> QED BY Zenon, <1>1, <1>2, <1>3, <2>1, BelowRefl DEF Untouched, Alike
<1>4. CASE s.end = "ok" /\ h.version = Nil
  <2> DEFINE g == [h EXCEPT !.version = VersionOf(h)]
             u == [s.twin EXCEPT ![f] = g]
  <2>1. VersionOf(h) = Zero
    BY Zenon, <1>4 DEF VersionOf
  <2>2. r = [s EXCEPT !.twin = u]
    BY Zenon, <1>4, <2>1 DEF DeleteHalf
  <2>3. /\ g \in MemHalf /\ Alike(g, h) /\ g.value = h.value /\ g.version \in Versions
        /\ VersionOf(g) = VersionOf(h)
    BY Zenon, <1>2, VersionFilled
  <2> HIDE DEF g
  <2>9. u = HalfSet(s.twin, f, g)
    BY Zenon DEF HalfSet
  <2> HIDE DEF u
  <2>4. /\ u \in Twins /\ u[f] = g /\ u.type = s.twin.type /\ u.opt = s.twin.opt
        /\ \A x \in Halves \ {f} : u[x] = s.twin[x]
    BY <1>1, <2>3, <2>9, OnlyHalf
  <2>5. r = Ended(u, s.cols, s.end)
    BY Zenon, <2>2, ResultEXCEPT
  <2>6. r \in Results /\ r.twin = u /\ r.cols = s.cols /\ r.end = s.end
    BY <1>1, <2>4, <2>5, EndedType
  <2> QED BY Zenon, <1>2, <1>4, <2>3, <2>4, <2>6, BelowRefl DEF Untouched
<1>5. CASE s.end = "ok" /\ h.version # Nil /\ ~dealVersion(h.version, req, k).ok
  <2>1. r = Ended(s.twin, {}, "refused")
    BY Zenon, <1>5 DEF DeleteHalf
  <2>2. r \in Results /\ r.twin = s.twin
    BY <1>1, <2>1, EndedType DEF Ends
  <2> QED BY Zenon, <1>2, <1>5, <2>1, <2>2, BelowRefl DEF Untouched
<1>6. CASE s.end = "ok" /\ h.version # Nil /\ dealVersion(h.version, req, k).ok
  <2> DEFINE g == [value |-> Blank, version |-> v]
             u == [s.twin EXCEPT ![f] = g, !.type = Deleted]
             c == s.cols \cup {f, "type"}
  <2>1. r = Ended(u, c, "ok")
    BY Zenon, <1>6 DEF DeleteHalf
  <2>2. h.version \in Versions /\ VersionOf(h) = h.version
    BY Zenon, <1>2, <1>6 DEF MemHalf, Half, VersionOf, Constants
  <2>3. req \in Versions \cup {Nil}
    BY Zenon
  <2>4. v \in Versions /\ Below(h.version, v)
    BY Zenon, <2>2, <2>3, dealVersionGrows
  <2> HIDE DEF v, req
  <2>5. g \in MemHalf /\ g.value = Blank /\ VersionOf(g) = v
    BY Zenon, <2>4 DEF MemHalf, Half, VersionOf, Constants
  <2> HIDE DEF g
  <2>9. u = HalfTypeSet(s.twin, f, g, Deleted)
    BY Zenon DEF HalfTypeSet
  <2> HIDE DEF u
  <2>6. /\ u \in Twins /\ u[f] = g /\ u.type = Deleted /\ u.opt = s.twin.opt
        /\ \A x \in Halves \ {f} : u[x] = s.twin[x]
    BY <1>1, <2>5, <2>9, WithHalf
  <2>7. c \in SUBSET Cols
    BY Zenon, <1>1 DEF Cols, Halves
  <2>8. r \in Results /\ r.twin = u /\ r.cols = c /\ r.end = "ok"
    BY <2>1, <2>6, <2>7, EndedType DEF Ends
  <2> QED BY Zenon, <1>6, <2>2, <2>4, <2>5, <2>6, <2>8 DEF Untouched
<1> QED BY Zenon, <1>3, <1>4, <1>5, <1>6


-----------------------------------------------------------------------------
(* What a handler makes of the twin t.                                     *)

\* The versions of both halves have grown.
Grown(t, u) == \A f \in Halves : Below(VersionOf(t[f]), VersionOf(u[f]))

\* What is not written looks as before.
Kept(t, s) ==
    /\ \A f \in Halves \ s.cols : Alike(s.twin[f], t[f])
    /\ "opt" \notin s.cols => s.twin.opt = t.opt
    /\ "type" \notin s.cols => s.twin.type = t.type

\* A deletion was refused after its first half.
Halfway(t, s) == s.end = "refused" /\ s.cols = {} /\ s.twin.type # t.type

\* A reported value fits the type, and has a version.
Fits(t) == t.act.value \in Values => t.type # Deleted /\ ValidateValue(t.type, t.act.value)

VersionStored(r) == r.act.value \in Values => r.act.version # Empty

HasVersion(t) == t.act.value \in Values => t.act.version # Nil

Moves(t, s) ==
    /\ s \in Results
    /\ Grown(t, s.twin)
    /\ s.end \in {"ok", "refused"} => Kept(t, s) \/ Halfway(t, s)
    /\ HasVersion(t) => HasVersion(s.twin)
    /\ HasVersion(t) /\ Fits(t) /\ s.end \in {"ok", "refused"} /\ ~Halfway(t, s) => Fits(s.twin)

LEMMA GrownRefl == \A t \in Twins : Grown(t, t)
  BY Zenon, TwinHalves, BelowRefl DEF Grown

LEMMA StaysMoves ==
  ASSUME NEW t \in Twins, NEW s, s = Ended(t, {}, "ok")
  PROVE  Moves(t, s)
<1>1. s \in Results /\ s.twin = t /\ s.cols = {} /\ s.end = "ok"
  BY EndedType DEF Ends
<1> QED BY Zenon, <1>1, GrownRefl DEF Moves, Kept, Alike

\* dealTwinDelete, for every message and kind.
LEMMA dealTwinDeleteMoves ==
  ASSUME Constants, NEW t \in Twins, NEW m, NEW kind,
         kind # "rest" => \A f \in Halves : m[f].version \in Versions \cup {Nil},
         NEW s, s = dealTwinDelete(t, m, kind)
  PROVE  Moves(t, s)
<1> DEFINE k == IF kind = "rest" THEN kind ELSE Deleted
           a == Ended(t, {}, "ok")
           b == DeleteHalf(a, "exp", m, k)
<1>1. CASE s = a
  BY Zenon, <1>1, StaysMoves
<1>2. CASE s = DeleteHalf(b, "act", m, k) /\ t.type # Deleted
  <2>1. a \in Results /\ a.twin = t /\ a.cols = {} /\ a.end = "ok"
    BY EndedType DEF Ends
  <2>2. k # "rest" => \A f \in Halves : m[f].version \in Versions \cup {Nil}
    BY Zenon
  <2>3. "exp" \in Halves /\ "act" \in Halves
    BY Zenon DEF Halves
  <2> HIDE DEF a, k
  <2>4. HalfDeleted(a, "exp", b)
    BY Zenon, <2>1, <2>2, <2>3, DeleteHalfMoves
  <2> HIDE DEF b
  <2>5. HalfDeleted(b, "act", s)
    <3>1. b \in Results
      BY Zenon, <2>4 DEF HalfDeleted
    <3> QED BY Zenon, <1>2, <2>2, <2>3, <3>1, DeleteHalfMoves
  <2> USE DEF HalfDeleted
  <2>6. /\ b.twin.act = t.act /\ b.twin.opt = t.opt
        /\ s.twin.exp = b.twin.exp /\ s.twin.opt = t.opt
    BY Zenon, <2>1, <2>4, <2>5 DEF Untouched, Halves
  <2>7. Grown(t, s.twin)
    BY Zenon, <2>1, <2>4, <2>5, <2>6 DEF Grown, Halves
  <2>8. CASE b = Ended(t, {}, "refused")
    <3>1. b.twin = t /\ b.cols = {} /\ b.end = "refused"
      BY <2>8, EndedType DEF Ends
    <3>2. /\ s.cols = {} /\ s.twin.type = t.type
          /\ Alike(s.twin.act, t.act) /\ s.twin.act.value = t.act.value
          /\ s.twin.act.version = Nil => t.act.version = Nil
      BY Zenon, <2>5, <3>1
    <3>3. Alike(s.twin.exp, t.exp)
      BY Zenon, <2>6, <3>1 DEF Alike
    <3>4. Kept(t, s)
      BY Zenon, <2>6, <3>2, <3>3 DEF Kept, Halves
    <3> QED BY Zenon, <2>5, <2>7, <3>2, <3>4 DEF Moves, Fits, HasVersion
  <2>9. CASE b # Ended(t, {}, "refused")
    <3>1. /\ b.end = "ok"
          /\ \/ b.cols = {} /\ b.twin.type = t.type /\ Alike(b.twin.exp, t.exp)
             \/ b.cols = {"exp", "type"}
      BY Zenon, <2>1, <2>4, <2>9
    <3>2. CASE s = Ended(b.twin, {}, "refused")
      <4>1. s.twin = b.twin /\ s.cols = {} /\ s.end = "refused"
        BY <2>4, <3>2, EndedType DEF Ends, Results
      <4>2. Alike(s.twin.act, t.act)
        BY Zenon, <2>6, <4>1 DEF Alike
      <4>3. Kept(t, s) \/ Halfway(t, s)
        <5>1. CASE s.twin.type # t.type
          BY Zenon, <4>1, <5>1 DEF Halfway
        <5>2. CASE s.twin.type = t.type
          <6>1. Alike(s.twin.exp, t.exp)
            BY Zenon, <2>1, <2>4, <2>9, <4>1, <1>2, <5>2
          <6> QED BY Zenon, <2>6, <4>1, <4>2, <5>2, <6>1 DEF Kept, Halves
        <5> QED BY Zenon, <5>1, <5>2
      <4> QED BY Zenon, <2>5, <2>6, <2>7, <4>1, <4>3 DEF Moves, Fits, HasVersion, Halfway
    <3>3. CASE s.twin.act.value = Blank /\ s.cols = b.cols \cup {"act", "type"}
      <4>1. HasVersion(s.twin) /\ Fits(s.twin)
        BY Zenon, <3>3 DEF HasVersion, Fits, Values, Blank
      <4>2. Kept(t, s)
        BY Zenon, <2>6, <3>1, <3>3 DEF Kept, Halves
      <4> QED BY Zenon, <2>5, <2>7, <4>1, <4>2 DEF Moves
    <3>4. CASE /\ s.cols = b.cols /\ s.end = "ok" /\ s.twin.type = b.twin.type
               /\ Alike(s.twin.act, t.act) /\ s.twin.act.value = t.act.value
               /\ t.act.version = Nil
      <4>1. HasVersion(t) => HasVersion(s.twin) /\ Fits(s.twin)
        BY Zenon, <3>4 DEF HasVersion, Fits
      <4>2. Kept(t, s)
        BY Zenon, <2>6, <3>1, <3>4 DEF Kept, Halves
      <4> QED BY Zenon, <2>5, <2>7, <4>1, <4>2 DEF Moves
    <3> QED BY Zenon, <2>5, <2>6, <3>1, <3>2, <3>3, <3>4
  <2> QED BY Zenon, <2>8, <2>9
<1> QED BY Zenon, <1>1, <1>2 DEF dealTwinDelete


\* The type a value is validated against.
TypeFor(t, m) == IF t.type # Deleted THEN t.type ELSE IF m.type # Nil THEN m.type ELSE "string"

\* What a message may carry for a half.
SentHalf(h) == h.value \in Values \cup {Nil} /\ h.version \in Versions \cup {Nil}

\* One half of dealTwinCompare left r of s: it kept what the half looks
\* like, or set a value that fits.
HalfCompared(s, f, m, r) ==
    /\ r \in Results
    /\ Untouched(f, s.twin, r.twin)
    /\ r.twin.type = s.twin.type
    /\ Below(VersionOf(s.twin[f]), VersionOf(r.twin[f]))
    /\ \/ /\ r.cols = s.cols
          /\ Alike(r.twin[f], s.twin[f]) /\ r.twin[f].value = s.twin[f].value
          /\ r.twin[f].version = Nil => s.twin[f].version = Nil
       \/ /\ r.end = "ok" /\ r.cols = s.cols \cup {f}
          /\ r.twin[f].version # Nil
          /\ f = "act" => ValidateValue(TypeFor(s.twin, m), r.twin[f].value)

LEMMA CompareHalfMoves ==
  ASSUME Constants, NEW s \in Results, NEW f \in Halves, NEW m, NEW kind,
         SentHalf(m[f]),
         NEW r, r = CompareHalf(s, f, m, kind)
  PROVE  HalfCompared(s, f, m, r)
<1> USE DEF HalfCompared
<1> DEFINE diff == isTwinValueDiff(s.twin, m, f)
           h == s.twin[f]
           old == VersionOf(h)
           v == dealVersion(old, m[f].version, kind)
<1>1. s.twin \in Twins /\ s.cols \in SUBSET Cols /\ s.end \in Ends
  BY Zenon DEF Results
<1>2. h \in MemHalf /\ old \in Versions
  BY Zenon, <1>1, TwinHalves
<1>3. CASE s.end # "ok" \/ diff = "same"
  <2>1. r = s
    BY Zenon, <1>3 DEF CompareHalf
  <2> QED BY Zenon, <1>1, <1>2, <2>1, BelowRefl DEF Untouched, Alike
<1>4. CASE s.end = "ok" /\ diff = "invalid"
  <2> DEFINE e == IF kind = "rest" THEN "error" ELSE s.end
  <2>1. r = [s EXCEPT !.end = e]
    BY Zenon, <1>4 DEF CompareHalf
  <2>2. e \in Ends
    BY Zenon, <1>1 DEF Ends
  <2> HIDE DEF e
  <2>3. r = Ended(s.twin, s.cols, e)
    BY Zenon, <2>1, ResultEXCEPT
  <2>4. r \in Results /\ r.twin = s.twin /\ r.cols = s.cols
    BY <1>1, <2>2, <2>3, EndedType
  <2> QED BY Zenon, <1>1, <1>2, <2>4, BelowRefl DEF Untouched, Alike
<1>5. CASE s.end = "ok" /\ diff = "diff" /\ v.ok
  <2> DEFINE g == [value |-> m[f].value, version |-> v.version]
             u == [s.twin EXCEPT ![f] = g]
             c == s.cols \cup {f}
  <2>1. r = Ended(u, c, "ok")
    BY Zenon, <1>5 DEF CompareHalf
  <2>2. /\ m[f].value # Nil
        /\ f = "act" => ValidateValue(TypeFor(s.twin, m), m[f].value)
    BY Zenon, <1>5 DEF isTwinValueDiff, TypeFor
  <2>3. v.version \in Versions /\ Below(old, v.version)
    BY Zenon, <1>2, dealVersionGrows DEF SentHalf
  <2> HIDE DEF v
  <2>4. g \in MemHalf /\ g.value = m[f].value /\ g.version = v.version /\ VersionOf(g) = v.version
    BY Zenon, <2>2, <2>3 DEF MemHalf, Half, VersionOf, Constants, SentHalf
  <2> HIDE DEF g
  <2>5. u = HalfSet(s.twin, f, g)
    BY Zenon DEF HalfSet
  <2> HIDE DEF u
  <2>6. /\ u \in Twins /\ u[f] = g /\ u.type = s.twin.type /\ u.opt = s.twin.opt
        /\ \A x \in Halves \ {f} : u[x] = s.twin[x]
    BY <1>1, <2>4, <2>5, OnlyHalf
  <2>7. c \in SUBSET Cols
    BY Zenon, <1>1 DEF Cols, Halves
  <2>8. r \in Results /\ r.twin = u /\ r.cols = c /\ r.end = "ok"
    BY <2>1, <2>6, <2>7, EndedType DEF Ends
  <2>9. g.version # Nil
    BY Zenon, <2>3, <2>4 DEF Constants
  <2> QED BY Zenon, <1>5, <2>2, <2>3, <2>4, <2>6, <2>8, <2>9 DEF Untouched
<1>6. CASE s.end = "ok" /\ diff = "diff" /\ ~v.ok
  <2> DEFINE g == [h EXCEPT !.version = old]
             u == [s.twin EXCEPT ![f] = g]
             e == IF s.twin[f].value = Nil THEN "panic" ELSE "refused"
  <2>1. r = Ended(u, s.cols, e)
    BY Zenon, <1>6 DEF CompareHalf
  <2>2. /\ g \in MemHalf /\ Alike(g, h) /\ g.value = h.value /\ g.version \in Versions
        /\ VersionOf(g) = VersionOf(h)
    BY Zenon, <1>2, VersionFilled
  <2> HIDE DEF g
  <2>3. u = HalfSet(s.twin, f, g)
    BY Zenon DEF HalfSet
  <2> HIDE DEF u
  <2>4. /\ u \in Twins /\ u[f] = g /\ u.type = s.twin.type /\ u.opt = s.twin.opt
        /\ \A x \in Halves \ {f} : u[x] = s.twin[x]
    BY <1>1, <2>2, <2>3, OnlyHalf
  <2>5. e \in Ends
    BY Zenon DEF Ends
  <2> HIDE DEF e
  <2>6. r \in Results /\ r.twin = u /\ r.cols = s.cols
    BY <1>1, <2>1, <2>4, <2>5, EndedType
  <2>7. g.version # Nil
    BY Zenon, <2>2 DEF Constants
  <2> QED BY Zenon, <1>2, <2>2, <2>4, <2>6, <2>7, BelowRefl DEF Untouched
<1>7. diff \in {"same", "invalid", "diff"}
  BY Zenon DEF isTwinValueDiff
<1> QED BY Zenon, <1>3, <1>4, <1>5, <1>6, <1>7


\* The twin t with another option and another type.
OptTypeSet(t, o, ty) == [t EXCEPT !.opt = o, !.type = ty]

LEMMA WithOptType ==
  ASSUME NEW t \in Twins, NEW o \in BOOLEAN, NEW ty \in Types \cup {Deleted}, NEW u,
         u = OptTypeSet(t, o, ty)
  PROVE  /\ u \in Twins /\ u.opt = o /\ u.type = ty
         /\ u.exp = t.exp /\ u.act = t.act
  BY Zenon DEF OptTypeSet, Twins

\* dealTwinCompare, for every message and kind.
LEMMA dealTwinCompareMoves ==
  ASSUME Constants, NEW t \in Twins, NEW m, NEW kind,
         \A f \in Halves : SentHalf(m[f]),
         m.type \in Types \cup {Nil}, m.opt \in {Nil, FALSE},
         NEW s, s = dealTwinCompare(t, m, kind)
  PROVE  Moves(t, s) /\ ~Halfway(t, s)
<1> DEFINE a == Ended(t, {}, "ok")
           b == CompareHalf(a, "exp", m, kind)
           p == CompareHalf(b, "act", m, kind)
           optional == m.opt # Nil /\ p.twin.opt /\ m.opt # p.twin.opt
           retyped  == m.type # Nil /\ m.type # p.twin.type
           revived  == p.twin.type = Deleted
           o == IF optional THEN m.opt ELSE p.twin.opt
           ty == IF revived THEN IF m.type # Nil THEN m.type ELSE "string" ELSE p.twin.type
           u == [p.twin EXCEPT !.opt = o, !.type = ty]
           c == p.cols \cup (IF optional THEN {"opt"} ELSE {})
                       \cup (IF retyped THEN {"metadata"} ELSE {})
                       \cup (IF revived THEN {"type"} ELSE {})
<1>1. s = IF p.end # "ok" THEN p ELSE Ended(u, c, "ok")
  BY Zenon DEF dealTwinCompare
<1>2. a \in Results /\ a.twin = t /\ a.cols = {} /\ a.end = "ok"
  BY EndedType DEF Ends
<1>3. "exp" \in Halves /\ "act" \in Halves
  BY Zenon DEF Halves
<1> HIDE DEF a
<1>4. HalfCompared(a, "exp", m, b)
  BY Zenon, <1>2, <1>3, CompareHalfMoves
<1> HIDE DEF b
<1>5. HalfCompared(b, "act", m, p)
  <2>1. b \in Results
    BY Zenon, <1>4 DEF HalfCompared
  <2> QED BY Zenon, <1>3, <2>1, CompareHalfMoves
<1> USE DEF HalfCompared
<1> HIDE DEF p
<1>6. /\ b.twin.act = t.act /\ b.twin.type = t.type
      /\ p.twin.exp = b.twin.exp /\ p.twin.opt = t.opt /\ p.twin.type = t.type
  BY Zenon, <1>2, <1>4, <1>5 DEF Untouched, Halves
<1>7. Grown(t, p.twin)
  BY Zenon, <1>2, <1>4, <1>5, <1>6 DEF Grown, Halves
<1>8. Kept(t, p)
  BY Zenon, <1>2, <1>4, <1>5, <1>6 DEF Kept, Halves
<1>9. \/ /\ p.twin.act.value = t.act.value
         /\ p.twin.act.version = Nil => t.act.version = Nil
      \/ /\ p.end = "ok" /\ p.twin.act.version # Nil
         /\ ValidateValue(TypeFor(t, m), p.twin.act.value)
  BY Zenon, <1>5, <1>6 DEF TypeFor
<1>10. HasVersion(t) => HasVersion(p.twin)
  BY Zenon, <1>9 DEF HasVersion
<1>11. CASE p.end # "ok"
  <2>1. s = p
    BY Zenon, <1>1, <1>11
  <2>2. Fits(t) => Fits(s.twin)
    BY Zenon, <1>6, <1>9, <1>11, <2>1 DEF Fits
  <2> QED BY Zenon, <1>5, <1>6, <1>7, <1>8, <1>10, <2>1, <2>2 DEF Moves, Halfway
<1>12. CASE p.end = "ok"
  <2>1. p.twin \in Twins /\ p.cols \in SUBSET Cols
    BY Zenon, <1>5 DEF Results
  <2>2. o \in BOOLEAN
    <3>1. p.twin.opt \in BOOLEAN
      BY Zenon, <2>1 DEF Twins
    <3> QED BY Zenon, <3>1
  <2>3. ty = TypeFor(t, m) /\ ty \in Types
    <3>1. t.type \in Types \cup {Deleted}
      BY Zenon DEF Twins
    <3> QED BY Zenon, <1>6, <3>1 DEF TypeFor, Types
  <2>4. c \in SUBSET Cols
    BY Zenon, <2>1 DEF Cols
  <2>5. s = Ended(u, c, "ok")
    BY Zenon, <1>1, <1>12
  <2>6. u = OptTypeSet(p.twin, o, ty)
    BY Zenon DEF OptTypeSet
  <2>7. ty \in Types \cup {Deleted}
    BY Zenon, <2>3
  <2>8. /\ "opt" \notin c => o = p.twin.opt
        /\ "type" \notin c => ty = p.twin.type
        /\ p.cols \subseteq c
    BY Zenon
  <2> HIDE DEF u, o, ty, c
  <2>9. /\ u \in Twins /\ u.opt = o /\ u.type = ty
        /\ u.exp = p.twin.exp /\ u.act = p.twin.act
    BY <2>1, <2>2, <2>6, <2>7, WithOptType
  <2>10. s \in Results /\ s.twin = u /\ s.cols = c /\ s.end = "ok"
    BY <2>4, <2>5, <2>9, EndedType DEF Ends
  <2>11. Grown(t, s.twin)
    BY Zenon, <1>7, <2>9, <2>10 DEF Grown, Halves
  <2>12. Kept(t, s)
    BY Zenon, <1>6, <1>8, <2>8, <2>9, <2>10 DEF Kept, Halves
  <2>13. HasVersion(t) => HasVersion(s.twin)
    BY Zenon, <1>10, <2>9, <2>10 DEF HasVersion
  <2>14. Fits(t) => Fits(s.twin)
    <3>1. CASE p.twin.act.value = t.act.value
      BY Zenon, <2>3, <2>9, <2>10, <3>1 DEF Fits, TypeFor
    <3>2. CASE ValidateValue(TypeFor(t, m), p.twin.act.value)
      BY Zenon, <2>3, <2>9, <2>10, <3>2 DEF Fits, Types, Deleted
    <3> QED BY Zenon, <1>9, <3>1, <3>2
  <2> QED BY Zenon, <2>10, <2>11, <2>12, <2>13, <2>14 DEF Moves, Halfway
<1> QED BY Zenon, <1>11, <1>12


\* The type dealTwinAdd gives a new twin.
TypeSent(m) == IF m.type # Nil THEN m.type ELSE "string"

\* What a message other than null may carry.
SentTwin(m) ==
    /\ \A f \in Halves : SentHalf(m[f]) /\ (m.type = Deleted => m[f].value = Nil)
    /\ m.type \in Types \cup {Nil, Deleted}
    /\ m.opt \in {Nil, FALSE}

\* One half of dealTwinAdd.
LEMMA AddHalfType ==
  ASSUME Constants, NEW m, NEW f \in Halves, SentTwin(m), NEW kind, NEW r, r = AddHalf(m, f, kind)
  PROVE  /\ r.half \in MemHalf
         /\ r.half.value \in Values => /\ r.half.version # Nil
                                       /\ ValidateValue(TypeSent(m), r.half.value)
                                       /\ m.type # Deleted
<1> DEFINE v == dealVersion(Zero, m[f].version, kind)
<1>1. SentHalf(m[f]) /\ (m.type = Deleted => m[f].value = Nil)
  BY Zenon DEF SentTwin
<1>2. v.version \in Versions
  BY Zenon, <1>1, ZeroType, dealVersionGrows DEF SentHalf
<1>3. Nil \notin Values
  BY Zenon DEF Constants, Values
<1>4. CASE r.half = NoHalf
  BY <1>3, <1>4 DEF NoHalf, MemHalf, Half
<1>5. CASE \E w \in Versions \cup {Nil} : r.half = [NoHalf EXCEPT !.version = w]
  BY Zenon, <1>3, <1>5 DEF NoHalf, MemHalf, Half
<1>6. CASE /\ r.half = [value |-> m[f].value, version |-> v.version]
           /\ m[f].value # Nil /\ ValidateValue(TypeSent(m), m[f].value)
  <2> HIDE DEF v
  <2>1. r.half.value = m[f].value /\ r.half.version = v.version
    BY <1>6
  <2>2. r.half \in MemHalf
    BY <1>1, <1>2, <1>6 DEF MemHalf, Half, SentHalf
  <2> QED BY Zenon, <1>1, <1>2, <1>6, <2>1, <2>2 DEF Constants
<1>7. \/ r.half = NoHalf
      \/ \E w \in Versions \cup {Nil} : r.half = [NoHalf EXCEPT !.version = w]
      \/ /\ r.half = [value |-> m[f].value, version |-> v.version]
         /\ m[f].value # Nil /\ ValidateValue(TypeSent(m), m[f].value)
  <2>1. m[f].version \in Versions \cup {Nil}
    BY Zenon, <1>1 DEF SentHalf
  <2>2. CASE m[f].value = Nil
    <3> DEFINE w == IF m.type = Deleted THEN m[f].version ELSE Nil
    <3>1. w \in Versions \cup {Nil}
      BY Zenon, <2>1
    <3>2. r.half = [NoHalf EXCEPT !.version = w]
      BY Zenon, <2>2 DEF AddHalf
    <3> QED BY Zenon, <3>1, <3>2
  <2>3. CASE m[f].value # Nil
    BY Zenon, <2>3 DEF AddHalf, TypeSent
  <2> QED BY Zenon, <2>2, <2>3
<1> QED BY Zenon, <1>4, <1>5, <1>6, <1>7

LEMMA TwinRecord ==
  ASSUME NEW ty \in Types \cup {Deleted}, NEW o \in BOOLEAN, NEW e \in MemHalf, NEW a \in MemHalf,
         NEW t, t = [type |-> ty, opt |-> o, exp |-> e, act |-> a]
  PROVE  t \in Twins /\ t.type = ty /\ t.opt = o /\ t.exp = e /\ t.act = a
  BY Zenon DEF Twins, MemHalf

\* The columns of an insert.
AllCols == {"exp", "act", "opt", "type"}

\* dealTwinAdd: no twin, or a whole one.
LEMMA dealTwinAddMakes ==
  ASSUME Constants, NEW m, m # Nil => SentTwin(m), NEW kind, NEW s, s = dealTwinAdd(m, kind)
  PROVE  \/ s.twin = Nil /\ s.cols = {} /\ s.end \in {"ok", "error"}
         \/ /\ s.twin \in Twins /\ s.cols = AllCols /\ s.end = "ok"
            /\ HasVersion(s.twin) /\ Fits(s.twin)
<1> DEFINE e == AddHalf(m, "exp", kind)
           a == AddHalf(m, "act", kind)
           o == IF m.opt # Nil THEN m.opt ELSE TRUE
           twin == [type |-> TypeSent(m), opt |-> o, exp |-> e.half, act |-> a.half]
<1>1. \/ s = Ended(Nil, {}, "ok") \/ s = Ended(Nil, {}, "error")
      \/ s = Ended(twin, AllCols, "ok") /\ m # Nil
  BY Zenon DEF dealTwinAdd, TypeSent, AllCols
<1>2. CASE s = Ended(Nil, {}, "ok") \/ s = Ended(Nil, {}, "error")
  BY <1>2 DEF Ended
<1>3. CASE s = Ended(twin, AllCols, "ok") /\ m # Nil
  <2>1. SentTwin(m) /\ "exp" \in Halves /\ "act" \in Halves
    BY Zenon, <1>3 DEF Halves
  <2>2. e.half \in MemHalf
    BY Zenon, <2>1, AddHalfType
  <2>3. /\ a.half \in MemHalf
        /\ a.half.value \in Values => /\ a.half.version # Nil
                                      /\ ValidateValue(TypeSent(m), a.half.value)
                                      /\ m.type # Deleted
    BY Zenon, <2>1, AddHalfType
  <2>4. o \in BOOLEAN
    BY Zenon, <2>1 DEF SentTwin
  <2>5. /\ TypeSent(m) \in Types \cup {Deleted}
        /\ m.type # Deleted => TypeSent(m) # Deleted
    BY Zenon, <2>1 DEF SentTwin, TypeSent, Types, Deleted
  <2> HIDE DEF e, a, o
  <2>6. twin \in Twins /\ twin.type = TypeSent(m) /\ twin.act = a.half
    BY <2>2, <2>3, <2>4, <2>5, TwinRecord
  <2> HIDE DEF twin
  <2>7. s.twin = twin /\ s.cols = AllCols /\ s.end = "ok"
    BY <1>3 DEF Ended
  <2>8. HasVersion(twin) /\ Fits(twin)
    BY Zenon, <2>3, <2>5, <2>6 DEF HasVersion, Fits
  <2> QED BY Zenon, <2>6, <2>7, <2>8
<1> QED BY Zenon, <1>1, <1>2, <1>3


-----------------------------------------------------------------------------
\* The twin and the row look the same to a reader.
Looks(t, r) ==
    /\ t.type = r.type /\ t.opt = r.opt
    /\ \A f \in Halves : Alike(t[f], r[f])

\* The inductive invariant.
IInv ==
    /\ TypeOK
    /\ row # Nil => mem # Nil /\ Grown(row, mem)
    /\ diverged # "now" => (mem = Nil) = (row = Nil) /\ (mem # Nil => Looks(mem, row))
    /\ mem # Nil => HasVersion(mem)
    /\ row # Nil => VersionStored(row)
    /\ diverged = "no" /\ mem # Nil => Fits(mem)

LEMMA RestSent ==
  ASSUME Constants, NEW m \in RestMsgs, m # Nil
  PROVE  SentTwin(m) /\ m.type # Deleted
<1>1. m.type \in Types \cup {Nil} /\ m.opt \in {Nil, FALSE}
  BY Zenon DEF RestMsgs
<1>2. \A f \in Halves : m[f].value \in Values \cup {Nil} /\ m[f].version = Nil
  BY Zenon DEF RestMsgs, Halves, Values
<1> QED BY Zenon, <1>1, <1>2 DEF SentTwin, SentHalf, Types, Deleted, Constants


LEMMA SyncSent ==
  ASSUME Constants, NEW m \in SyncMsgs
  PROVE  SentTwin(m) /\ m # Nil
<1> DEFINE Sent(V) == [value : V, version : SyncVersions \cup {Nil}]
           sets == m \in [type : Types, opt : {Nil}, exp : Sent({"txt"}) \cup {NoHalf},
                          act : Sent(Values) \cup {NoHalf}]
           deletes == m \in [type : {Deleted}, opt : {Nil}, exp : Sent({Nil}), act : Sent({Nil})]
           lacks == m = [type |-> Nil, opt |-> Nil, exp |-> NoHalf, act |-> NoHalf]
<1>1. sets \/ deletes \/ lacks
  BY Zenon DEF SyncMsgs
<1>2. \A V : \A h \in Sent(V) : h.value \in V /\ h.version \in Versions \cup {Nil}
  BY Zenon DEF Constants
<1>3. NoHalf.value = Nil /\ NoHalf.version = Nil
  BY Zenon DEF NoHalf
<1> HIDE DEF Sent
<1>4. CASE sets
  <2>1. /\ m.type \in Types /\ m.opt = Nil
        /\ m.exp \in Sent({"txt"}) \cup {NoHalf} /\ m.act \in Sent(Values) \cup {NoHalf}
        /\ m = [type |-> m.type, opt |-> m.opt, exp |-> m.exp, act |-> m.act]
    BY Zenon, <1>4
  <2>2. SentHalf(m.exp) /\ SentHalf(m.act)
    BY <1>2, <1>3, <2>1 DEF SentHalf, Values
  <2>3. m # Nil
    BY Zenon, <2>1 DEF Constants
  <2> QED BY Zenon, <2>1, <2>2, <2>3 DEF SentTwin, Halves, Types, Deleted
<1>5. CASE deletes
  <2>1. /\ m.type = Deleted /\ m.opt = Nil /\ m.exp \in Sent({Nil}) /\ m.act \in Sent({Nil})
        /\ m = [type |-> m.type, opt |-> m.opt, exp |-> m.exp, act |-> m.act]
    BY Zenon, <1>5
  <2>2. SentHalf(m.exp) /\ SentHalf(m.act) /\ m.exp.value = Nil /\ m.act.value = Nil
    BY <1>2, <2>1 DEF SentHalf
  <2>3. m # Nil
    BY Zenon, <2>1 DEF Constants
  <2> QED BY Zenon, <2>1, <2>2, <2>3 DEF SentTwin, Halves
<1>6. CASE lacks
  <2>1. /\ m.type = Nil /\ m.opt = Nil /\ m.exp = NoHalf /\ m.act = NoHalf
        /\ m = [type |-> m.type, opt |-> m.opt, exp |-> m.exp, act |-> m.act]
    BY Zenon, <1>6
  <2>2. SentHalf(m.exp) /\ SentHalf(m.act) /\ m.exp.value = Nil /\ m.act.value = Nil
    BY Zenon, <1>3, <2>1 DEF SentHalf
  <2>3. m # Nil
    BY Zenon, <2>1 DEF Constants
  <2> QED BY Zenon, <2>1, <2>2, <2>3 DEF SentTwin, Halves
<1> QED BY Zenon, <1>1, <1>4, <1>5, <1>6

\* The messages of the two kinds of update.
Message(m, kind) ==
    \/ kind = "rest" /\ m \in RestMsgs
    \/ kind = "sync" /\ m \in SyncMsgs

\* Every case of DealMsgTwin.
LEMMA DealMsgTwinMoves ==
  ASSUME Constants, mem \in Twins \cup {Nil}, NEW m, NEW kind, Message(m, kind),
         NEW s, s = DealMsgTwin(m, kind)
  PROVE  /\ mem # Nil => Moves(mem, s)
         /\ mem = Nil => \/ s.twin = Nil /\ s.cols = {} /\ s.end \in {"ok", "error", "panic"}
                         \/ /\ s.twin \in Twins /\ s.cols = AllCols /\ s.end = "ok"
                            /\ HasVersion(s.twin) /\ Fits(s.twin)
<1>1. /\ m # Nil => SentTwin(m)
      /\ kind = "sync" => SentTwin(m) /\ m # Nil
      /\ kind = "rest" /\ m # Nil => m.type # Deleted
      /\ kind \in {"rest", "sync"}
  BY Zenon, RestSent, SyncSent DEF Message
<1>2. CASE kind = "sync" /\ m.type = Nil
  <2>1. s = Ended(mem, {}, "panic")
    BY Zenon, <1>2 DEF DealMsgTwin
  <2>2. s.twin = mem /\ s.cols = {} /\ s.end = "panic"
    BY <2>1 DEF Ended
  <2>3. ASSUME mem # Nil PROVE Moves(mem, s)
    <3>1. mem \in Twins
      BY Zenon, <2>3
    <3>2. s \in Results
      BY <2>1, <3>1, EndedType DEF Ends
    <3> QED BY Zenon, <2>2, <3>1, <3>2, GrownRefl DEF Moves
  <2> QED BY Zenon, <2>2, <2>3
<1>3. CASE ~(kind = "sync" /\ m.type = Nil) /\ mem = Nil
  <2>1. s = dealTwinAdd(m, kind)
    BY Zenon, <1>3 DEF DealMsgTwin
  <2> QED BY Zenon, <1>1, <1>3, <2>1, dealTwinAddMakes
<1>4. CASE /\ ~(kind = "sync" /\ m.type = Nil) /\ mem # Nil
           /\ m = Nil \/ (kind = "sync" /\ m.type = Deleted)
  <2>1. s = dealTwinDelete(mem, m, kind)
    BY Zenon, <1>4 DEF DealMsgTwin
  <2>2. kind # "rest" => \A f \in Halves : m[f].version \in Versions \cup {Nil}
    BY Zenon, <1>1 DEF SentTwin, SentHalf
  <2>3. mem \in Twins
    BY Zenon, <1>4
  <2> QED BY Zenon, <1>4, <2>1, <2>2, <2>3, dealTwinDeleteMoves
<1>5. CASE /\ ~(kind = "sync" /\ m.type = Nil) /\ mem # Nil
           /\ ~(m = Nil \/ (kind = "sync" /\ m.type = Deleted))
  <2>1. s = dealTwinCompare(mem, m, kind)
    BY Zenon, <1>5 DEF DealMsgTwin
  <2>2. /\ \A f \in Halves : SentHalf(m[f])
        /\ m.type \in Types \cup {Nil} /\ m.opt \in {Nil, FALSE}
    BY Zenon, <1>1, <1>5 DEF SentTwin
  <2>3. mem \in Twins
    BY Zenon, <1>5
  <2> QED BY Zenon, <1>5, <2>1, <2>2, <2>3, dealTwinCompareMoves
<1> QED BY Zenon, <1>2, <1>3, <1>4, <1>5

-----------------------------------------------------------------------------
(* Memory and row.                                                         *)

\* A half that is written reads as before.
LEMMA ColumnReads ==
  ASSUME Constants, NEW h \in MemHalf, NEW c, c = Column(h)
  PROVE  /\ c \in RowHalf /\ Alike(h, c) /\ VersionOf(c) = VersionOf(h)
         /\ c.value \in Values => h.value = c.value
         /\ c.version = Empty => h.version = Nil
<1>1. /\ h.value \in Values \cup {Blank, Nil} /\ h.version \in Versions \cup {Nil}
      /\ c.value = IF h.value \in {Nil, Blank} THEN Empty ELSE h.value
      /\ c.version = IF h.version = Nil THEN Empty ELSE h.version
      /\ c \in RowHalf
  BY Zenon DEF MemHalf, RowHalf, Half, Column
<1>2. VersionOf(c) = VersionOf(h)
  BY Zenon, <1>1 DEF VersionOf
<1>3. Column(c).value = Column(h).value
  BY Zenon, <1>1 DEF Column, Constants, Values, Blank
<1>4. c.value \in Values => h.value = c.value
  BY Zenon, <1>1 DEF Constants, Values
<1>5. c.version = Empty => h.version = Nil
  BY Zenon, <1>1 DEF Constants
<1> QED BY Zenon, <1>1, <1>2, <1>3, <1>4, <1>5 DEF Alike

\* A half that is read back reads as before.
LEMMA PointerReads ==
  ASSUME Constants, NEW h \in RowHalf, NEW p, p = Pointer(h)
  PROVE  /\ p \in MemHalf /\ Alike(p, h) /\ VersionOf(p) = VersionOf(h)
         /\ p.value \in Values => h.value = p.value
         /\ p.version = Nil => h.version = Empty
<1>1. /\ h.value \in Values \cup {Empty} /\ h.version \in Versions \cup {Empty}
      /\ h = [value |-> h.value, version |-> h.version]
  BY Zenon DEF RowHalf, Half
<1>2. /\ p.value = IF h.value = Empty THEN Nil ELSE h.value
      /\ p.version = IF h.version = Empty THEN Nil ELSE h.version
      /\ p = [value |-> p.value, version |-> p.version]
  BY Zenon, <1>1 DEF Pointer
<1>3. p \in MemHalf
  BY Zenon, <1>1, <1>2 DEF MemHalf, Half
<1>4. VersionOf(p) = VersionOf(h)
  BY Zenon, <1>1, <1>2 DEF VersionOf
<1>5. Column(p).value = Column(h).value
  BY Zenon, <1>1, <1>2 DEF Column, Constants, Values, Blank
<1>6. p.value \in Values => h.value = p.value
  BY Zenon, <1>1, <1>2 DEF Constants, Values
<1>7. p.version = Nil => h.version = Empty
  BY Zenon, <1>1, <1>2 DEF Constants
<1> QED BY Zenon, <1>3, <1>4, <1>5, <1>6, <1>7 DEF Alike

LEMMA AlikeValues ==
  ASSUME Constants, NEW h, h \in MemHalf \/ h \in RowHalf, NEW g, g \in MemHalf \/ g \in RowHalf,
         Alike(h, g), h.value \in Values
  PROVE  g.value = h.value
<1>1. h.value \in Values \cup {Blank, Nil, Empty} /\ g.value \in Values \cup {Blank, Nil, Empty}
  BY Zenon DEF MemHalf, RowHalf, Half
<1>2. Column(h).value = Column(g).value
  BY Zenon DEF Alike
<1> QED BY Zenon, <1>1, <1>2 DEF Column, Constants, Values, Blank


LEMMA TwinsAreThere == Constants => Nil \notin Twins /\ Nil \notin Rows
<1> SUFFICES ASSUME Constants, NEW t, t \in Twins \/ t \in Rows PROVE t # Nil
  BY Zenon
<1>1. t = [type |-> t.type, opt |-> t.opt, exp |-> t.exp, act |-> t.act]
  BY Zenon DEF Twins, Rows
<1> QED BY Zenon, <1>1 DEF Constants

LEMMA RowHalves ==
  ASSUME NEW r \in Rows, NEW f \in Halves
  PROVE  r[f] \in RowHalf /\ VersionOf(r[f]) \in Versions
<1>1. r[f] \in RowHalf
  BY Zenon DEF Rows, RowHalf, Halves
<1> QED BY Zenon, <1>1, VersionOfType

LEMMA FitsLooks ==
  ASSUME Constants, NEW t, t \in Twins \/ t \in Rows, NEW r, r \in Twins \/ r \in Rows,
         Looks(t, r)
  PROVE  Fits(t) <=> Fits(r)
<1>1. /\ t["act"] \in MemHalf \/ t["act"] \in RowHalf
      /\ r["act"] \in MemHalf \/ r["act"] \in RowHalf
  BY Zenon, TwinHalves, RowHalves DEF Halves
<1>2. Alike(t.act, r.act) /\ Alike(r.act, t.act) /\ t.type = r.type
  BY Zenon DEF Looks, Halves, Alike
<1>3. \/ t.act.value = r.act.value
      \/ t.act.value \notin Values /\ r.act.value \notin Values
  BY Zenon, <1>1, <1>2, AlikeValues
<1> QED BY Zenon, <1>2, <1>3 DEF Fits

\* The twin read from the row looks like it.
LEMMA ReadsSame ==
  ASSUME Constants, NEW r \in Rows, NEW t, t = DeviceTwinToMsgTwin(r)
  PROVE  /\ t \in Twins /\ Looks(t, r) /\ Grown(r, t)
         /\ VersionStored(r) => HasVersion(t)
<1> DEFINE e == Pointer(r.exp)
           a == Pointer(r.act)
<1>1. r.exp \in RowHalf /\ r.act \in RowHalf /\ r.type \in Types \cup {Deleted} /\ r.opt \in BOOLEAN
  BY Zenon DEF Rows, RowHalf
<1>2. /\ e \in MemHalf /\ Alike(e, r.exp) /\ VersionOf(e) = VersionOf(r.exp)
      /\ a \in MemHalf /\ Alike(a, r.act) /\ VersionOf(a) = VersionOf(r.act)
      /\ a.value \in Values => r.act.value = a.value
      /\ a.version = Nil => r.act.version = Empty
  BY Zenon, <1>1, PointerReads
<1>3. t = [type |-> r.type, opt |-> r.opt, exp |-> e, act |-> a]
  <2>1. t = [r EXCEPT !.exp = e, !.act = a]
    BY Zenon, TwinsAreThere DEF DeviceTwinToMsgTwin
  <2> HIDE DEF e, a
  <2> QED BY Zenon, <2>1 DEF Rows
<1> HIDE DEF e, a
<1>4. t \in Twins /\ t.type = r.type /\ t.opt = r.opt /\ t.exp = e /\ t.act = a
  BY <1>1, <1>2, <1>3, TwinRecord
<1>5. Looks(t, r)
  BY Zenon, <1>2, <1>4 DEF Looks, Halves
<1>6. VersionOf(r.exp) \in Versions /\ VersionOf(r.act) \in Versions
  BY Zenon, <1>1, VersionOfType
<1>7. Grown(r, t)
  BY Zenon, <1>2, <1>4, <1>6, BelowRefl DEF Grown, Halves
<1> QED BY Zenon, <1>2, <1>4, <1>5, <1>7 DEF HasVersion, VersionStored

\* The row that holds the columns of the twin t.
RowOf(t) == [type |-> t.type, opt |-> t.opt, exp |-> Column(t.exp), act |-> Column(t.act)]

LEMMA RowRecord ==
  ASSUME NEW ty \in Types \cup {Deleted}, NEW o \in BOOLEAN, NEW e \in RowHalf, NEW a \in RowHalf,
         NEW r, r = [type |-> ty, opt |-> o, exp |-> e, act |-> a]
  PROVE  r \in Rows /\ r.type = ty /\ r.opt = o /\ r.exp = e /\ r.act = a
  BY Zenon DEF Rows, RowHalf

LEMMA RowOfTwin ==
  ASSUME Constants, NEW t \in Twins, NEW r, r = RowOf(t)
  PROVE  /\ r \in Rows /\ r.type = t.type /\ r.opt = t.opt
         /\ r.exp = Column(t.exp) /\ r.act = Column(t.act)
         /\ \A f \in Halves : Alike(t[f], r[f]) /\ VersionOf(r[f]) = VersionOf(t[f])
         /\ HasVersion(t) => VersionStored(r)
<1> DEFINE e == Column(t.exp)
           a == Column(t.act)
<1>1. t.exp \in MemHalf /\ t.act \in MemHalf /\ t.type \in Types \cup {Deleted} /\ t.opt \in BOOLEAN
  BY Zenon DEF Twins, MemHalf
<1>2. /\ e \in RowHalf /\ Alike(t.exp, e) /\ VersionOf(e) = VersionOf(t.exp)
      /\ a \in RowHalf /\ Alike(t.act, a) /\ VersionOf(a) = VersionOf(t.act)
      /\ a.value \in Values => t.act.value = a.value
      /\ a.version = Empty => t.act.version = Nil
  BY Zenon, <1>1, ColumnReads
<1>3. r = [type |-> t.type, opt |-> t.opt, exp |-> e, act |-> a]
  BY Zenon DEF RowOf
<1>4. r \in Rows /\ r.type = t.type /\ r.opt = t.opt /\ r.exp = e /\ r.act = a
  <2> HIDE DEF e, a
  <2> QED BY <1>1, <1>2, <1>3, RowRecord
<1> QED BY Zenon, <1>2, <1>4 DEF Halves, HasVersion, VersionStored

\* The update of some columns of a row.
LEMMA MixedRow ==
  ASSUME NEW r \in Rows, NEW n \in Rows, NEW c,
         NEW q, q = [f \in DOMAIN r |-> IF f \in c THEN n[f] ELSE r[f]]
  PROVE  /\ q \in Rows
         /\ \A f \in Halves : q[f] = IF f \in c THEN n[f] ELSE r[f]
         /\ q.opt = IF "opt" \in c THEN n.opt ELSE r.opt
         /\ q.type = IF "type" \in c THEN n.type ELSE r.type
  BY Zenon DEF Rows, Halves


LEMMA GrownTrans ==
  ASSUME NEW r, r \in Twins \/ r \in Rows, NEW t \in Twins, NEW u, u \in Twins \/ u \in Rows,
         Grown(r, t), Grown(t, u)
  PROVE  Grown(r, u)
<1> SUFFICES ASSUME NEW f \in Halves PROVE Below(VersionOf(r[f]), VersionOf(u[f]))
  BY Zenon DEF Grown
<1>1. VersionOf(r[f]) \in Versions /\ VersionOf(t[f]) \in Versions /\ VersionOf(u[f]) \in Versions
  BY Zenon, TwinHalves, RowHalves
<1> QED BY Zenon, <1>1, BelowTrans DEF Grown

\* What a handler leaves in memory, whether or not it then writes the row.
LEMMA LeftInMemory ==
  ASSUME Constants, IInv, NEW m, NEW kind, Message(m, kind), NEW s, s = DealMsgTwin(m, kind)
  PROVE  /\ s.twin \in Twins \cup {Nil}
         /\ row # Nil => s.twin # Nil /\ Grown(row, s.twin)
         /\ s.twin # Nil => HasVersion(s.twin)
<1>1. mem \in Twins \cup {Nil} /\ row \in Rows \cup {Nil}
  BY Zenon DEF IInv, TypeOK
<1>2. CASE mem = Nil
  BY Zenon, <1>1, <1>2, DealMsgTwinMoves DEF IInv
<1>3. CASE mem # Nil
  <2>1. mem \in Twins /\ Moves(mem, s)
    BY Zenon, <1>1, <1>3, DealMsgTwinMoves
  <2>2. s.twin \in Twins /\ Grown(mem, s.twin) /\ HasVersion(s.twin)
    BY Zenon, <1>3, <2>1 DEF Moves, Results, IInv
  <2>3. s.twin # Nil
    BY Zenon, <2>2, TwinsAreThere
  <2>4. ASSUME row # Nil PROVE Grown(row, s.twin)
    <3>1. row \in Rows /\ Grown(row, mem)
      BY Zenon, <1>1, <2>4 DEF IInv
    <3> QED BY Zenon, <2>1, <2>2, <3>1, GrownTrans
  <2> QED BY Zenon, <2>2, <2>3, <2>4
<1> QED BY Zenon, <1>2, <1>3

\* A handler that writes nothing and is not refused halfway leaves a twin
\* that looks like the row.
LEMMA NothingToWrite ==
  ASSUME Constants, IInv, NEW m, NEW kind, Message(m, kind), NEW s, s = DealMsgTwin(m, kind),
         s.end \in {"ok", "refused"}, s.cols = {}, mem # Nil => ~Halfway(mem, s)
  PROVE  /\ diverged # "now" => (s.twin = Nil) = (row = Nil) /\ (s.twin # Nil => Looks(s.twin, row))
         /\ diverged = "no" /\ s.twin # Nil => Fits(s.twin)
<1>1. mem \in Twins \cup {Nil} /\ row \in Rows \cup {Nil}
  BY Zenon DEF IInv, TypeOK
<1>2. CASE mem = Nil
  <2>1. s.twin = Nil
    BY <1>1, <1>2, DealMsgTwinMoves DEF AllCols
  <2> QED BY Zenon, <1>2, <2>1 DEF IInv
<1>3. CASE mem # Nil
  <2>1. mem \in Twins /\ Moves(mem, s)
    BY Zenon, <1>1, <1>3, DealMsgTwinMoves
  <2>2. Kept(mem, s) /\ s.twin \in Twins
    BY Zenon, <1>3, <2>1 DEF Moves, Results
  <2>3. s.twin # Nil
    BY Zenon, <2>2, TwinsAreThere
  <2>4. ASSUME diverged # "now" PROVE row # Nil /\ Looks(s.twin, row)
    <3>1. row # Nil /\ Looks(mem, row)
      BY Zenon, <1>3, <2>4 DEF IInv
    <3> QED BY Zenon, <2>2, <3>1 DEF Kept, Looks, Alike
  <2>5. ASSUME diverged = "no" PROVE Fits(s.twin)
    BY Zenon, <1>3, <2>1, <2>5 DEF Moves, IInv
  <2> QED BY Zenon, <2>3, <2>4, <2>5
<1> QED BY Zenon, <1>2, <1>3

\* The transaction of a handler stores what it left in memory.
LEMMA DeviceTwinTransStores ==
  ASSUME Constants, IInv, NEW m, NEW kind, Message(m, kind), NEW s, s = DealMsgTwin(m, kind),
         s.end \in {"ok", "refused"}, s.cols # {}, NEW q, q = DeviceTwinTrans(s)
  PROVE  /\ q \in Rows \cup {Nil} /\ s.twin # Nil
         /\ row # Nil => q # Nil /\ Grown(row, q)
         /\ q # Nil => Grown(q, s.twin) /\ VersionStored(q)
         /\ diverged # "now" => q # Nil /\ Looks(s.twin, q)
         /\ diverged = "no" => Fits(s.twin)
<1>1. mem \in Twins \cup {Nil} /\ row \in Rows \cup {Nil}
  BY Zenon DEF IInv, TypeOK
<1> DEFINE n == RowOf(s.twin)
<1>2. CASE mem = Nil
  <2>1. s.twin \in Twins /\ HasVersion(s.twin) /\ Fits(s.twin)
    BY Zenon, <1>1, <1>2, DealMsgTwinMoves
  <2>2. q = n /\ row = Nil
    BY Zenon, <1>2 DEF DeviceTwinTrans, RowOf, IInv
  <2>3. /\ n \in Rows /\ n.type = s.twin.type /\ n.opt = s.twin.opt
        /\ \A f \in Halves : Alike(s.twin[f], n[f]) /\ VersionOf(n[f]) = VersionOf(s.twin[f])
        /\ VersionStored(n)
    BY Zenon, <2>1, RowOfTwin
  <2> HIDE DEF n
  <2>4. Looks(s.twin, n)
    BY Zenon, <2>3 DEF Looks
  <2>5. Grown(n, s.twin)
    BY Zenon, <2>1, <2>3, TwinHalves, BelowRefl DEF Grown
  <2> QED BY Zenon, <2>1, <2>2, <2>3, <2>4, <2>5, TwinsAreThere
<1>3. CASE mem # Nil
  <2>1. mem \in Twins /\ Moves(mem, s)
    BY Zenon, <1>1, <1>3, DealMsgTwinMoves
  <2>2. /\ s.twin \in Twins /\ Grown(mem, s.twin) /\ HasVersion(s.twin) /\ Kept(mem, s)
        /\ diverged = "no" => Fits(s.twin)
    BY Zenon, <1>3, <2>1 DEF Moves, Results, IInv, Halfway
  <2>3. s.twin # Nil
    BY Zenon, <2>2, TwinsAreThere
  <2>4. CASE row = Nil
    <3>1. q = Nil
      BY Zenon, <1>3, <2>4 DEF DeviceTwinTrans
    <3> QED BY Zenon, <1>3, <2>2, <2>3, <2>4, <3>1 DEF IInv
  <2>5. CASE row # Nil
    <3>1. row \in Rows /\ Grown(row, mem) /\ VersionStored(row)
      BY Zenon, <1>1, <2>5 DEF IInv
    <3>2. q = [f \in DOMAIN row |-> IF f \in s.cols THEN n[f] ELSE row[f]]
      BY Zenon, <1>3, <2>5 DEF DeviceTwinTrans, RowOf
    <3>3. /\ n \in Rows /\ n.type = s.twin.type /\ n.opt = s.twin.opt
          /\ \A f \in Halves : Alike(s.twin[f], n[f]) /\ VersionOf(n[f]) = VersionOf(s.twin[f])
          /\ VersionStored(n)
      BY Zenon, <2>2, RowOfTwin
    <3> HIDE DEF n
    <3>4. /\ q \in Rows
          /\ \A f \in Halves : q[f] = IF f \in s.cols THEN n[f] ELSE row[f]
          /\ q.opt = IF "opt" \in s.cols THEN n.opt ELSE row.opt
          /\ q.type = IF "type" \in s.cols THEN n.type ELSE row.type
      BY <3>1, <3>2, <3>3, MixedRow
    <3>5. q # Nil
      BY Zenon, <3>4, TwinsAreThere
    <3>6. Grown(row, s.twin)
      BY Zenon, <2>1, <2>2, <3>1, GrownTrans
    <3>7. Grown(row, q)
      BY Zenon, <3>1, <3>3, <3>4, <3>6, RowHalves, BelowRefl DEF Grown
    <3>8. Grown(q, s.twin)
      BY Zenon, <2>2, <3>3, <3>4, <3>6, TwinHalves, BelowRefl DEF Grown
    <3>9. VersionStored(q)
      BY Zenon, <3>1, <3>3, <3>4 DEF VersionStored, Halves
    <3>10. ASSUME diverged # "now" PROVE Looks(s.twin, q)
      <4>1. Looks(mem, row)
        BY Zenon, <1>3, <3>10 DEF IInv
      <4>2. s.twin.type = q.type /\ s.twin.opt = q.opt
        BY Zenon, <2>2, <3>3, <3>4, <4>1 DEF Looks, Kept
      <4>3. ASSUME NEW f \in Halves PROVE Alike(s.twin[f], q[f])
        <5>1. CASE f \in s.cols
          BY Zenon, <3>3, <3>4, <5>1
        <5>2. CASE f \notin s.cols
          <6>1. Alike(s.twin[f], mem[f]) /\ Alike(mem[f], row[f]) /\ q[f] = row[f]
            BY Zenon, <2>2, <3>4, <4>1, <5>2 DEF Looks, Kept
          <6> QED BY Zenon, <6>1 DEF Alike
        <5> QED BY Zenon, <5>1, <5>2
      <4> QED BY Zenon, <4>2, <4>3 DEF Looks
    <3> QED BY Zenon, <2>2, <2>3, <3>4, <3>5, <3>7, <3>8, <3>9, <3>10
  <2> QED BY Zenon, <2>4, <2>5
<1> QED BY Zenon, <1>2, <1>3


-----------------------------------------------------------------------------
(* The steps.                                                              *)

Deaths == {"no", "reading", "refusing"}

\* The step of the row StoredVersionsGrow speaks of.
RowGrows == row # Nil => row' # Nil /\ Grown(row, row')

LEMMA RowStays ==
  ASSUME IInv, row' = row
  PROVE  RowGrows
<1>1. row \in Rows \cup {Nil}
  BY Zenon DEF IInv, TypeOK
<1> QED BY Zenon, <1>1, RowHalves, BelowRefl DEF RowGrows, Grown

LEMMA ReadBackStep ==
  ASSUME Constants, IInv, mem' = DeviceTwinToMsgTwin(row), row' = row, diverged' = ReadBack,
         died' \in Deaths
  PROVE  IInv'
<1>1. mem \in Twins \cup {Nil} /\ row \in Rows \cup {Nil} /\ diverged \in {"no", "now", "once"}
  BY Zenon DEF IInv, TypeOK
<1>2. diverged' \in {"no", "once"} /\ (diverged' = "no" => diverged = "no")
  BY Zenon DEF ReadBack
<1>3. CASE row = Nil
  <2>1. mem' = Nil
    BY Zenon, <1>3 DEF DeviceTwinToMsgTwin
  <2> QED BY Zenon, <1>2, <1>3, <2>1 DEF IInv, TypeOK, Deaths
<1>4. CASE row # Nil
  <2>1. row \in Rows /\ VersionStored(row) /\ mem # Nil
    BY Zenon, <1>1, <1>4 DEF IInv
  <2>2. mem' \in Twins /\ Looks(mem', row) /\ Grown(row, mem') /\ HasVersion(mem')
    BY Zenon, <2>1, ReadsSame
  <2>3. ASSUME diverged = "no" PROVE Fits(mem')
    <3>1. mem \in Twins /\ Looks(mem, row) /\ Fits(mem)
      BY Zenon, <1>1, <2>1, <2>3 DEF IInv
    <3>2. Fits(row)
      BY Zenon, <2>1, <3>1, FitsLooks
    <3> QED BY Zenon, <2>1, <2>2, <3>2, FitsLooks
  <2>4. mem' # Nil
    BY Zenon, <2>2, TwinsAreThere
  <2> QED BY Zenon, <1>2, <1>4, <2>1, <2>2, <2>3, <2>4 DEF IInv, TypeOK, Deaths
<1> QED BY Zenon, <1>3, <1>4

\* The memory keeps what the handler left in it, and the row is another one.
LEMMA LeftApart ==
  ASSUME Constants, IInv, NEW m, NEW kind, Message(m, kind), NEW s, s = DealMsgTwin(m, kind),
         mem' = s.twin, row' = row, diverged' = "now", died' \in Deaths
  PROVE  IInv'
<1>1. /\ s.twin \in Twins \cup {Nil}
      /\ row # Nil => s.twin # Nil /\ Grown(row, s.twin)
      /\ s.twin # Nil => HasVersion(s.twin)
  BY Zenon, LeftInMemory
<1> QED BY Zenon, <1>1 DEF IInv, TypeOK, Deaths

LEMMA SyncDeviceFromSqliteStep ==
  ASSUME Constants, IInv, NEW m, NEW kind, Message(m, kind), NEW s, s = DealMsgTwin(m, kind),
         SyncDeviceFromSqlite(s), row' = row, died' = died
  PROVE  IInv'
<1>1. died' \in Deaths
  BY Zenon DEF IInv, TypeOK, Deaths
<1>2. CASE mem' = DeviceTwinToMsgTwin(row) /\ diverged' = ReadBack
  BY Zenon, <1>1, <1>2, ReadBackStep
<1>3. CASE mem' = s.twin /\ diverged' = "now"
  BY Zenon, <1>1, <1>3, LeftApart
<1> QED BY Zenon, <1>2, <1>3 DEF SyncDeviceFromSqlite

LEMMA DealDeviceTwinStep ==
  ASSUME Constants, IInv, NEW m, NEW kind, Message(m, kind), DealDeviceTwin(m, kind)
  PROVE  IInv' /\ RowGrows
<1> DEFINE s == DealMsgTwin(m, kind)
           halfway == s.end = "refused" /\ s.cols = {} /\ s.twin.type # mem.type
<1>1. /\ s.twin \in Twins \cup {Nil}
      /\ row # Nil => s.twin # Nil /\ Grown(row, s.twin)
      /\ s.twin # Nil => HasVersion(s.twin)
  BY Zenon, LeftInMemory
<1>2. died \in Deaths /\ diverged \in {"no", "now", "once"}
  BY Zenon DEF IInv, TypeOK, Deaths
<1>3. CASE /\ s.end = "panic"
           /\ died' = IF m.type = Nil THEN "reading" ELSE "refusing"
           /\ mem' = s.twin /\ diverged' = "now" /\ UNCHANGED row
  <2>1. died' \in Deaths
    BY Zenon, <1>3 DEF Deaths
  <2> HIDE DEF s
  <2>2. s = DealMsgTwin(m, kind)
    BY Zenon DEF s
  <2> QED BY Zenon, <1>3, <2>1, <2>2, LeftApart, RowStays
<1>4. CASE s.end = "error" /\ SyncDeviceFromSqlite(s) /\ UNCHANGED <<row, died>>
  BY Zenon, <1>4, SyncDeviceFromSqliteStep, RowStays
<1>5. CASE s.end \in {"ok", "refused"} /\ s.cols # {} /\ Write(s) /\ UNCHANGED died
  <2>1. CASE mem' = s.twin /\ row' = DeviceTwinTrans(s) /\ UNCHANGED diverged
    <3>1. /\ row' \in Rows \cup {Nil} /\ s.twin # Nil
          /\ row # Nil => row' # Nil /\ Grown(row, row')
          /\ row' # Nil => Grown(row', s.twin) /\ VersionStored(row')
          /\ diverged # "now" => row' # Nil /\ Looks(s.twin, row')
          /\ diverged = "no" => Fits(s.twin)
      BY Zenon, <1>5, <2>1, DeviceTwinTransStores
    <3> HIDE DEF s
    <3> QED BY Zenon, <1>1, <1>2, <1>5, <2>1, <3>1 DEF IInv, TypeOK, Deaths, RowGrows
  <2>2. CASE UNCHANGED row /\ SyncDeviceFromSqlite(s)
    BY Zenon, <1>5, <2>2, SyncDeviceFromSqliteStep, RowStays
  <2>3. CASE UNCHANGED row /\ mem' = s.twin /\ diverged' = "now"
    BY Zenon, <1>2, <1>5, <2>3, LeftApart, RowStays
  <2> QED BY Zenon, <1>5, <2>1, <2>2, <2>3 DEF Write
<1>6. CASE /\ s.end \in {"ok", "refused"} /\ s.cols = {}
           /\ mem' = s.twin /\ diverged' = IF halfway THEN "now" ELSE diverged
           /\ UNCHANGED <<row, died>>
  <2>1. CASE halfway
    BY Zenon, <1>2, <1>6, <2>1, LeftApart, RowStays
  <2>2. CASE ~halfway
    <3>1. /\ diverged # "now" => (s.twin = Nil) = (row = Nil) /\ (s.twin # Nil => Looks(s.twin, row))
          /\ diverged = "no" /\ s.twin # Nil => Fits(s.twin)
      BY Zenon, <1>6, <2>2, NothingToWrite DEF Halfway
    <3>2. diverged' = diverged
      BY Zenon, <1>6, <2>2
    <3> HIDE DEF s, halfway
    <3>3. IInv'
      BY Zenon, <1>1, <1>2, <1>6, <3>1, <3>2 DEF IInv, TypeOK, Deaths
    <3> QED BY Zenon, <1>6, <3>3, RowStays
  <2> QED BY Zenon, <2>1, <2>2
<1> QED BY Zenon, <1>3, <1>4, <1>5, <1>6 DEF DealDeviceTwin

LEMMA StepIInv == Constants /\ IInv /\ [Next]_vars => IInv' /\ RowGrows
<1> SUFFICES ASSUME Constants, IInv, [Next]_vars PROVE IInv' /\ RowGrows
  BY Zenon
<1>1. ASSUME NEW m \in RestMsgs, DealDeviceTwin(m, "rest") PROVE IInv' /\ RowGrows
  <2>1. Message(m, "rest")
    BY Zenon DEF Message
  <2> QED BY Zenon, <1>1, <2>1, DealDeviceTwinStep
<1>2. ASSUME NEW m \in SyncMsgs, DealDeviceTwin(m, "sync") PROVE IInv' /\ RowGrows
  <2>1. Message(m, "sync")
    BY Zenon DEF Message
  <2> QED BY Zenon, <1>2, <2>1, DealDeviceTwinStep
<1>3. CASE Restart
  BY Zenon, <1>3, ReadBackStep, RowStays DEF Restart, Deaths
<1>4. CASE UNCHANGED vars
  BY Zenon, <1>4, RowStays DEF vars, IInv, TypeOK
<1> QED BY Zenon, <1>1, <1>2, <1>3, <1>4 DEF Next

LEMMA InitIInv == Constants /\ Init => IInv
  BY Zenon DEF Init, IInv, TypeOK

LEMMA LooksSeen ==
  ASSUME Constants, NEW t, NEW r, t # Nil, r # Nil, Looks(t, r)
  PROVE  Seen(t) = Seen(r)
  BY Zenon DEF Looks, Alike, Seen, Halves

LEMMA IInvStored == Constants /\ IInv => TwinIsStored
<1> SUFFICES ASSUME Constants, IInv PROVE MemoryIsStored /\ StoredActualFits
  BY Zenon DEF TwinIsStored
<1>1. mem \in Twins \cup {Nil} /\ row \in Rows \cup {Nil}
  BY Zenon DEF IInv, TypeOK
<1>2. ASSUME diverged # "now" PROVE Seen(mem) = Seen(row)
  <2>1. CASE mem = Nil
    BY Zenon, <1>2, <2>1 DEF IInv
  <2>2. CASE mem # Nil
    BY Zenon, <1>2, <2>2, LooksSeen DEF IInv
  <2> QED BY Zenon, <2>1, <2>2
<1>3. ASSUME diverged = "no", row # Nil, row.act.value # Empty
      PROVE  ValidateValue(row.type, row.act.value)
  <2>1. mem \in Twins /\ row \in Rows /\ Looks(mem, row) /\ Fits(mem)
    BY Zenon, <1>1, <1>3 DEF IInv
  <2>2. Fits(row)
    BY Zenon, <2>1, FitsLooks
  <2>3. row["act"] \in RowHalf
    BY Zenon, <2>1, RowHalves DEF Halves
  <2>4. row.act.value \in Values
    BY Zenon, <1>3, <2>3 DEF RowHalf, Half
  <2> QED BY Zenon, <2>2, <2>4 DEF Fits
<1> QED BY Zenon, <1>2, <1>3 DEF MemoryIsStored, StoredActualFits

\* Whatever updates of both sides were accepted, refused or rolled back, and
\* after any restart, the memory and the row of DealDeviceTwin show the same
\* twin unless a failure parted them, and a stored reported value fits the
\* type of the twin.
THEOREM TwinStaysStored == ASSUME Constants PROVE Spec => []TwinIsStored
<1>1. Init => IInv
  BY Zenon, InitIInv
<1>2. IInv /\ [Next]_vars => IInv'
  BY Zenon, StepIInv
<1>3. IInv => TwinIsStored
  BY Zenon, IInvStored
<1> QED BY <1>1, <1>2, <1>3, PTL DEF Spec

\* No handler, failed transaction or restart takes the stored twin back to an
\* earlier version of either side, or loses its row.
THEOREM StoredNeverGoesBack == ASSUME Constants PROVE Spec => StoredVersionsGrow
<1> DEFINE Grows == row # Nil => /\ row' # Nil
                                 /\ \A f \in Halves : /\ VersionOf(row[f]).c <= VersionOf(row'[f]).c
                                                      /\ VersionOf(row[f]).e <= VersionOf(row'[f]).e
<1>1. Init => IInv
  BY Zenon, InitIInv
<1>2. IInv /\ [Next]_vars => IInv'
  BY Zenon, StepIInv
<1>3. IInv /\ [Next]_vars => [Grows]_vars
  BY Zenon, StepIInv DEF RowGrows, Grown, Below
<1> HIDE DEF Grows
<1>4. Spec => [][Grows]_vars
  BY <1>1, <1>2, <1>3, PTL DEF Spec
<1> QED BY Zenon, <1>4 DEF StoredVersionsGrow, Grows
=============================================================================
