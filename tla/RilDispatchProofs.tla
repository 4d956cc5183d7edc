-------------------------- MODULE RilDispatchProofs --------------------------
(***************************************************************************)
(* The dispatch functions are right about every Parcel, whatever it holds    *)
(* and wherever it ends, for every vendor library: checking the status late  *)
(* is enough, pRI is not used once the vendor library may have completed the *)
(* request, and the copied strings are freed once.                           *)
(*                                                                          *)
(* What makes a path right is stated of the path alone (Fits), so that it    *)
(* can be shown function by function, and what is left of a path is right    *)
(* together with what the steps before it have done (IInv).                  *)
(***************************************************************************)
EXTENDS RilDispatch, TLAPS

Calls == Reads \cup UsesRequest \cup {"negative", "string", "text", "raw", "nullIfEmpty", "complete", "free"}
Copies == {"string", "text"}
OfStrings == Copies \cup {"raw", "notNull", "nullIfEmpty", "free"}

IsPath(s) == \E S : s \in Seq(S)

\* The calls have the fields they work on.
Formed(s) ==
    \A i \in 1 .. Len(s) :
      /\ s[i].do \in Calls
      /\ s[i].do = "ints" => Len(s[i].f) \in Nat \ {0}
      /\ s[i].do \in OfStrings => s[i].f[1] \in Strings

\* Nothing that follows the hand-over or an answer uses the request.
LetsGo(s) ==
    \A i, j \in 1 .. Len(s) :
      s[i].do \in {"call", "complete"} /\ i < j => s[j].do \notin UsesRequest

\* Strings are freed once; bytes of the Parcel itself are not freed; what is copied
\* is freed later, except smsc.
FreesOnce(s) ==
    \A i, j \in 1 .. Len(s) :
      s[i].do = "free" /\ s[j].do = "free" /\ i # j => s[i].f[1] # s[j].f[1]
KeepsRaw(s) ==
    \A i, j \in 1 .. Len(s) :
      s[i].do = "raw" /\ s[j].do \in Copies \cup {"free"} => s[i].f[1] # s[j].f[1]
Frees(s, f) == \E j \in 1 .. Len(s) : s[j].do = "free" /\ s[j].f[1] = f
Returns(s) ==
    \A i \in 1 .. Len(s) :
      s[i].do \in Copies =>
        \/ s[i].f[1] = "smsc"
        \/ \E j \in i + 1 .. Len(s) : s[j].do = "free" /\ s[j].f[1] = s[i].f[1]

\* What is right about a path and about every rest of it.
Rest(s) ==
    /\ IsPath(s) /\ Formed(s) /\ Guarded(s) /\ LetsGo(s)
    /\ FreesOnce(s) /\ KeepsRaw(s) /\ Returns(s)

\* A string is freed after the hand-over, and was copied before.
HandsOver(s, i) == \E j \in 1 .. i - 1 : s[j].do = "call"
CopiesBefore(s, i) == \E j \in 1 .. i - 1 : s[j].do \in Copies /\ s[j].f[1] = s[i].f[1]
Fits(s) ==
    /\ Rest(s)
    /\ \A i \in 1 .. Len(s) : s[i].do = "free" => HandsOver(s, i) /\ CopiesBefore(s, i)

-----------------------------------------------------------------------------
(* The inductive invariant. *)

\* A failed read is still to be checked before the hand-over.
CheckAhead(path) ==
    \A i \in 1 .. Len(path) : path[i].do = "call" => \E k \in 1 .. i - 1 : path[k].do = "check"
ReadsDone(path) == \A i \in 1 .. Len(path) : path[i].do \notin Reads
Unused(path) == \A i \in 1 .. Len(path) : path[i].do \notin UsesRequest

Types ==
    /\ version \in Versions
    /\ ended \in BOOLEAN /\ status \in {"unset", "ok", "bad"}
    /\ str \in [Strings -> {"unset", "text", "empty", "null"}] /\ heap \subseteq Strings
    /\ handed \in BOOLEAN /\ request \in {"none", "pending", "completed"}

\* Fields whose read failed; the elements of an array of negative size are not read.
failed == unread \ {Elements}
ReadInv ==
    /\ failed # {} => ended /\ status = "bad" /\ ~handed /\ CheckAhead(prog)
    /\ handed => ReadsDone(prog)

RequestInv == (handed \/ request = "completed") => Unused(prog)

\* A string still to be freed has been copied, or will be.
Copied(f) == str[f] # "null" => f \in heap
FreeInv ==
    \A i \in 1 .. Len(prog) : prog[i].do = "free" =>
      /\ handed \/ HandsOver(prog, i)
      /\ Copied(prog[i].f[1]) \/ CopiesBefore(prog, i)

\* What is on the heap will be freed, unless the payload was refused.
HeapInv ==
    (handed \/ prog # <<>>) => \A f \in heap : f = "smsc" \/ str[f] = "null" \/ Frees(prog, f)
RawInv == \A i \in 1 .. Len(prog) : prog[i].do = "raw" => prog[i].f[1] \notin heap

IInv == Types /\ Rest(prog) /\ ReadInv /\ RequestInv /\ FreeInv /\ HeapInv /\ RawInv

-----------------------------------------------------------------------------
(* What is left of a path after its first call. *)

LEMMA TailIndex ==
    ASSUME NEW s, IsPath(s), s # <<>>
    PROVE  /\ IsPath(Tail(s)) /\ Len(Tail(s)) = Len(s) - 1 /\ Len(s) \in Nat \ {0}
           /\ Head(s) = s[1]
           /\ \A i \in 1 .. Len(Tail(s)) : i + 1 \in 1 .. Len(s) /\ Tail(s)[i] = s[i + 1]
<1>1. PICK S : s \in Seq(S)
  BY DEF IsPath
<1>2. Tail(s) \in Seq(S)
  BY <1>1
<1> QED BY <1>1, <1>2 DEF IsPath

LEMMA TailRest ==
    ASSUME NEW s, Rest(s), s # <<>>
    PROVE  Rest(Tail(s))
<1> DEFINE t == Tail(s)
<1>0. IsPath(s)
  BY DEF Rest
<1>1. /\ IsPath(t) /\ Len(t) = Len(s) - 1 /\ Len(s) \in Nat
      /\ \A n \in 1 .. Len(t) : n + 1 \in 1 .. Len(s) /\ t[n] = s[n + 1]
  BY <1>0, TailIndex
<1> HIDE DEF t
<1>2. Formed(t) /\ LetsGo(t) /\ FreesOnce(t) /\ KeepsRaw(t)
  <2>1. Formed(t)
    BY <1>1 DEF Rest, Formed
  <2>2. LetsGo(t)
    BY <1>1 DEF Rest, LetsGo
  <2>3. FreesOnce(t)
    BY <1>1 DEF Rest, FreesOnce
  <2>4. KeepsRaw(t)
    BY <1>1 DEF Rest, KeepsRaw
  <2> QED BY <2>1, <2>2, <2>3, <2>4
<1>3. Guarded(t)
  <2> SUFFICES ASSUME NEW i \in 1 .. Len(t), NEW j \in 1 .. Len(t), t[i].do = "call", t[j].do \in Reads
               PROVE  j < i /\ \E k \in j + 1 .. i - 1 : t[k].do = "check"
    BY DEF Guarded
  <2>1. s[i + 1].do = "call" /\ s[j + 1].do \in Reads /\ i + 1 \in 1 .. Len(s) /\ j + 1 \in 1 .. Len(s)
    BY <1>1
  <2>2. j + 1 < i + 1 /\ \E k \in (j + 1) + 1 .. (i + 1) - 1 : s[k].do = "check"
    BY <2>1 DEF Rest, Guarded
  <2>3. PICK k \in (j + 1) + 1 .. (i + 1) - 1 : s[k].do = "check"
    BY <2>2
  <2>4. k - 1 \in j + 1 .. i - 1 /\ k - 1 \in 1 .. Len(t) /\ (k - 1) + 1 = k
    BY <1>1
  <2>5. t[k - 1] = s[k]
    BY <1>1, <2>4
  <2> QED BY <2>2, <2>3, <2>4, <2>5
<1>4. Returns(t)
  <2> SUFFICES ASSUME NEW i \in 1 .. Len(t), t[i].do \in Copies, t[i].f[1] # "smsc"
               PROVE  \E j \in i + 1 .. Len(t) : t[j].do = "free" /\ t[j].f[1] = t[i].f[1]
    BY DEF Returns
  <2>1. i + 1 \in 1 .. Len(s) /\ t[i] = s[i + 1]
    BY <1>1
  <2>2. PICK j \in (i + 1) + 1 .. Len(s) : s[j].do = "free" /\ s[j].f[1] = s[i + 1].f[1]
    BY <2>1 DEF Rest, Returns
  <2>3. j - 1 \in i + 1 .. Len(t) /\ j - 1 \in 1 .. Len(t) /\ (j - 1) + 1 = j
    BY <1>1
  <2>4. t[j - 1] = s[j]
    BY <1>1, <2>3
  <2> QED BY <2>1, <2>2, <2>3, <2>4
<1> QED BY <1>1, <1>2, <1>3, <1>4 DEF Rest, t

LEMMA ReadIsChecked ==
    ASSUME NEW s, Rest(s), s # <<>>, Head(s).do \in Reads
    PROVE  CheckAhead(Tail(s))
<1> SUFFICES ASSUME NEW i \in 1 .. Len(Tail(s)), Tail(s)[i].do = "call"
             PROVE  \E k \in 1 .. i - 1 : Tail(s)[k].do = "check"
  BY DEF CheckAhead
<1>1. /\ Len(Tail(s)) = Len(s) - 1 /\ Len(s) \in Nat \ {0} /\ Head(s) = s[1]
      /\ \A n \in 1 .. Len(Tail(s)) : n + 1 \in 1 .. Len(s) /\ Tail(s)[n] = s[n + 1]
  BY TailIndex DEF Rest
<1>2. s[i + 1].do = "call" /\ s[1].do \in Reads /\ i + 1 \in 1 .. Len(s) /\ 1 \in 1 .. Len(s)
  BY <1>1
<1>3. PICK k \in 1 + 1 .. (i + 1) - 1 : s[k].do = "check"
  BY <1>2 DEF Rest, Guarded
<1>4. k - 1 \in 1 .. i - 1 /\ k - 1 \in 1 .. Len(Tail(s)) /\ (k - 1) + 1 = k
  BY <1>1
<1> QED BY <1>1, <1>3, <1>4

LEMMA TailCheckAhead ==
    ASSUME NEW s, IsPath(s), s # <<>>, CheckAhead(s), Head(s).do # "check"
    PROVE  CheckAhead(Tail(s))
<1> SUFFICES ASSUME NEW i \in 1 .. Len(Tail(s)), Tail(s)[i].do = "call"
             PROVE  \E k \in 1 .. i - 1 : Tail(s)[k].do = "check"
  BY DEF CheckAhead
<1>1. /\ Len(Tail(s)) = Len(s) - 1 /\ Len(s) \in Nat \ {0} /\ Head(s) = s[1]
      /\ \A n \in 1 .. Len(Tail(s)) : n + 1 \in 1 .. Len(s) /\ Tail(s)[n] = s[n + 1]
  BY TailIndex
<1>2. s[i + 1].do = "call" /\ i + 1 \in 1 .. Len(s)
  BY <1>1
<1>3. PICK k \in 1 .. (i + 1) - 1 : s[k].do = "check"
  BY <1>2 DEF CheckAhead
<1>4. k # 1
  BY <1>1, <1>3
<1>5. k - 1 \in 1 .. i - 1 /\ k - 1 \in 1 .. Len(Tail(s)) /\ (k - 1) + 1 = k
  BY <1>1, <1>4
<1> QED BY <1>1, <1>3, <1>5

LEMMA TailDone ==
    ASSUME NEW s, IsPath(s), s # <<>>
    PROVE  (ReadsDone(s) => ReadsDone(Tail(s))) /\ (Unused(s) => Unused(Tail(s)))
BY TailIndex DEF ReadsDone, Unused

LEMMA CallIsLast ==
    ASSUME NEW s, Rest(s), s # <<>>, Head(s).do = "call"
    PROVE  ReadsDone(s) /\ ~CheckAhead(s)
<1>1. Len(s) \in Nat \ {0} /\ Head(s) = s[1] /\ 1 \in 1 .. Len(s)
  BY TailIndex DEF Rest
<1>2. ReadsDone(s)
  <2> SUFFICES ASSUME NEW j \in 1 .. Len(s), s[j].do \in Reads PROVE FALSE
    BY DEF ReadsDone
  <2>1. j < 1
    BY <1>1 DEF Rest, Guarded
  <2> QED BY <2>1
<1>3. ~CheckAhead(s)
  BY <1>1 DEF CheckAhead
<1> QED BY <1>2, <1>3

\* From the hand-over or an answer on.
LEMMA AfterCall ==
    ASSUME NEW s, Rest(s), s # <<>>, Head(s).do \in {"call", "complete"}
    PROVE  Unused(Tail(s))
<1>1. /\ Len(Tail(s)) = Len(s) - 1 /\ Len(s) \in Nat \ {0} /\ Head(s) = s[1]
      /\ \A n \in 1 .. Len(Tail(s)) : n + 1 \in 1 .. Len(s) /\ Tail(s)[n] = s[n + 1]
  BY TailIndex DEF Rest
<1>2. ASSUME NEW i \in 1 .. Len(Tail(s)) PROVE Tail(s)[i].do \notin UsesRequest
  <2>1. 1 \in 1 .. Len(s) /\ i + 1 \in 1 .. Len(s) /\ 1 < i + 1 /\ Tail(s)[i] = s[i + 1]
    BY <1>1
  <2> QED BY <1>1, <2>1 DEF Rest, LetsGo
<1> QED BY <1>2 DEF Unused

LEMMA TailFrees ==
    ASSUME NEW s, IsPath(s), s # <<>>, NEW f, Frees(s, f), ~(Head(s).do = "free" /\ Head(s).f[1] = f)
    PROVE  Frees(Tail(s), f)
<1>1. /\ Len(Tail(s)) = Len(s) - 1 /\ Len(s) \in Nat \ {0} /\ Head(s) = s[1]
      /\ \A n \in 1 .. Len(Tail(s)) : n + 1 \in 1 .. Len(s) /\ Tail(s)[n] = s[n + 1]
  BY TailIndex
<1>2. PICK j \in 1 .. Len(s) : s[j].do = "free" /\ s[j].f[1] = f
  BY DEF Frees
<1>3. j # 1
  BY <1>1, <1>2
<1>4. j - 1 \in 1 .. Len(Tail(s)) /\ (j - 1) + 1 = j
  BY <1>1, <1>3
<1> QED BY <1>1, <1>2, <1>4 DEF Frees

\* A string that is copied is freed in the rest of the path.
LEMMA CopyIsFreed ==
    ASSUME NEW s, Rest(s), s # <<>>, Head(s).do \in Copies
    PROVE  Head(s).f[1] = "smsc" \/ Frees(Tail(s), Head(s).f[1])
<1>1. /\ Len(Tail(s)) = Len(s) - 1 /\ Len(s) \in Nat \ {0} /\ Head(s) = s[1]
      /\ \A n \in 1 .. Len(Tail(s)) : n + 1 \in 1 .. Len(s) /\ Tail(s)[n] = s[n + 1]
  BY TailIndex DEF Rest
<1>2. ASSUME s[1].f[1] # "smsc" PROVE Frees(Tail(s), s[1].f[1])
  <2>1. PICK j \in 1 + 1 .. Len(s) : s[j].do = "free" /\ s[j].f[1] = s[1].f[1]
    BY <1>1, <1>2 DEF Rest, Returns
  <2>2. j - 1 \in 1 .. Len(Tail(s)) /\ (j - 1) + 1 = j
    BY <1>1
  <2> QED BY <1>1, <2>1, <2>2 DEF Frees
<1> QED BY <1>1, <1>2

\* The strings still to be freed, one call further.
LEMMA FreeKept ==
    ASSUME IsPath(prog), prog # <<>>, advance, FreeInv,
           (handed \/ Head(prog).do = "call") => handed',
           Head(prog).do \in Copies => (str'[field] # "null" => field \in heap'),
           \A i \in 2 .. Len(prog) :
             prog[i].do = "free" /\ Copied(prog[i].f[1]) => (str'[prog[i].f[1]] # "null" => prog[i].f[1] \in heap')
    PROVE  FreeInv'
<1> DEFINE s == prog
           t == Tail(prog)
<1>1. /\ Len(t) = Len(s) - 1 /\ Len(s) \in Nat \ {0} /\ Head(s) = s[1] /\ prog' = t
      /\ \A n \in 1 .. Len(t) : n + 1 \in 1 .. Len(s) /\ t[n] = s[n + 1]
  BY TailIndex DEF advance
<1>2. ASSUME NEW i \in 1 .. Len(t), t[i].do = "free"
      PROVE  /\ handed' \/ HandsOver(t, i)
             /\ (str'[t[i].f[1]] # "null" => t[i].f[1] \in heap') \/ CopiesBefore(t, i)
  <2>1. i + 1 \in 2 .. Len(s) /\ i + 1 \in 1 .. Len(s) /\ t[i] = s[i + 1] /\ s[i + 1].do = "free"
    BY <1>1, <1>2
  <2>2. handed' \/ HandsOver(t, i)
    <3>1. CASE handed
      BY <3>1
    <3>2. CASE HandsOver(s, i + 1)
      <4>1. PICK j \in 1 .. (i + 1) - 1 : s[j].do = "call"
        BY <3>2 DEF HandsOver
      <4>2. CASE j = 1
        BY <1>1, <4>1, <4>2
      <4>3. CASE j # 1
        <5>1. j - 1 \in 1 .. i - 1 /\ j - 1 \in 1 .. Len(t) /\ (j - 1) + 1 = j
          BY <1>1, <4>3
        <5>2. t[j - 1] = s[j]
          BY <1>1, <5>1
        <5> QED BY <4>1, <5>1, <5>2 DEF HandsOver
      <4> QED BY <4>2, <4>3
    <3> QED BY <2>1, <3>1, <3>2 DEF FreeInv
  <2>3. (str'[t[i].f[1]] # "null" => t[i].f[1] \in heap') \/ CopiesBefore(t, i)
    <3>1. CASE Copied(s[i + 1].f[1])
      BY <2>1, <3>1
    <3>2. CASE CopiesBefore(s, i + 1)
      <4>1. PICK j \in 1 .. (i + 1) - 1 : s[j].do \in Copies /\ s[j].f[1] = s[i + 1].f[1]
        BY <3>2 DEF CopiesBefore
      <4>2. CASE j = 1
        BY <1>1, <2>1, <4>1, <4>2 DEF Copied, field
      <4>3. CASE j # 1
        <5>1. j - 1 \in 1 .. i - 1 /\ j - 1 \in 1 .. Len(t) /\ (j - 1) + 1 = j
          BY <1>1, <4>3
        <5>2. t[j - 1] = s[j]
          BY <1>1, <5>1
        <5> QED BY <2>1, <4>1, <5>1, <5>2 DEF CopiesBefore
      <4> QED BY <4>2, <4>3
    <3> QED BY <2>1, <3>1, <3>2 DEF FreeInv
  <2> QED BY <2>2, <2>3
<1> QED BY <1>1, <1>2 DEF FreeInv, Copied

\* What is on the heap, one call further.
LEMMA HeapKept ==
    ASSUME IsPath(prog), prog # <<>>, advance, HeapInv,
           \A f \in heap' :
             \/ f = "smsc" \/ str'[f] = "null" \/ Frees(Tail(prog), f)
             \/ /\ f \in heap /\ (str[f] = "null" => str'[f] = "null")
                /\ ~(Head(prog).do = "free" /\ Head(prog).f[1] = f)
    PROVE  HeapInv'
<1>1. ASSUME NEW f \in heap' PROVE f = "smsc" \/ str'[f] = "null" \/ Frees(Tail(prog), f)
  BY TailFrees DEF HeapInv
<1> QED BY <1>1 DEF HeapInv, advance

LEMMA RawKept ==
    ASSUME IsPath(prog), prog # <<>>, advance, RawInv,
           \A i \in 2 .. Len(prog) : prog[i].do = "raw" => prog[i].f[1] \notin heap' \ heap
    PROVE  RawInv'
<1> DEFINE t == Tail(prog)
<1>1. /\ Len(t) = Len(prog) - 1 /\ Len(prog) \in Nat \ {0} /\ prog' = t
      /\ \A n \in 1 .. Len(t) : n + 1 \in 1 .. Len(prog) /\ t[n] = prog[n + 1]
  BY TailIndex DEF advance
<1>2. ASSUME NEW i \in 1 .. Len(t), t[i].do = "raw" PROVE t[i].f[1] \notin heap'
  <2>1. i + 1 \in 2 .. Len(prog) /\ i + 1 \in 1 .. Len(prog) /\ t[i] = prog[i + 1]
    BY <1>1
  <2> QED BY <1>2, <2>1 DEF RawInv
<1> QED BY <1>1, <1>2 DEF RawInv

-----------------------------------------------------------------------------
(* The steps. *)

\* A step that leaves strings and heap alone.
LEMMA SameStrings ==
    ASSUME IsPath(prog), prog # <<>>, advance, FreeInv, HeapInv, RawInv, UNCHANGED <<str, heap>>,
           (handed \/ Head(prog).do = "call") => handed',
           Head(prog).do \notin Copies \cup {"free"}
    PROVE  FreeInv' /\ HeapInv' /\ RawInv'
<1>1. FreeInv'
  BY FreeKept DEF Copied
<1>2. HeapInv'
  BY HeapKept
<1>3. RawInv'
  BY RawKept
<1> QED BY <1>1, <1>2, <1>3

\* A step that leaves the integers and the request alone.
LEMMA SameReads ==
    ASSUME Rest(prog), prog # <<>>, advance, ReadInv, RequestInv, UNCHANGED <<status, unread, handed, request>>,
           ended => ended', Head(prog).do \notin {"check", "call"}
    PROVE  ReadInv' /\ RequestInv'
<1>1. IsPath(prog)
  BY DEF Rest
<1>2. /\ CheckAhead(prog) => CheckAhead(Tail(prog))
      /\ ReadsDone(prog) => ReadsDone(Tail(prog))
      /\ Unused(prog) => Unused(Tail(prog))
  BY <1>1, TailCheckAhead, TailDone
<1> QED BY <1>2 DEF ReadInv, failed, RequestInv, advance

\* A read, of one field or of several, in a loop or not.
LEMMA ReadStep ==
    ASSUME IInv, prog # <<>>, Head(prog).do \in Reads, NEW fields, Len(fields) \in Nat \ {0},
           readInts(fields), advance
    PROVE  IInv'
<1>0. Rest(prog) /\ IsPath(prog)
  BY DEF IInv, Rest
<1>1. Rest(prog') /\ CheckAhead(prog')
  BY <1>0, TailRest, ReadIsChecked DEF advance
<1>2. UNCHANGED <<version, str, heap, handed, request>>
  BY DEF readInts
<1>3. ~handed
  <2>1. ~ReadsDone(prog)
    BY <1>0, TailIndex DEF ReadsDone
  <2> QED BY <2>1 DEF IInv, ReadInv
<1>4. PICK k \in IF ended THEN {0} ELSE 0 .. Len(fields) :
        /\ unread' = unread \cup {fields[i] : i \in k + 1 .. Len(fields)}
        /\ status' = IF k = Len(fields) THEN "ok" ELSE "bad"
        /\ ended' = (ended \/ k < Len(fields))
  BY DEF readInts
<1>5. failed' # {} => ended' /\ status' = "bad"
  <2>1. CASE failed # {}
    <3>1. ended /\ k = 0
      BY <1>4, <2>1 DEF IInv, ReadInv
    <3> QED BY <1>4, <3>1
  <2>2. CASE failed = {} /\ failed' # {}
    <3>1. PICK i \in k + 1 .. Len(fields) : TRUE
      BY <1>4, <2>2 DEF failed
    <3>2. k \in Int /\ k < Len(fields)
      BY <1>4, <3>1
    <3>3. status' = "bad"
      BY <1>4, <3>2
    <3>4. ended'
      BY <1>4, <3>2
    <3> QED BY <3>3, <3>4
  <2> QED BY <2>1, <2>2
<1>6. Types'
  <2>1. ended' \in BOOLEAN /\ status' \in {"unset", "ok", "bad"}
    BY <1>4
  <2> QED BY <1>2, <2>1 DEF IInv, Types
<1>7. FreeInv' /\ HeapInv' /\ RawInv'
  BY <1>0, <1>2, SameStrings DEF IInv, Reads, Copies
<1>8. RequestInv'
  BY <1>0, <1>2, TailDone DEF IInv, RequestInv, advance
<1> QED BY <1>1, <1>2, <1>3, <1>5, <1>6, <1>7, <1>8 DEF IInv, ReadInv

\* The calls on strings.
LEMMA CopyStep ==
    ASSUME IInv, prog # <<>>, Head(prog).do \in Copies, advance, UNCHANGED <<version, status, unread, handed, request>>,
           ended' \in BOOLEAN, ended => ended',
           NEW v \in {"text", "empty", "null"}, str' = [str EXCEPT ![field] = v],
           heap' = IF v = "null" THEN heap ELSE heap \cup {field}
    PROVE  IInv'
<1>0. Rest(prog) /\ IsPath(prog) /\ Head(prog) = prog[1] /\ Len(prog) \in Nat \ {0}
  BY TailIndex DEF IInv, Rest
<1>1. field \in Strings /\ field = prog[1].f[1]
  BY <1>0 DEF Rest, Formed, OfStrings, Copies, field
<1>2. Types'
  BY <1>1 DEF IInv, Types
<1>3. Rest(prog')
  BY <1>0, TailRest DEF advance
<1>4. ReadInv' /\ RequestInv'
  BY <1>0, SameReads DEF IInv, Copies
<1>5. \A f : str'[f] # "null" /\ f = field => f \in heap'
  BY <1>1 DEF IInv, Types
<1>6. \A f \in Strings : f # field => str'[f] = str[f]
  BY <1>1 DEF IInv, Types
<1>7. FreeInv'
  <2>1. ASSUME NEW i \in 2 .. Len(prog), prog[i].do = "free", Copied(prog[i].f[1]),
               str'[prog[i].f[1]] # "null"
        PROVE  prog[i].f[1] \in heap'
    <3>1. prog[i].f[1] \in Strings
      BY <1>0, <2>1 DEF Rest, Formed, OfStrings
    <3> QED BY <2>1, <3>1, <1>5, <1>6 DEF Copied
  <2> QED BY <1>0, <1>5, <2>1, FreeKept DEF IInv, Copies
<1>8. HeapInv'
  <2>1. Head(prog).f[1] = field /\ Head(prog).do # "free"
    BY <1>0, <1>1 DEF Copies
  <2>2. field = "smsc" \/ Frees(Tail(prog), field)
    BY <1>0, <2>1, CopyIsFreed
  <2>3. ASSUME NEW f \in heap'
        PROVE  \/ f = "smsc" \/ str'[f] = "null" \/ Frees(Tail(prog), f)
               \/ /\ f \in heap /\ (str[f] = "null" => str'[f] = "null")
                  /\ ~(Head(prog).do = "free" /\ Head(prog).f[1] = f)
    <3>1. CASE f = field
      BY <2>2, <3>1
    <3>2. CASE f # field
      <4>1. f \in heap /\ f \in Strings
        BY <3>2, <2>3 DEF IInv, Types
      <4> QED BY <4>1, <3>2, <1>6, <2>1
    <3> QED BY <3>1, <3>2
  <2> QED BY <1>0, <2>3, HeapKept DEF IInv
<1>9. RawInv'
  <2>1. ASSUME NEW i \in 2 .. Len(prog), prog[i].do = "raw" PROVE prog[i].f[1] \notin heap' \ heap
    <3>1. prog[i].f[1] # prog[1].f[1]
      BY <1>0, <2>1 DEF Rest, KeepsRaw
    <3> QED BY <1>1, <3>1
  <2> QED BY <1>0, <2>1, RawKept DEF IInv
<1> QED BY <1>2, <1>3, <1>4, <1>7, <1>8, <1>9 DEF IInv

LEMMA RawStep ==
    ASSUME IInv, readInplace
    PROVE  IInv'
<1>0. /\ prog # <<>> /\ Head(prog).do = "raw" /\ advance
      /\ UNCHANGED <<version, ended, status, unread, heap, handed, request>>
  BY DEF readInplace, at
<1>1. Rest(prog) /\ IsPath(prog) /\ Head(prog) = prog[1] /\ Len(prog) \in Nat \ {0}
  BY <1>0, TailIndex DEF IInv, Rest
<1>2. PICK v \in {"text", "null"} : str' = [str EXCEPT ![field] = v]
  BY DEF readInplace
<1>3. field \in Strings /\ field = prog[1].f[1] /\ field \notin heap
  <2>1. 1 \in 1 .. Len(prog) /\ prog[1].do = "raw"
    BY <1>0, <1>1
  <2> QED BY <1>1, <2>1 DEF Rest, Formed, OfStrings, field, IInv, RawInv
<1>4. Types'
  BY <1>0, <1>2, <1>3 DEF IInv, Types
<1>5. Rest(prog')
  BY <1>0, <1>1, TailRest DEF advance
<1>6. ReadInv' /\ RequestInv'
  BY <1>0, <1>1, SameReads DEF IInv
<1>7. \A f \in Strings : f # field => str'[f] = str[f]
  BY <1>2, <1>3 DEF IInv, Types
<1>8. FreeInv'
  <2>1. ASSUME NEW i \in 2 .. Len(prog), prog[i].do = "free" PROVE str'[prog[i].f[1]] = str[prog[i].f[1]]
    <3>1. prog[i].f[1] # prog[1].f[1]
      BY <1>0, <1>1, <2>1 DEF Rest, KeepsRaw
    <3>2. prog[i].f[1] \in Strings
      BY <1>1, <2>1 DEF Rest, Formed, OfStrings
    <3> QED BY <1>3, <1>7, <3>1, <3>2
  <2> QED BY <1>0, <1>1, <2>1, FreeKept DEF IInv, Copied, Copies
<1>9. HeapInv'
  <2>1. ASSUME NEW f \in heap' PROVE f \in heap /\ str'[f] = str[f]
    BY <1>0, <1>3, <1>7, <2>1 DEF IInv, Types
  <2> QED BY <1>0, <1>1, <2>1, HeapKept DEF IInv
<1>10. RawInv'
  BY <1>0, <1>1, RawKept DEF IInv
<1> QED BY <1>4, <1>5, <1>6, <1>8, <1>9, <1>10 DEF IInv

LEMMA EmptyStep ==
    ASSUME IInv, emptyNumber
    PROVE  IInv'
<1>0. /\ prog # <<>> /\ Head(prog).do = "nullIfEmpty" /\ advance
      /\ UNCHANGED <<version, ended, status, unread, heap, handed, request>>
      /\ str' = IF str[field] = "empty" THEN [str EXCEPT ![field] = "null"] ELSE str
  BY DEF emptyNumber, at
<1>1. Rest(prog) /\ IsPath(prog) /\ Head(prog) = prog[1] /\ Len(prog) \in Nat \ {0}
  BY <1>0, TailIndex DEF IInv, Rest
<1>3. field \in Strings
  BY <1>0, <1>1 DEF Rest, Formed, OfStrings, field
<1>4. Types'
  BY <1>0, <1>3 DEF IInv, Types
<1>5. Rest(prog')
  BY <1>0, <1>1, TailRest DEF advance
<1>6. ReadInv' /\ RequestInv'
  BY <1>0, <1>1, SameReads DEF IInv
<1>7. \A f \in Strings : str'[f] = "null" \/ str'[f] = str[f]
  BY <1>0, <1>3 DEF IInv, Types
<1>8. FreeInv'
  <2>1. ASSUME NEW i \in 2 .. Len(prog), prog[i].do = "free" PROVE prog[i].f[1] \in Strings
    BY <1>1, <2>1 DEF Rest, Formed, OfStrings
  <2> QED BY <1>0, <1>1, <1>7, <2>1, FreeKept DEF IInv, Copied, Copies
<1>9. HeapInv'
  <2>1. ASSUME NEW f \in heap' PROVE f \in heap /\ (str'[f] = "null" \/ str'[f] = str[f])
    BY <1>0, <1>7, <2>1 DEF IInv, Types
  <2> QED BY <1>0, <1>1, <2>1, HeapKept DEF IInv
<1>10. RawInv'
  BY <1>0, <1>1, RawKept DEF IInv
<1> QED BY <1>4, <1>5, <1>6, <1>8, <1>9, <1>10 DEF IInv

LEMMA FreeStep ==
    ASSUME IInv, freeString
    PROVE  IInv'
<1>0. /\ prog # <<>> /\ Head(prog).do = "free" /\ advance
      /\ UNCHANGED <<version, ended, status, unread, str, handed, request>>
      /\ heap' = IF str[field] = "null" THEN heap ELSE heap \ {field}
  BY DEF freeString, at
<1>1. Rest(prog) /\ IsPath(prog) /\ Head(prog) = prog[1] /\ Len(prog) \in Nat \ {0}
  BY <1>0, TailIndex DEF IInv, Rest
<1>2. field = prog[1].f[1] /\ prog[1].do = "free"
  BY <1>0, <1>1 DEF field
<1>4. Types'
  BY <1>0 DEF IInv, Types
<1>5. Rest(prog')
  BY <1>0, <1>1, TailRest DEF advance
<1>6. ReadInv' /\ RequestInv'
  BY <1>0, <1>1, SameReads DEF IInv
<1>8. FreeInv'
  <2>1. ASSUME NEW i \in 2 .. Len(prog), prog[i].do = "free" PROVE prog[i].f[1] # field
    BY <1>1, <1>2, <2>1 DEF Rest, FreesOnce
  <2> QED BY <1>0, <1>1, <2>1, FreeKept DEF IInv, Copied, Copies
<1>9. HeapInv'
  <2>1. ASSUME NEW f \in heap' PROVE f \in heap /\ (f = field => str'[f] = "null")
    BY <1>0, <2>1
  <2>2. Head(prog).f[1] = field
    BY <1>1, <1>2
  <2> QED BY <1>0, <1>1, <2>1, <2>2, HeapKept DEF IInv
<1>10. RawInv'
  BY <1>0, <1>1, RawKept DEF IInv
<1> QED BY <1>4, <1>5, <1>6, <1>8, <1>9, <1>10 DEF IInv

\* The tests, the log, the hand-over and the answers.
LEMMA OtherStep ==
    ASSUME IInv, accepted \/ onRequest \/ answerAtOnce
    PROVE  IInv'
<1>0. prog # <<>> /\ advance /\ UNCHANGED <<version, ended, status, unread, str, heap>>
  BY DEF accepted, onRequest, answerAtOnce, at
<1>1. Rest(prog) /\ IsPath(prog)
  BY DEF IInv, Rest
<1>2. Rest(prog')
  BY <1>0, <1>1, TailRest DEF advance
<1>3. Types'
  BY <1>0 DEF accepted, onRequest, answerAtOnce, IInv, Types
<1>4. /\ handed => handed' 
      /\ Head(prog).do = "call" => handed'
      /\ Head(prog).do \notin Copies \cup {"free"}
  BY DEF accepted, onRequest, answerAtOnce, at, Copies
<1>5. FreeInv' /\ HeapInv' /\ RawInv'
  BY <1>0, <1>1, <1>4, SameStrings DEF IInv
<1>6. CASE accepted
  <2>1. UNCHANGED <<handed, request>>
    BY <1>6 DEF accepted
  <2>2. CASE Head(prog).do = "check"
    <3>1. status # "bad"
      BY <1>6, <2>2 DEF accepted, at
    <3>2. failed = {}
      BY <3>1 DEF IInv, ReadInv
    <3>3. ReadInv' /\ RequestInv'
      BY <1>0, <1>1, <2>1, <3>2, TailDone DEF IInv, ReadInv, failed, RequestInv, advance
    <3> QED BY <1>2, <1>3, <1>5, <3>3 DEF IInv
  <2>3. CASE Head(prog).do # "check"
    <3>1. Head(prog).do \notin {"check", "call"}
      BY <1>6, <2>3 DEF accepted, at
    <3>2. ReadInv' /\ RequestInv'
      BY <1>0, <1>1, <2>1, <3>1, SameReads DEF IInv
    <3> QED BY <1>2, <1>3, <1>5, <3>2 DEF IInv
  <2> QED BY <2>2, <2>3
<1>7. CASE onRequest
  <2>1. Head(prog).do = "call" /\ handed'
    BY <1>7 DEF onRequest, at
  <2>2. ReadsDone(prog) /\ ~CheckAhead(prog) /\ Unused(Tail(prog)) /\ ReadsDone(Tail(prog))
    BY <1>0, <1>1, <2>1, CallIsLast, AfterCall, TailDone
  <2>3. failed = {}
    BY <2>2 DEF IInv, ReadInv
  <2>4. ReadInv' /\ RequestInv'
    BY <1>0, <2>2, <2>3 DEF ReadInv, failed, RequestInv, advance
  <2> QED BY <1>2, <1>3, <1>5, <2>4 DEF IInv
<1>8. CASE answerAtOnce
  <2>1. Head(prog).do = "complete" /\ UNCHANGED handed
    BY <1>8 DEF answerAtOnce, at
  <2>2. Unused(Tail(prog))
    BY <1>0, <1>1, <2>1, AfterCall
  <2>3. /\ CheckAhead(prog) => CheckAhead(Tail(prog))
        /\ ReadsDone(prog) => ReadsDone(Tail(prog))
    BY <1>0, <1>1, <2>1, TailCheckAhead, TailDone
  <2>4. ReadInv' /\ RequestInv'
    BY <1>0, <2>1, <2>2, <2>3 DEF IInv, ReadInv, failed, RequestInv, advance
  <2> QED BY <1>2, <1>3, <1>5, <2>4 DEF IInv
<1> QED BY <1>6, <1>7, <1>8

LEMMA EmptyPath ==
    /\ Rest(<<>>) /\ CheckAhead(<<>>) /\ ReadsDone(<<>>) /\ Unused(<<>>)
    /\ Len(<<>>) = 0
<1>1. <<>> \in Seq({}) /\ Len(<<>>) = 0
  OBVIOUS
<1> QED BY <1>1 DEF Rest, IsPath, Formed, Guarded, LetsGo, FreesOnce, KeepsRaw, Returns, CheckAhead,
                    ReadsDone, Unused

LEMMA InvalidStep ==
    ASSUME IInv, invalidCommandBlock
    PROVE  IInv'
<1>1. /\ prog # <<>> /\ Head(prog).do \in UsesRequest /\ prog' = <<>>
      /\ UNCHANGED <<version, ended, status, unread, str, heap, handed, request>>
  BY DEF invalidCommandBlock, at, UsesRequest
<1>2. ~handed
  <2>1. ~Unused(prog)
    BY <1>1, TailIndex DEF Unused, IInv, Rest
  <2> QED BY <2>1 DEF IInv, RequestInv
<1> QED BY <1>1, <1>2, EmptyPath DEF IInv, Types, ReadInv, failed, RequestInv, FreeInv, HeapInv, RawInv

LEMMA CodeStep ==
    ASSUME IInv, Step
    PROVE  IInv'
<1>1. CASE readInt32
  <2>1. prog # <<>> /\ Head(prog).do = "ints" /\ readInts(Head(prog).f) /\ advance
    BY <1>1 DEF readInt32, at
  <2>2. Head(prog) = prog[1] /\ Len(prog) \in Nat \ {0}
    BY <2>1, TailIndex DEF IInv, Rest
  <2>3. Len(Head(prog).f) \in Nat \ {0}
    BY <2>1, <2>2 DEF IInv, Rest, Formed
  <2> QED BY <2>1, <2>3, ReadStep DEF Reads
<1>2. CASE readLoop
  <2>1. prog # <<>> /\ Head(prog).do = "loop" /\ advance
    BY <1>2 DEF readLoop, at
  <2>2. CASE UNCHANGED <<version, ended, status, unread, str, heap, handed, request>>
    <3>1. Rest(prog) /\ IsPath(prog)
      BY DEF IInv, Rest
    <3>2. Rest(prog')
      BY <2>1, <3>1, TailRest DEF advance
    <3>3. ReadInv' /\ RequestInv'
      BY <2>1, <2>2, <3>1, SameReads DEF IInv
    <3>4. FreeInv' /\ HeapInv' /\ RawInv'
      BY <2>1, <2>2, <3>1, SameStrings DEF IInv, Copies
    <3>5. Types'
      BY <2>2 DEF IInv, Types
    <3> QED BY <3>2, <3>3, <3>4, <3>5 DEF IInv
  <2>3. CASE \E n \in 1 .. MaxCount : readInts([i \in 1 .. n |-> field])
    <3>1. PICK n \in 1 .. MaxCount : readInts([i \in 1 .. n |-> field])
      BY <2>3
    <3>2. Len([i \in 1 .. n |-> field]) = n /\ n \in Nat \ {0}
      BY DispatchAssumption
    <3> QED BY <2>1, <3>1, <3>2, ReadStep DEF Reads
  <2> QED BY <1>2, <2>2, <2>3 DEF readLoop
<1>3. CASE strdupReadString
  <2>1. /\ prog # <<>> /\ Head(prog).do \in Copies /\ advance
        /\ UNCHANGED <<version, status, unread, handed, request>>
    BY <1>3 DEF strdupReadString, at, Copies
  <2>2. PICK v \in {"text", "empty", "null"} :
          /\ str' = [str EXCEPT ![field] = v]
          /\ heap' = IF v = "null" THEN heap ELSE heap \cup {field}
          /\ ended' \in IF v = "null" THEN {ended, TRUE} ELSE {ended}
    BY <1>3 DEF strdupReadString
  <2>3. ended' \in BOOLEAN /\ (ended => ended')
    BY <2>2 DEF IInv, Types
  <2> QED BY <2>1, <2>2, <2>3, CopyStep
<1>4. CASE copiedString
  <2>1. /\ prog # <<>> /\ Head(prog).do \in Copies /\ advance
        /\ UNCHANGED <<version, ended, status, unread, handed, request>>
    BY <1>4 DEF copiedString, at, Copies
  <2>2. PICK v \in {"text", "empty"} : str' = [str EXCEPT ![field] = v]
    BY <1>4 DEF copiedString
  <2>3. heap' = IF v = "null" THEN heap ELSE heap \cup {field}
    BY <1>4 DEF copiedString
  <2>4. ended' \in BOOLEAN /\ (ended => ended')
    BY <2>1 DEF IInv, Types
  <2> QED BY <2>1, <2>2, <2>3, <2>4, CopyStep
<1>5. CASE noElements
  <2>1. /\ prog # <<>> /\ Head(prog).do = "negative" /\ advance /\ unread' = unread \cup {Elements}
        /\ UNCHANGED <<version, ended, status, str, heap, handed, request>>
    BY <1>5 DEF noElements, at
  <2>2. Rest(prog) /\ IsPath(prog)
    BY DEF IInv, Rest
  <2>3. Rest(prog')
    BY <2>1, <2>2, TailRest DEF advance
  <2>4. /\ CheckAhead(prog) => CheckAhead(Tail(prog))
        /\ ReadsDone(prog) => ReadsDone(Tail(prog))
        /\ Unused(prog) => Unused(Tail(prog))
    BY <2>1, <2>2, TailCheckAhead, TailDone
  <2>5. failed' = failed
    BY <2>1 DEF failed
  <2>6. ReadInv' /\ RequestInv'
    BY <2>1, <2>4, <2>5 DEF IInv, ReadInv, RequestInv, advance
  <2>7. FreeInv' /\ HeapInv' /\ RawInv'
    BY <2>1, <2>2, SameStrings DEF IInv, Copies
  <2>8. Types'
    BY <2>1 DEF IInv, Types
  <2> QED BY <2>3, <2>6, <2>7, <2>8 DEF IInv
<1> QED BY <1>1, <1>2, <1>3, <1>4, <1>5, RawStep, EmptyStep, FreeStep, OtherStep, InvalidStep DEF Step

\* processCommandBuffer starts with nothing copied, read or handed over.
LEMMA StartStep ==
    ASSUME IInv, processCommandBuffer, Fits(prog')
    PROVE  IInv'
<1>1. /\ ended' = FALSE /\ status' = "unset" /\ unread' = {} /\ heap' = {} /\ handed' = FALSE
      /\ str' = [f \in Strings |-> "unset"] /\ request' = "pending" /\ version' = version
  BY DEF processCommandBuffer
<1>2. Types'
  BY <1>1 DEF IInv, Types
<1>3. FreeInv'
  BY DEF Fits, FreeInv
<1> QED BY <1>1, <1>2, <1>3 DEF Fits, IInv, ReadInv, failed, RequestInv, HeapInv, RawInv

-----------------------------------------------------------------------------
(* The paths of the dispatch functions. *)

\* A path with its only call at c: before it the payload is decoded, with the last
\* check at k (0: nothing is read); after it the strings are freed.
Shape(s, k, c) ==
    /\ IsPath(s) /\ Formed(s) /\ k \in Nat /\ c \in 1 .. Len(s) /\ k < c
    /\ k # 0 => s[k].do = "check"
    /\ s[c].do = "call"
    /\ \A i \in 1 .. c - 1 : s[i].do \notin {"call", "complete", "free"}
    /\ \A i \in c + 1 .. Len(s) : s[i].do = "free"
    /\ \A i \in 1 .. Len(s) : s[i].do \in Reads => i < k
StringsFit(s, c) ==
    /\ \A i, j \in c + 1 .. Len(s) : i # j => s[i].f[1] # s[j].f[1]
    /\ \A i \in c + 1 .. Len(s) : \E j \in 1 .. c - 1 : s[j].do \in Copies /\ s[j].f[1] = s[i].f[1]
    /\ \A i \in 1 .. c - 1 : s[i].do \in Copies =>
         s[i].f[1] = "smsc" \/ \E j \in c + 1 .. Len(s) : s[j].f[1] = s[i].f[1]
    /\ \A i, j \in 1 .. c - 1 : s[i].do = "raw" /\ s[j].do \in Copies => s[i].f[1] # s[j].f[1]

LEMMA ShapeFits ==
    ASSUME NEW s, NEW k, NEW c, Shape(s, k, c), StringsFit(s, c)
    PROVE  Fits(s)
<1>0. Len(s) \in Nat
  BY DEF Shape, IsPath
<1>1. k \in Nat /\ c \in 1 .. Len(s) /\ k < c /\ s[c].do = "call"
  BY DEF Shape
<1>2. \A i \in 1 .. Len(s) : i = c \/ i \in 1 .. c - 1 \/ i \in c + 1 .. Len(s)
  BY <1>0, <1>1
<1>3. \A i \in 1 .. Len(s) : /\ s[i].do = "call" => i = c
                             /\ s[i].do = "free" => i \in c + 1 .. Len(s)
                             /\ s[i].do \in {"call", "complete"} => i = c
                             /\ s[i].do \in Copies \cup {"raw"} => i \in 1 .. c - 1
                             /\ i \in c + 1 .. Len(s) => s[i].do = "free"
  BY <1>1, <1>2 DEF Shape, Copies
<1>4. Guarded(s)
  <2> SUFFICES ASSUME NEW i \in 1 .. Len(s), NEW j \in 1 .. Len(s), s[i].do = "call", s[j].do \in Reads
               PROVE  j < i /\ \E n \in j + 1 .. i - 1 : s[n].do = "check"
    BY DEF Guarded
  <2>1. i = c /\ j < k
    BY <1>3 DEF Shape
  <2>2. k \in j + 1 .. i - 1 /\ s[k].do = "check" /\ j < i
    BY <1>0, <1>1, <2>1 DEF Shape
  <2> QED BY <2>2
<1>5. LetsGo(s)
  <2> SUFFICES ASSUME NEW i \in 1 .. Len(s), NEW j \in 1 .. Len(s), s[i].do \in {"call", "complete"}, i < j
               PROVE  s[j].do \notin UsesRequest
    BY DEF LetsGo
  <2>1. i = c /\ j \in c + 1 .. Len(s)
    BY <1>0, <1>1, <1>3
  <2> QED BY <1>3, <2>1 DEF UsesRequest
<1>6. FreesOnce(s)
  BY <1>3 DEF StringsFit, FreesOnce
<1>7. KeepsRaw(s)
  <2> SUFFICES ASSUME NEW i \in 1 .. Len(s), NEW j \in 1 .. Len(s), s[i].do = "raw",
                      s[j].do \in Copies \cup {"free"}
               PROVE  s[i].f[1] # s[j].f[1]
    BY DEF KeepsRaw
  <2>1. i \in 1 .. c - 1
    BY <1>3
  <2>2. CASE s[j].do \in Copies
    BY <1>3, <2>1, <2>2 DEF StringsFit
  <2>3. CASE s[j].do = "free"
    <3>1. j \in c + 1 .. Len(s)
      BY <1>3, <2>3
    <3>2. PICK n \in 1 .. c - 1 : s[n].do \in Copies /\ s[n].f[1] = s[j].f[1]
      BY <3>1 DEF StringsFit
    <3> QED BY <2>1, <3>2 DEF StringsFit
  <2> QED BY <2>2, <2>3
<1>8. Returns(s)
  <2> SUFFICES ASSUME NEW i \in 1 .. Len(s), s[i].do \in Copies, s[i].f[1] # "smsc"
               PROVE  \E j \in i + 1 .. Len(s) : s[j].do = "free" /\ s[j].f[1] = s[i].f[1]
    BY DEF Returns
  <2>1. i \in 1 .. c - 1
    BY <1>3
  <2>2. PICK j \in c + 1 .. Len(s) : s[j].f[1] = s[i].f[1]
    BY <2>1 DEF StringsFit
  <2>3. j \in i + 1 .. Len(s) /\ j \in 1 .. Len(s)
    BY <1>0, <1>1, <2>1
  <2> QED BY <1>3, <2>2, <2>3
<1>9. ASSUME NEW i \in 1 .. Len(s), s[i].do = "free" PROVE HandsOver(s, i) /\ CopiesBefore(s, i)
  <2>1. i \in c + 1 .. Len(s)
    BY <1>3, <1>9
  <2>2. c \in 1 .. i - 1
    BY <1>0, <1>1, <2>1
  <2>3. PICK j \in 1 .. c - 1 : s[j].do \in Copies /\ s[j].f[1] = s[i].f[1]
    BY <2>1 DEF StringsFit
  <2>4. j \in 1 .. i - 1
    BY <1>0, <1>1, <2>1
  <2> QED BY <1>1, <2>2, <2>3, <2>4 DEF HandsOver, CopiesBefore
<1>10. IsPath(s) /\ Formed(s)
  BY DEF Shape
<1> QED BY <1>4, <1>5, <1>6, <1>7, <1>8, <1>9, <1>10 DEF Fits, Rest

\* A path without a hand-over that touches no string: it is refused, ignored or
\* answered at once.
LEMMA PlainFits ==
    ASSUME NEW s, IsPath(s), Formed(s),
           \/ \A i \in 1 .. Len(s) : s[i].do \in {"ints", "check", "refuse", "negative"}
           \/ \A i \in 1 .. Len(s) : s[i].do = "complete"
    PROVE  Fits(s)
<1>1. \A i \in 1 .. Len(s) : s[i].do \notin Copies \cup {"call", "free", "raw"}
  BY DEF Copies
<1>2. Guarded(s) /\ FreesOnce(s) /\ KeepsRaw(s) /\ Returns(s)
  BY <1>1 DEF Guarded, FreesOnce, KeepsRaw, Returns
<1>3. LetsGo(s)
  BY DEF LetsGo, UsesRequest
<1> QED BY <1>1, <1>2, <1>3 DEF Fits, Rest

\* A path that touches no string.
LEMMA IntsFormed ==
    ASSUME NEW s,
           \A i \in 1 .. Len(s) : s[i].do \in {"ints", "loop", "negative", "check", "refuse", "print", "call", "complete"},
           \A i \in 1 .. Len(s) : s[i].do = "ints" => Len(s[i].f) \in Nat \ {0}
    PROVE  Formed(s)
<1>1. \A i \in 1 .. Len(s) : s[i].do \in Calls /\ s[i].do \notin OfStrings
  BY DEF Calls, Reads, UsesRequest, OfStrings, Copies
<1> QED BY <1>1 DEF Formed

\* Where the elements of a concatenation are.
Joined(u, p, q) ==
    /\ IsPath(u) /\ Len(p) \in Nat /\ Len(q) \in Nat /\ Len(u) = Len(p) + Len(q)
    /\ \A i \in 1 .. Len(p) : u[i] = p[i]
    /\ \A i \in 1 .. Len(q) : u[Len(p) + i] = q[i]

LEMMA JoinFacts ==
    ASSUME NEW p, IsPath(p), NEW q, IsPath(q)
    PROVE  Joined(p \o q, p, q)
<1>1. PICK S : p \in Seq(S)
  BY DEF IsPath
<1>2. PICK T : q \in Seq(T)
  BY DEF IsPath
<1>3. p \o q \in Seq(S \cup T)
  BY <1>1, <1>2
<1> QED BY <1>1, <1>2, <1>3 DEF IsPath, Joined

\* Integers that are read first, and checked then or later.
LEMMA PrefixShape ==
    ASSUME NEW p, IsPath(p), Formed(p), Len(p) # 0, \A i \in 1 .. Len(p) : p[i].do \in {"ints", "check"},
           NEW s, NEW k, NEW c, Shape(s, k, c), StringsFit(s, c), k = 0 => p[Len(p)].do = "check"
    PROVE  /\ Shape(p \o s, IF k = 0 THEN Len(p) ELSE Len(p) + k, Len(p) + c)
           /\ StringsFit(p \o s, Len(p) + c)
<1> DEFINE u == p \o s
           n == Len(p)
           m == IF k = 0 THEN n ELSE n + k
<1>0. IsPath(s) /\ k \in Nat /\ c \in 1 .. Len(s) /\ k < c
  BY DEF Shape
<1>1. /\ IsPath(u) /\ n \in Nat \ {0} /\ Len(s) \in Nat /\ Len(u) = n + Len(s)
      /\ \A i \in 1 .. n : u[i] = p[i]
      /\ \A i \in 1 .. Len(s) : u[n + i] = s[i]
  BY <1>0, JoinFacts DEF Joined
<1> HIDE DEF u, n
<1>2. ASSUME NEW i \in 1 .. Len(u)
      PROVE  \/ i \in 1 .. n /\ u[i] = p[i]
             \/ i - n \in 1 .. Len(s) /\ u[i] = s[i - n]
  <2>1. CASE i \in 1 .. n
    BY <1>1, <2>1
  <2>2. CASE i \notin 1 .. n
    <3>1. i - n \in 1 .. Len(s) /\ n + (i - n) = i
      BY <1>1, <2>2
    <3> QED BY <1>1, <3>1
  <2> QED BY <2>1, <2>2
<1>p. \A i \in 1 .. n : u[i].do \in {"ints", "check"}
  BY <1>1 DEF n
<1>s. ASSUME NEW i \in n + 1 .. Len(u) PROVE i - n \in 1 .. Len(s) /\ u[i] = s[i - n]
  BY <1>1, <1>2
<1>3. Formed(u)
  BY <1>2 DEF Shape, Formed, n
<1>4. /\ m \in Nat \ {0} /\ n + c \in 1 .. Len(u) /\ m < n + c
      /\ u[m].do = "check" /\ u[n + c].do = "call"
  <2>1. m \in Nat \ {0} /\ n + c \in 1 .. Len(u) /\ m < n + c
    BY <1>0, <1>1
  <2>2. u[n + c].do = "call"
    BY <1>0, <1>1 DEF Shape
  <2>3. CASE k = 0
    <3>1. u[n] = p[n]
      BY <1>1
    <3> QED BY <2>1, <2>2, <2>3, <3>1 DEF n
  <2>4. CASE k # 0
    <3>1. k \in 1 .. Len(s) /\ u[n + k] = s[k]
      BY <1>0, <1>1, <2>4
    <3> QED BY <2>1, <2>2, <2>4, <3>1 DEF Shape
  <2> QED BY <2>3, <2>4
<1>5. ASSUME NEW i \in 1 .. (n + c) - 1 PROVE u[i].do \notin {"call", "complete", "free"}
  <2>1. CASE i \in 1 .. n
    BY <1>p, <2>1
  <2>2. CASE i \notin 1 .. n
    <3>1. i \in n + 1 .. Len(u) /\ i - n \in 1 .. c - 1
      BY <1>0, <1>1, <2>2
    <3> QED BY <1>s, <3>1 DEF Shape
  <2> QED BY <2>1, <2>2
<1>6. ASSUME NEW i \in (n + c) + 1 .. Len(u) PROVE u[i].do = "free" /\ i - n \in c + 1 .. Len(s) /\ u[i] = s[i - n]
  <2>1. i \in n + 1 .. Len(u) /\ i - n \in c + 1 .. Len(s)
    BY <1>0, <1>1
  <2> QED BY <1>s, <2>1 DEF Shape
<1>7. ASSUME NEW i \in 1 .. Len(u), u[i].do \in Reads PROVE i < m
  <2>1. CASE i \in 1 .. n
    <3>1. k = 0 => i # n
      <4>1. u[n] = p[n]
        BY <1>1
      <4> QED BY <1>7, <4>1 DEF Reads, n
    <3> QED BY <1>0, <1>1, <2>1, <3>1
  <2>2. CASE i \notin 1 .. n
    <3>1. i \in n + 1 .. Len(u)
      BY <1>1, <2>2
    <3>2. i - n < k
      BY <1>7, <1>s, <3>1 DEF Shape
    <3> QED BY <1>0, <1>1, <3>1, <3>2
  <2> QED BY <2>1, <2>2
<1>8. Shape(u, m, n + c)
  BY <1>1, <1>3, <1>4, <1>5, <1>6, <1>7 DEF Shape
<1>9. ASSUME NEW i \in 1 .. (n + c) - 1, u[i].do \in Copies \cup {"raw"}
      PROVE  i - n \in 1 .. c - 1 /\ u[i] = s[i - n]
  <2>1. i \notin 1 .. n
    BY <1>9, <1>p DEF Copies
  <2>2. i \in n + 1 .. Len(u) /\ i - n \in 1 .. c - 1
    BY <1>0, <1>1, <2>1
  <2> QED BY <1>s, <2>2
<1>c. ASSUME NEW j \in 1 .. Len(s) PROVE n + j \in 1 .. Len(u) /\ u[n + j] = s[j]
  BY <1>1
<1>10. ASSUME NEW i \in (n + c) + 1 .. Len(u)
       PROVE  \E j \in 1 .. (n + c) - 1 : u[j].do \in Copies /\ u[j].f[1] = u[i].f[1]
  <2>1. PICK j \in 1 .. c - 1 : s[j].do \in Copies /\ s[j].f[1] = s[i - n].f[1]
    BY <1>6 DEF StringsFit
  <2>2. n + j \in 1 .. (n + c) - 1 /\ j \in 1 .. Len(s)
    BY <1>0, <1>1
  <2>3. u[n + j] = s[j]
    BY <1>c, <2>2
  <2> QED BY <1>6, <2>1, <2>2, <2>3
<1>11. ASSUME NEW i \in 1 .. (n + c) - 1, u[i].do \in Copies, u[i].f[1] # "smsc"
       PROVE  \E j \in (n + c) + 1 .. Len(u) : u[j].f[1] = u[i].f[1]
  <2>1. i - n \in 1 .. c - 1 /\ u[i] = s[i - n]
    BY <1>9, <1>11
  <2>2. PICK j \in c + 1 .. Len(s) : s[j].f[1] = s[i - n].f[1]
    BY <1>11, <2>1 DEF StringsFit
  <2>3. n + j \in (n + c) + 1 .. Len(u) /\ j \in 1 .. Len(s)
    BY <1>0, <1>1
  <2>4. u[n + j] = s[j]
    BY <1>c, <2>3
  <2> QED BY <2>1, <2>2, <2>3, <2>4
<1>12. ASSUME NEW i \in (n + c) + 1 .. Len(u), NEW j \in (n + c) + 1 .. Len(u), i # j
       PROVE  u[i].f[1] # u[j].f[1]
  <2>1. i - n # j - n
    BY <1>0, <1>1, <1>12
  <2>2. /\ i - n \in c + 1 .. Len(s) /\ u[i] = s[i - n]
        /\ j - n \in c + 1 .. Len(s) /\ u[j] = s[j - n]
    BY <1>6
  <2>3. s[i - n].f[1] # s[j - n].f[1]
    BY <2>1, <2>2 DEF StringsFit
  <2> QED BY <2>2, <2>3
<1>13. ASSUME NEW i \in 1 .. (n + c) - 1, NEW j \in 1 .. (n + c) - 1, u[i].do = "raw", u[j].do \in Copies
       PROVE  u[i].f[1] # u[j].f[1]
  <2>1. i - n \in 1 .. c - 1 /\ u[i] = s[i - n] /\ j - n \in 1 .. c - 1 /\ u[j] = s[j - n]
    BY <1>9, <1>13
  <2> QED BY <1>13, <2>1 DEF StringsFit
<1>14. StringsFit(u, n + c)
  BY <1>10, <1>11, <1>12, <1>13 DEF StringsFit
<1> QED BY <1>8, <1>14 DEF u, n

-----------------------------------------------------------------------------
(* The functions, one by one. *)

LEMMA dispatchVoid_Fits == \A path \in dispatchVoid : Fits(path)
<1> DEFINE s == <<PrintReq, Call>>
<1> USE DEF PrintReq, Call, Op
<1>1. IsPath(s) /\ Len(s) = 2
  <2>1. s \in Seq({s[i] : i \in 1 .. 2})
    OBVIOUS
  <2> QED BY <2>1 DEF IsPath
<1>2. Formed(s)
  BY DEF Formed, Calls, Reads, UsesRequest, OfStrings, Copies, Strings, Named
<1>3. Shape(s, 0, 2)
  BY <1>1, <1>2 DEF Shape, Reads
<1>4. StringsFit(s, 2)
  BY DEF StringsFit, Copies
<1>5. Fits(s)
  <2> HIDE DEF s
  <2> QED BY <1>3, <1>4, ShapeFits
<1> QED BY <1>5 DEF dispatchVoid

LEMMA dispatchString_Fits == \A path \in dispatchString : Fits(path)
<1> DEFINE s == <<Str("string8"), PrintReq, Call, Free("string8")>>
<1> USE DEF Str, PrintReq, Call, Free, Op
<1>1. IsPath(s) /\ Len(s) = 4
  <2>1. s \in Seq({s[i] : i \in 1 .. 4})
    OBVIOUS
  <2> QED BY <2>1 DEF IsPath
<1>2. Formed(s)
  BY DEF Formed, Calls, Reads, UsesRequest, OfStrings, Copies, Strings, Named
<1>3. Shape(s, 0, 3)
  BY <1>1, <1>2 DEF Shape, Reads
<1>4. StringsFit(s, 3)
  BY DEF StringsFit, Copies
<1>5. Fits(s)
  <2> HIDE DEF s
  <2> QED BY <1>3, <1>4, ShapeFits
<1> QED BY <1>5 DEF dispatchString

LEMMA dispatchSmsWrite_Fits == \A path \in dispatchSmsWrite : Fits(path)
<1> DEFINE s == <<Ints(<<"status">>), Str("pdu"), Check, NotNull("pdu"), Str("smsc"), PrintReq, Call, Free("pdu")>>
<1> USE DEF Ints, Str, Check, NotNull, PrintReq, Call, Free, Op
<1>1. IsPath(s) /\ Len(s) = 8
  <2>1. s \in Seq({s[i] : i \in 1 .. 8})
    OBVIOUS
  <2> QED BY <2>1 DEF IsPath
<1>2. Formed(s)
  BY DEF Formed, Calls, Reads, UsesRequest, OfStrings, Copies, Strings, Named
<1>3. Shape(s, 3, 7)
  BY <1>1, <1>2 DEF Shape, Reads
<1>4. StringsFit(s, 7)
  BY DEF StringsFit, Copies
<1>5. Fits(s)
  <2> HIDE DEF s
  <2> QED BY <1>3, <1>4, ShapeFits
<1> QED BY <1>5 DEF dispatchSmsWrite

LEMMA dispatchCallForward_Fits == \A path \in dispatchCallForward : Fits(path)
<1> DEFINE s == <<Ints(<<"status", "reason", "serviceClass", "toa">>), Str("number"), Ints(<<"timeSeconds">>),
               Check, NullIfEmpty("number"), PrintReq, Call, Free("number")>>
<1> USE DEF Ints, Str, Check, NullIfEmpty, PrintReq, Call, Free, Op
<1>1. IsPath(s) /\ Len(s) = 8
  <2>1. s \in Seq({s[i] : i \in 1 .. 8})
    OBVIOUS
  <2> QED BY <2>1 DEF IsPath
<1>2. Formed(s)
  BY DEF Formed, Calls, Reads, UsesRequest, OfStrings, Copies, Strings, Named
<1>3. Shape(s, 4, 7)
  BY <1>1, <1>2 DEF Shape, Reads
<1>4. StringsFit(s, 7)
  BY DEF StringsFit, Copies
<1>5. Fits(s)
  <2> HIDE DEF s
  <2> QED BY <1>3, <1>4, ShapeFits
<1> QED BY <1>5 DEF dispatchCallForward

LEMMA dispatchRaw_Fits == \A path \in dispatchRaw : Fits(path)
<1> DEFINE s == <<Ints(<<"len">>), Check, Raw("data"), PrintReq, Call>>
<1> USE DEF Ints, Raw, Check, PrintReq, Call, Op
<1>1. IsPath(s) /\ Len(s) = 5
  <2>1. s \in Seq({s[i] : i \in 1 .. 5})
    OBVIOUS
  <2> QED BY <2>1 DEF IsPath
<1>2. Formed(s)
  BY DEF Formed, Calls, Reads, UsesRequest, OfStrings, Copies, Strings, Named
<1>3. Shape(s, 2, 5)
  BY <1>1, <1>2 DEF Shape, Reads
<1>4. StringsFit(s, 5)
  BY DEF StringsFit, Copies
<1>5. Fits(s)
  <2> HIDE DEF s
  <2> QED BY <1>3, <1>4, ShapeFits
<1> QED BY <1>5 DEF dispatchRaw

LEMMA dispatchCdmaSmsAck_Fits == \A path \in dispatchCdmaSmsAck : Fits(path)
<1> DEFINE s == <<Ints(<<"uErrorClass", "uSMSCauseCode">>), Check, PrintReq, Call>>
<1> USE DEF Ints, Check, PrintReq, Call, Op
<1>1. IsPath(s) /\ Len(s) = 4
  <2>1. s \in Seq({s[i] : i \in 1 .. 4})
    OBVIOUS
  <2> QED BY <2>1 DEF IsPath
<1>2. Formed(s)
  BY DEF Formed, Calls, Reads, UsesRequest, OfStrings, Copies, Strings, Named
<1>3. Shape(s, 2, 4)
  BY <1>1, <1>2 DEF Shape, Reads
<1>4. StringsFit(s, 4)
  BY DEF StringsFit, Copies
<1>5. Fits(s)
  <2> HIDE DEF s
  <2> QED BY <1>3, <1>4, ShapeFits
<1> QED BY <1>5 DEF dispatchCdmaSmsAck

\* An array of a negative number of elements.
LEMMA NegativeShape ==
    ASSUME NEW count, NEW next \in {PrintReq, Check}
    PROVE  LET s == <<Ints(<<count>>), Check, Negative, next, Call>>
           IN Shape(s, 2, 5) /\ StringsFit(s, 5)
<1> DEFINE s == <<Ints(<<count>>), Check, Negative, next, Call>>
<1>1. /\ s \in Seq({s[i] : i \in 1 .. 5}) /\ Len(s) = 5 /\ s[1].do = "ints" /\ Len(s[1].f) = 1
      /\ s[2].do = "check" /\ s[3].do = "negative" /\ s[4].do \in {"print", "check"} /\ s[5].do = "call"
  BY DEF Ints, Check, Negative, PrintReq, Call, Op
<1> HIDE DEF s
<1>2. ASSUME NEW i \in 1 .. Len(s) PROVE i = 1 \/ i = 2 \/ i = 3 \/ i = 4 \/ i = 5
  BY <1>1
<1>3. \A i \in 1 .. Len(s) : /\ s[i].do \in {"ints", "check", "negative", "print", "call"}
                             /\ s[i].do = "ints" => i = 1
                             /\ s[i].do = "call" => i = 5
  BY <1>1, <1>2
<1>4. Len(s[1].f) \in Nat \ {0}
  BY <1>1
<1>5. IsPath(s) /\ Formed(s)
  BY <1>1, <1>3, <1>4, IntsFormed DEF IsPath
<1>6. Shape(s, 2, 5)
  BY <1>1, <1>3, <1>5 DEF Shape, Reads
<1>7. StringsFit(s, 5)
  BY <1>1, <1>3 DEF StringsFit, Copies
<1> QED BY <1>6, <1>7 DEF s

\* The process dies of it.
LEMMA NegativeEnds ==
    ASSUME NEW count
    PROVE  LET s == <<Ints(<<count>>), Check, Negative>>
           IN /\ IsPath(s) /\ Formed(s)
              /\ \A i \in 1 .. Len(s) : s[i].do \in {"ints", "check", "refuse", "negative"}
<1> DEFINE s == <<Ints(<<count>>), Check, Negative>>
<1>1. /\ s \in Seq({s[i] : i \in 1 .. 3}) /\ Len(s) = 3 /\ s[1].do = "ints" /\ Len(s[1].f) = 1
      /\ s[2].do = "check" /\ s[3].do = "negative"
  BY DEF Ints, Check, Negative, Op
<1> HIDE DEF s
<1>2. \A i \in 1 .. Len(s) : s[i].do \in {"ints", "check", "negative"} /\ (s[i].do = "ints" => i = 1)
  BY <1>1
<1>3. Len(s[1].f) \in Nat \ {0}
  BY <1>1
<1>4. IsPath(s) /\ Formed(s)
  BY <1>1, <1>2, <1>3, IntsFormed DEF IsPath
<1> QED BY <1>2, <1>4 DEF s

LEMMA NegativeFits ==
    ASSUME NEW count, NEW next \in {PrintReq, Check}
    PROVE  \A path \in negative(count, next) : Fits(path)
<1>1. Fits(<<Ints(<<count>>), Check, Negative>>)
  BY NegativeEnds, PlainFits
<1>2. Fits(<<Ints(<<count>>), Check, Negative, next, Call>>)
  BY NegativeShape, ShapeFits
<1> QED BY <1>1, <1>2 DEF negative

LEMMA dispatchGsmBrSmsCnf_Fits == \A path \in dispatchGsmBrSmsCnf : Fits(path)
<1> DEFINE s == <<Ints(<<"num">>), Check, Loop("gsmBci"), Check, Call>>
<1> USE DEF Ints, Loop, Check, Call, Op
<1>1. IsPath(s) /\ Len(s) = 5
  <2>1. s \in Seq({s[i] : i \in 1 .. 5})
    OBVIOUS
  <2> QED BY <2>1 DEF IsPath
<1>2. Formed(s)
  BY DEF Formed, Calls, Reads, UsesRequest, OfStrings, Copies, Strings, Named
<1>3. Shape(s, 4, 5)
  BY <1>1, <1>2 DEF Shape, Reads
<1>4. StringsFit(s, 5)
  BY DEF StringsFit, Copies
<1>5. Fits(s)
  <2> HIDE DEF s
  <2> QED BY <1>3, <1>4, ShapeFits
<1>6. \A path \in negative("num", Check) : Fits(path)
  BY NegativeFits
<1> QED BY <1>5, <1>6 DEF dispatchGsmBrSmsCnf

LEMMA dispatchCdmaBrSmsCnf_Fits == \A path \in dispatchCdmaBrSmsCnf : Fits(path)
<1> DEFINE s == <<Ints(<<"num">>), Check, Loop("cdmaBci"), Check, Call>>
<1> USE DEF Ints, Loop, Check, Call, Op
<1>1. IsPath(s) /\ Len(s) = 5
  <2>1. s \in Seq({s[i] : i \in 1 .. 5})
    OBVIOUS
  <2> QED BY <2>1 DEF IsPath
<1>2. Formed(s)
  BY DEF Formed, Calls, Reads, UsesRequest, OfStrings, Copies, Strings, Named
<1>3. Shape(s, 4, 5)
  BY <1>1, <1>2 DEF Shape, Reads
<1>4. StringsFit(s, 5)
  BY DEF StringsFit, Copies
<1>5. Fits(s)
  <2> HIDE DEF s
  <2> QED BY <1>3, <1>4, ShapeFits
<1>6. \A path \in negative("num", Check) : Fits(path)
  BY NegativeFits
<1> QED BY <1>5, <1>6 DEF dispatchCdmaBrSmsCnf

LEMMA dispatchRilCdmaSmsWriteArgs_Fits == \A path \in dispatchRilCdmaSmsWriteArgs : Fits(path)
<1> DEFINE names == <<"status", "uTeleserviceID", "bIsServicePresent", "uServicecategory", "digit_mode",
                      "number_mode", "number_type", "number_plan", "number_of_digits", "digits",
                      "subaddressType", "odd", "sub_number_of_digits", "sub_digits", "uBearerDataLen",
                      "aBearerData">>
           s == <<Ints(names), Check, PrintReq, Call>>
<1>0. Len(names) = 16 /\ dispatchRilCdmaSmsWriteArgs = {s}
  BY DEF dispatchRilCdmaSmsWriteArgs
<1> HIDE DEF names
<1> USE DEF Ints, Check, PrintReq, Call, Op
<1>1. IsPath(s) /\ Len(s) = 4
  <2>1. s \in Seq({s[i] : i \in 1 .. 4})
    OBVIOUS
  <2> QED BY <2>1 DEF IsPath
<1>2. Formed(s)
  <2>1. s[1].do = "ints" /\ s[1].f = names /\ s[2].do = "check" /\ s[3].do = "print" /\ s[4].do = "call"
    OBVIOUS
  <2> HIDE DEF s
  <2>2. \A i \in 1 .. Len(s) : i = 1 \/ i = 2 \/ i = 3 \/ i = 4
    BY <1>1
  <2>3. \A i \in 1 .. Len(s) : s[i].do \in {"ints", "check", "print", "call"} /\ (s[i].do = "ints" => i = 1)
    BY <2>1, <2>2
  <2>4. Len(s[1].f) = 16
    BY <1>0, <2>1, Zenon
  <2>5. Len(s[1].f) \in Nat \ {0}
    BY <2>4
  <2> QED BY <2>3, <2>5, IntsFormed
<1>3. Shape(s, 2, 4)
  BY <1>1, <1>2 DEF Shape, Reads
<1>4. StringsFit(s, 4)
  BY DEF StringsFit, Copies
<1>5. Fits(s)
  <2> HIDE DEF s
  <2> QED BY <1>3, <1>4, ShapeFits
<1> QED BY <1>0, <1>5

LEMMA dispatchSetInitialAttachApn_Fits == \A path \in dispatchSetInitialAttachApn : Fits(path)
<1> DEFINE s == <<Str("apn"), Str("protocol"), Ints(<<"authtype">>), Str("username"), Str("password"),
               PrintReq, Check, Call, Free("apn"), Free("protocol"), Free("username"),
               Free("password")>>
<1> USE DEF Ints, Str, Check, PrintReq, Call, Free, Op
<1>1. IsPath(s) /\ Len(s) = 12
  <2>1. s \in Seq({s[i] : i \in 1 .. 12})
    OBVIOUS
  <2> QED BY <2>1 DEF IsPath
<1>2. Formed(s)
  BY DEF Formed, Calls, Reads, UsesRequest, OfStrings, Copies, Strings, Named
<1>3. Shape(s, 7, 8)
  BY <1>1, <1>2 DEF Shape, Reads
<1>4. StringsFit(s, 8)
  BY DEF StringsFit, Copies
<1>5. Fits(s)
  <2> HIDE DEF s
  <2> QED BY <1>3, <1>4, ShapeFits
<1> QED BY <1>5 DEF dispatchSetInitialAttachApn

LEMMA dispatchUiccSubscripton_Fits == \A path \in dispatchUiccSubscripton : Fits(path)
<1> DEFINE s == <<Ints(<<"slot">>), Check, Ints(<<"app_index">>), Check, Ints(<<"sub_type">>), Check,
               Ints(<<"act_status">>), Check, PrintReq, Call>>
<1> USE DEF Ints, Check, PrintReq, Call, Op
<1>1. IsPath(s) /\ Len(s) = 10
  <2>1. s \in Seq({s[i] : i \in 1 .. 10})
    OBVIOUS
  <2> QED BY <2>1 DEF IsPath
<1>2. Formed(s)
  BY DEF Formed, Calls, Reads, UsesRequest, OfStrings, Copies, Strings, Named
<1>3. Shape(s, 8, 10)
  BY <1>1, <1>2 DEF Shape, Reads
<1>4. StringsFit(s, 10)
  BY DEF StringsFit, Copies
<1>5. Fits(s)
  <2> HIDE DEF s
  <2> QED BY <1>3, <1>4, ShapeFits
<1> QED BY <1>5 DEF dispatchUiccSubscripton

LEMMA dispatchSIM_IO_Fits == \A path \in dispatchSIM_IO : Fits(path)
<1> DEFINE s == <<Ints(<<"command", "fileid">>), Str("path"), Ints(<<"p1", "p2", "p3">>), Str("data"),
                  Str("pin2"), Str("aidPtr"), PrintReq, Check, Call,
                  Free("path"), Free("data"), Free("pin2"), Free("aidPtr")>>
           cla == <<Ints(<<"cla">>)>>
<1>0. \A path \in dispatchSIM_IO : path = <<>> \o s \/ path = cla \o s
  BY DEF dispatchSIM_IO
<1> USE DEF Ints, Str, Check, PrintReq, Call, Free, Op
<1>1. IsPath(s) /\ Len(s) = 13
  <2>1. s \in Seq({s[i] : i \in 1 .. 13})
    OBVIOUS
  <2> QED BY <2>1 DEF IsPath
<1>2. Formed(s)
  BY DEF Formed, Calls, Reads, UsesRequest, OfStrings, Copies, Strings, Named
<1>3. Shape(s, 8, 9)
  BY <1>1, <1>2 DEF Shape, Reads
<1>4. StringsFit(s, 9)
  BY DEF StringsFit, Copies
<1>5. IsPath(cla) /\ Len(cla) = 1 /\ Formed(cla) /\ cla[1].do = "ints"
  <2>1. cla \in Seq({cla[i] : i \in 1 .. 1}) /\ Len(cla) = 1 /\ cla[1].do = "ints" /\ Len(cla[1].f) = 1
    OBVIOUS
  <2>2. IsPath(cla)
    BY <2>1 DEF IsPath
  <2> HIDE DEF cla
  <2>3. Formed(cla)
    <3>1. ASSUME NEW i \in 1 .. Len(cla) PROVE cla[i].do = "ints" /\ Len(cla[i].f) = 1
      <4>1. i = 1
        BY <2>1
      <4> QED BY <2>1, <4>1
    <3>2. \A i \in 1 .. Len(cla) : Len(cla[i].f) \in Nat \ {0}
      BY <3>1
    <3> QED BY <3>1, <3>2, IntsFormed
  <2> QED BY <2>1, <2>2, <2>3
<1>6. <<>> \o s = s
  <2> HIDE DEF s
  <2> QED BY <1>1 DEF IsPath
<1> HIDE DEF s, cla
<1>7. Fits(s)
  BY <1>3, <1>4, ShapeFits
<1>8. Fits(cla \o s)
  BY <1>3, <1>4, <1>5, PrefixShape, ShapeFits
<1> QED BY <1>0, <1>6, <1>7, <1>8

\* The message of the CDMA functions, with the call that follows.
LEMMA CdmaShape == Shape(constructCdmaSms \o <<Call>>, 7, 9) /\ StringsFit(constructCdmaSms \o <<Call>>, 9)
<1> DEFINE names == <<"uTeleserviceID", "bIsServicePresent", "uServicecategory", "digit_mode", "number_mode",
                      "number_type", "number_plan", "number_of_digits">>
           a == <<Ints(names), Loop("digits"), Ints(<<"subaddressType", "odd", "sub_number_of_digits">>),
                  Loop("sub_digits"), Ints(<<"uBearerDataLen">>), Loop("aBearerData"), Check, PrintReq>>
           b == <<Call>>
           s == a \o b
<1>0. Len(names) = 8 /\ constructCdmaSms = a
  BY DEF constructCdmaSms
<1> HIDE DEF names
<1>1. IsPath(a) /\ Len(a) = 8
  <2>1. a \in Seq({a[i] : i \in 1 .. 8}) /\ Len(a) = 8
    OBVIOUS
  <2> QED BY <2>1 DEF IsPath
<1>2. IsPath(b) /\ Len(b) = 1 /\ b[1].do = "call"
  <2>1. b \in Seq({b[i] : i \in 1 .. 1}) /\ Len(b) = 1
    OBVIOUS
  <2> QED BY <2>1 DEF IsPath, Call, Op
<1>3. /\ a[1].do = "ints" /\ Len(a[1].f) = 8 /\ a[2].do = "loop" /\ a[3].do = "ints" /\ Len(a[3].f) = 3
      /\ a[4].do = "loop" /\ a[5].do = "ints" /\ Len(a[5].f) = 1 /\ a[6].do = "loop"
      /\ a[7].do = "check" /\ a[8].do = "print"
  BY <1>0 DEF Ints, Loop, Check, PrintReq, Op
<1> HIDE DEF a, b
<1>4. IsPath(s) /\ Len(s) = 9 /\ (\A i \in 1 .. 8 : s[i] = a[i]) /\ s[8 + 1] = b[1]
  <2>1. Joined(s, a, b)
    BY <1>1, <1>2, JoinFacts
  <2> HIDE DEF s
  <2> QED BY <1>1, <1>2, <2>1 DEF Joined
<1> HIDE DEF s
<1>5. /\ s[1].do = "ints" /\ Len(s[1].f) = 8 /\ s[2].do = "loop" /\ s[3].do = "ints" /\ Len(s[3].f) = 3
      /\ s[4].do = "loop" /\ s[5].do = "ints" /\ Len(s[5].f) = 1 /\ s[6].do = "loop"
      /\ s[7].do = "check" /\ s[8].do = "print" /\ s[9].do = "call"
  BY <1>2, <1>3, <1>4
<1>6. Formed(s)
  <2>1. \A i \in 1 .. Len(s) : s[i].do \in {"ints", "loop", "check", "print", "call"}
    BY <1>4, <1>5
  <2>2. ASSUME NEW i \in 1 .. Len(s), s[i].do = "ints" PROVE Len(s[i].f) \in Nat \ {0}
    <3>1. i = 1 \/ i = 3 \/ i = 5
      BY <1>4, <1>5, <2>2
    <3>2. Len(s[i].f) = 8 \/ Len(s[i].f) = 3 \/ Len(s[i].f) = 1
      BY <1>5, <3>1
    <3> QED BY <3>2
  <2> QED BY <2>1, <2>2, IntsFormed
<1>7. Shape(s, 7, 9)
  BY <1>4, <1>5, <1>6 DEF Shape, Reads
<1>8. StringsFit(s, 9)
  BY <1>4, <1>5 DEF StringsFit, Copies
<1> QED BY <1>0, <1>7, <1>8 DEF s, b

LEMMA dispatchCdmaSms_Fits == \A path \in dispatchCdmaSms : Fits(path)
BY CdmaShape, ShapeFits DEF dispatchCdmaSms

\* n copied strings, the log, the hand-over and the strings freed again.
CopyCallFree(do, n) ==
    [i \in 1 .. n |-> Op(do, <<Item[i]>>)] \o <<PrintReq, Call>> \o [i \in 1 .. n |-> Free(Item[i])]

LEMMA CopiesShape ==
    ASSUME NEW n \in 0 .. MaxCount, NEW do \in Copies
    PROVE  LET s == CopyCallFree(do, n) IN Shape(s, 0, n + 2) /\ StringsFit(s, n + 2)
<1> DEFINE a == [i \in 1 .. n |-> Op(do, <<Item[i]>>)]
           b == <<PrintReq, Call>>
           d == [i \in 1 .. n |-> Free(Item[i])]
           s == (a \o b) \o d
<1>0. CopyCallFree(do, n) = s /\ n \in Nat
  BY DispatchAssumption DEF CopyCallFree
<1>i. \A i, j \in 1 .. n : Item[i] \in Strings /\ (i # j => Item[i] # Item[j])
  <2>1. \A i \in 1 .. n : i \in 1 .. MaxCount
    BY DispatchAssumption
  <2> QED BY <2>1, ItemAssumption DEF Strings
<1>1. IsPath(a) /\ Len(a) = n /\ \A i \in 1 .. n : a[i].do = do /\ a[i].f[1] = Item[i]
  <2>1. a \in Seq({a[i] : i \in 1 .. n}) /\ Len(a) = n
    OBVIOUS
  <2>2. \A i \in 1 .. n : a[i].do = do /\ a[i].f[1] = Item[i]
    BY DEF Op
  <2> QED BY <2>1, <2>2 DEF IsPath
<1>2. IsPath(b) /\ Len(b) = 2 /\ b[1].do = "print" /\ b[2].do = "call"
  <2>1. b \in Seq({b[i] : i \in 1 .. 2}) /\ Len(b) = 2
    OBVIOUS
  <2> QED BY <2>1 DEF IsPath, PrintReq, Call, Op
<1>3. IsPath(d) /\ Len(d) = n /\ \A i \in 1 .. n : d[i].do = "free" /\ d[i].f[1] = Item[i]
  <2>1. d \in Seq({d[i] : i \in 1 .. n}) /\ Len(d) = n
    OBVIOUS
  <2>2. \A i \in 1 .. n : d[i].do = "free" /\ d[i].f[1] = Item[i]
    BY DEF Free, Op
  <2> QED BY <2>1, <2>2 DEF IsPath
<1> HIDE DEF a, b, d
<1>4. /\ IsPath(a \o b) /\ Len(a \o b) = n + 2 /\ (\A i \in 1 .. n : (a \o b)[i] = a[i])
      /\ (\A i \in 1 .. 2 : (a \o b)[n + i] = b[i])
  <2> DEFINE e == a \o b
  <2>1. Joined(e, a, b)
    BY <1>1, <1>2, JoinFacts
  <2> HIDE DEF e
  <2>2. /\ IsPath(e) /\ Len(e) = n + 2 /\ (\A i \in 1 .. n : e[i] = a[i])
        /\ (\A i \in 1 .. 2 : e[n + i] = b[i])
    BY <1>1, <1>2, <2>1 DEF Joined
  <2> QED BY <2>2 DEF e
<1>5. /\ IsPath(s) /\ Len(s) = n + 2 + n /\ (\A i \in 1 .. n + 2 : s[i] = (a \o b)[i])
      /\ (\A i \in 1 .. n : s[n + 2 + i] = d[i])
  <2> DEFINE e == a \o b
  <2>0. IsPath(e) /\ Len(e) = n + 2
    BY <1>4
  <2> HIDE DEF e
  <2>1. Joined(e \o d, e, d)
    BY <1>3, <2>0, JoinFacts
  <2>2. Joined(s, e, d)
    BY <2>1 DEF e
  <2> HIDE DEF s
  <2>3. /\ IsPath(s) /\ Len(s) = n + 2 + n /\ (\A i \in 1 .. n + 2 : s[i] = e[i])
        /\ (\A i \in 1 .. n : s[n + 2 + i] = d[i])
    BY <1>3, <2>0, <2>2 DEF Joined
  <2> QED BY <2>3 DEF e
<1>6. /\ \A i \in 1 .. n : s[i].do = do /\ s[i].f[1] = Item[i]
      /\ s[n + 1].do = "print" /\ s[n + 2].do = "call"
      /\ \A i \in 1 .. n : s[n + 2 + i].do = "free" /\ s[n + 2 + i].f[1] = Item[i]
  BY <1>1, <1>2, <1>3, <1>4, <1>5
<1> HIDE DEF s
<1>7. \A i \in n + 3 .. Len(s) : i - (n + 2) \in 1 .. n /\ s[i].do = "free" /\ s[i].f[1] = Item[i - (n + 2)]
  <2> SUFFICES ASSUME NEW i \in n + 3 .. Len(s)
               PROVE  i - (n + 2) \in 1 .. n /\ s[i].do = "free" /\ s[i].f[1] = Item[i - (n + 2)]
    OBVIOUS
  <2>1. i - (n + 2) \in 1 .. n /\ n + 2 + (i - (n + 2)) = i
    BY <1>5
  <2> QED BY <1>6, <2>1
<1>8. \A i \in 1 .. Len(s) : i \in 1 .. n \/ i = n + 1 \/ i = n + 2 \/ i \in n + 3 .. Len(s)
  BY <1>5
<1>9. Formed(s)
  <2> SUFFICES ASSUME NEW i \in 1 .. Len(s)
               PROVE  /\ s[i].do \in Calls /\ s[i].do # "ints"
                      /\ s[i].do \in OfStrings => s[i].f[1] \in Strings
    BY DEF Formed
  <2>1. CASE i \in 1 .. n
    <3>1. s[i].do \in Copies /\ s[i].f[1] \in Strings
      BY <1>6, <1>i, <2>1
    <3> QED BY <3>1 DEF Calls, Copies
  <2>2. CASE i = n + 1 \/ i = n + 2
    <3>1. s[i].do \in {"print", "call"}
      BY <1>6, <2>2
    <3> QED BY <3>1 DEF Calls, UsesRequest, OfStrings, Copies
  <2>3. CASE i \in n + 3 .. Len(s)
    <3>1. s[i].do = "free" /\ s[i].f[1] \in Strings
      BY <1>7, <1>i, <2>3
    <3> QED BY <3>1 DEF Calls
  <2> QED BY <1>8, <2>1, <2>2, <2>3
<1>10. Shape(s, 0, n + 2)
  <2>1. 0 \in Nat /\ n + 2 \in 1 .. Len(s) /\ 0 < n + 2
    BY <1>5
  <2>2. \A i \in 1 .. (n + 2) - 1 : i \in 1 .. n \/ i = n + 1
    OBVIOUS
  <2>3. \A i \in 1 .. (n + 2) - 1 : s[i].do \notin {"call", "complete", "free"}
    BY <1>6, <2>2 DEF Copies
  <2>4. \A i \in (n + 2) + 1 .. Len(s) : s[i].do = "free"
    BY <1>7
  <2>5. \A i \in 1 .. Len(s) : s[i].do \notin Reads
    BY <1>6, <1>7, <1>8 DEF Copies, Reads
  <2> QED BY <1>5, <1>6, <1>9, <2>1, <2>3, <2>4, <2>5 DEF Shape
<1>11. StringsFit(s, n + 2)
  <2>1. ASSUME NEW i \in (n + 2) + 1 .. Len(s), NEW j \in (n + 2) + 1 .. Len(s), i # j
        PROVE  s[i].f[1] # s[j].f[1]
    <3>1. i - (n + 2) # j - (n + 2)
      BY <2>1, <1>5
    <3>2. /\ i - (n + 2) \in 1 .. n /\ s[i].f[1] = Item[i - (n + 2)]
          /\ j - (n + 2) \in 1 .. n /\ s[j].f[1] = Item[j - (n + 2)]
      BY <1>7
    <3> QED BY <1>i, <3>1, <3>2
  <2>2. ASSUME NEW i \in (n + 2) + 1 .. Len(s)
        PROVE  \E j \in 1 .. (n + 2) - 1 : s[j].do \in Copies /\ s[j].f[1] = s[i].f[1]
    <3>1. i - (n + 2) \in 1 .. n /\ s[i].f[1] = Item[i - (n + 2)]
      BY <1>7
    <3>2. i - (n + 2) \in 1 .. (n + 2) - 1
      BY <3>1
    <3> QED BY <1>6, <3>1, <3>2
  <2>3. ASSUME NEW i \in 1 .. (n + 2) - 1, s[i].do \in Copies
        PROVE  \E j \in (n + 2) + 1 .. Len(s) : s[j].f[1] = s[i].f[1]
    <3>1. i \in 1 .. n
      BY <1>6, <2>3 DEF Copies
    <3>2. n + 2 + i \in (n + 2) + 1 .. Len(s)
      BY <1>5, <3>1
    <3> QED BY <1>6, <3>1, <3>2
  <2>4. \A i \in 1 .. (n + 2) - 1 : s[i].do # "raw"
    <3>1. \A i \in 1 .. (n + 2) - 1 : i \in 1 .. n \/ i = n + 1
      OBVIOUS
    <3> QED BY <1>6, <3>1 DEF Copies
  <2> QED BY <2>1, <2>2, <2>3, <2>4 DEF StringsFit
<1> QED BY <1>0, <1>10, <1>11

\* One integer, read and checked.
LEMMA CheckedInt ==
    ASSUME NEW f
    PROVE  LET p == <<Ints(<<f>>), Check>>
           IN /\ IsPath(p) /\ Formed(p) /\ Len(p) = 2 /\ p[1].do = "ints" /\ p[2].do = "check"
<1> DEFINE p == <<Ints(<<f>>), Check>>
<1>1. /\ p \in Seq({p[i] : i \in 1 .. 2}) /\ Len(p) = 2 /\ p[1].do = "ints" /\ p[2].do = "check"
      /\ Len(p[1].f) = 1
  BY DEF Ints, Check, Op
<1> HIDE DEF p
<1>2. IsPath(p)
  BY <1>1 DEF IsPath
<1>3. \A i \in 1 .. Len(p) : p[i].do \in {"ints", "check"} /\ (p[i].do = "ints" => i = 1)
  BY <1>1
<1>4. Len(p[1].f) \in Nat \ {0}
  BY <1>1
<1>5. Formed(p)
  BY <1>3, <1>4, IntsFormed
<1> QED BY <1>1, <1>2, <1>5 DEF p

\* The number of strings, and the strings.
LEMMA StringsShape ==
    ASSUME NEW n \in 0 .. MaxCount
    PROVE  LET s == <<Ints(<<"countStrings">>), Check>> \o strings(n)
           IN Shape(s, 2, n + 4) /\ StringsFit(s, n + 4)
<1> DEFINE p == <<Ints(<<"countStrings">>), Check>>
           s == strings(n)
<1>1. n \in Nat
  BY DispatchAssumption
<1>2. s = CopyCallFree("string", n)
  BY DEF strings, CopyCallFree, Str
<1>3. Shape(s, 0, n + 2) /\ StringsFit(s, n + 2)
  BY <1>1, <1>2, CopiesShape DEF Copies
<1>4. IsPath(p) /\ Formed(p) /\ Len(p) = 2 /\ p[1].do = "ints" /\ p[2].do = "check"
  BY CheckedInt
<1> HIDE DEF p, s
<1>5. \A i \in 1 .. Len(p) : p[i].do \in {"ints", "check"}
  BY <1>4
<1>6. Shape(p \o s, 2, 2 + (n + 2)) /\ StringsFit(p \o s, 2 + (n + 2))
  <2>1. Len(p) # 0 /\ p[Len(p)].do = "check"
    BY <1>4
  <2>2. /\ Shape(p \o s, IF 0 = 0 THEN Len(p) ELSE Len(p) + 0, Len(p) + (n + 2))
        /\ StringsFit(p \o s, Len(p) + (n + 2))
    BY <1>3, <1>4, <1>5, <2>1, PrefixShape
  <2> QED BY <1>4, <2>2
<1>7. 2 + (n + 2) = n + 4
  BY <1>1
<1> QED BY <1>6, <1>7 DEF p, s

LEMMA dispatchStrings_Fits == \A path \in dispatchStrings : Fits(path)
<1>1. ASSUME NEW n \in 0 .. MaxCount
      PROVE  Fits(<<Ints(<<"countStrings">>), Check>> \o strings(n))
  BY StringsShape, ShapeFits
<1>2. \A path \in negative("countStrings", PrintReq) : Fits(path)
  BY NegativeFits
<1> QED BY <1>1, <1>2 DEF dispatchStrings

\* dispatchDataCall of an old vendor library copies its strings first.
LEMMA dispatchDataCall_Fits == \A v \in Versions : \A path \in dispatchDataCall(v) : Fits(path)
<1>1. [i \in 1 .. MaxCount |-> Text(Item[i])] \o <<PrintReq, Call>>
        \o [i \in 1 .. MaxCount |-> Free(Item[i])] = CopyCallFree("text", MaxCount)
  BY DEF CopyCallFree, Text
<1>2. MaxCount \in 0 .. MaxCount
  BY DispatchAssumption
<1>3. Fits(CopyCallFree("text", MaxCount))
  BY <1>2, CopiesShape, ShapeFits DEF Copies
<1> QED BY <1>1, <1>3, dispatchStrings_Fits DEF dispatchDataCall

LEMMA dispatchInts_Fits == \A path \in dispatchInts : Fits(path)
<1>1. Fits(<<Ints(<<"count">>), Check, Refuse>>)
  <2> DEFINE s == <<Ints(<<"count">>), Check, Refuse>>
  <2>1. /\ s \in Seq({s[i] : i \in 1 .. 3}) /\ Len(s) = 3 /\ s[1].do = "ints" /\ Len(s[1].f) = 1
        /\ s[2].do = "check" /\ s[3].do = "refuse"
    BY DEF Ints, Check, Refuse, Op
  <2> HIDE DEF s
  <2>2. \A i \in 1 .. Len(s) : s[i].do \in {"ints", "check", "refuse"} /\ (s[i].do = "ints" => i = 1)
    BY <2>1
  <2>3. Len(s[1].f) \in Nat \ {0}
    BY <2>1
  <2>4. IsPath(s) /\ Formed(s)
    BY <2>1, <2>2, <2>3, IntsFormed DEF IsPath
  <2>5. Fits(s)
    BY <2>2, <2>4, PlainFits
  <2> QED BY <2>5 DEF s
<1>2. ASSUME NEW n \in 1 .. MaxCount
      PROVE  Fits(<<Ints(<<"count">>), Check>>
                  \o [i \in 1 .. 2 * n |-> IF i % 2 = 1 THEN Ints(<<"pInts">>) ELSE Check]
                  \o <<PrintReq, Call>>)
  <2> DEFINE p == <<Ints(<<"count">>), Check>>
             a == [i \in 1 .. 2 * n |-> IF i % 2 = 1 THEN Ints(<<"pInts">>) ELSE Check]
             b == <<PrintReq, Call>>
             q == p \o a
             s == q \o b
  <2>0. n \in Nat \ {0}
    BY DispatchAssumption
  <2>1. /\ IsPath(p) /\ Len(p) = 2 /\ p[1].do = "ints" /\ Len(p[1].f) = 1 /\ p[2].do = "check"
    <3>1. /\ p \in Seq({p[i] : i \in 1 .. 2}) /\ Len(p) = 2 /\ p[1].do = "ints" /\ Len(p[1].f) = 1
          /\ p[2].do = "check"
      BY DEF Ints, Check, Op
    <3> QED BY <3>1 DEF IsPath
  <2>2. /\ IsPath(a) /\ Len(a) = 2 * n
        /\ \A i \in 1 .. 2 * n : /\ i % 2 = 1 => a[i].do = "ints" /\ Len(a[i].f) = 1
                                 /\ i % 2 = 0 => a[i].do = "check"
    <3>1. a \in Seq({Ints(<<"pInts">>), Check}) /\ Len(a) = 2 * n
      BY <2>0
    <3>2. Ints(<<"pInts">>).do = "ints" /\ Len(Ints(<<"pInts">>).f) = 1 /\ Check.do = "check"
      BY DEF Ints, Check, Op
    <3>3. ASSUME NEW i \in 1 .. 2 * n
          PROVE  /\ i % 2 = 1 => a[i].do = "ints" /\ Len(a[i].f) = 1
                 /\ i % 2 = 0 => a[i].do = "check"
      <4>1. a[i] = IF i % 2 = 1 THEN Ints(<<"pInts">>) ELSE Check
        OBVIOUS
      <4> HIDE DEF a
      <4> QED BY <3>2, <4>1
    <3> QED BY <3>1, <3>3 DEF IsPath
  <2>3. IsPath(b) /\ Len(b) = 2 /\ b[1].do = "print" /\ b[2].do = "call"
    <3>1. b \in Seq({b[i] : i \in 1 .. 2}) /\ Len(b) = 2
      OBVIOUS
    <3> QED BY <3>1 DEF IsPath, PrintReq, Call, Op
  <2> HIDE DEF p, a, b
  <2>4. Joined(q, p, a)
    BY <2>1, <2>2, JoinFacts
  <2> HIDE DEF q
  <2>5. Joined(s, q, b)
    <3>1. IsPath(q)
      BY <2>4 DEF Joined
    <3> QED BY <2>3, <3>1, JoinFacts
  <2> HIDE DEF s
  <2>6. IsPath(s) /\ Len(q) = 2 + 2 * n /\ Len(s) = 4 + 2 * n
    BY <2>0, <2>1, <2>2, <2>3, <2>4, <2>5 DEF Joined
  <2>7. ASSUME NEW i \in 1 .. 2 + 2 * n
        PROVE  /\ i % 2 = 1 => s[i].do = "ints" /\ Len(s[i].f) = 1
               /\ i % 2 = 0 => s[i].do = "check"
    <3>1. s[i] = q[i]
      BY <2>5, <2>6 DEF Joined
    <3>2. CASE i \in 1 .. 2
      <4>1. q[i] = p[i]
        BY <2>1, <2>4, <3>2 DEF Joined
      <4>2. CASE i = 1
        BY <2>1, <3>1, <4>1, <4>2
      <4>3. CASE i = 2
        BY <2>1, <3>1, <4>1, <4>3
      <4> QED BY <3>2, <4>2, <4>3
    <3>3. CASE i \notin 1 .. 2
      <4>1. i - 2 \in 1 .. 2 * n /\ 2 + (i - 2) = i /\ (i - 2) % 2 = i % 2
        BY <2>0, <3>3
      <4>2. q[2 + (i - 2)] = a[i - 2]
        BY <2>1, <2>2, <2>4, <4>1 DEF Joined
      <4>3. s[i] = a[i - 2]
        BY <3>1, <4>1, <4>2
      <4> QED BY <2>2, <4>1, <4>3
    <3> QED BY <3>2, <3>3
  <2>8. s[3 + 2 * n].do = "print" /\ s[4 + 2 * n].do = "call"
    <3>1. s[Len(q) + 1] = b[1] /\ s[Len(q) + 2] = b[2]
      BY <2>3, <2>5 DEF Joined
    <3>2. Len(q) + 1 = 3 + 2 * n /\ Len(q) + 2 = 4 + 2 * n
      BY <2>0, <2>6
    <3> QED BY <2>3, <3>1, <3>2
  <2>9. ASSUME NEW i \in 1 .. Len(s)
        PROVE  \/ i \in 1 .. 2 + 2 * n /\ i % 2 = 1 /\ s[i].do = "ints" /\ Len(s[i].f) = 1
               \/ i \in 1 .. 2 + 2 * n /\ i % 2 = 0 /\ s[i].do = "check"
               \/ i = 3 + 2 * n /\ s[i].do = "print"
               \/ i = 4 + 2 * n /\ s[i].do = "call"
    <3>1. i \in 1 .. 2 + 2 * n \/ i = 3 + 2 * n \/ i = 4 + 2 * n
      BY <2>0, <2>6
    <3>2. i % 2 = 0 \/ i % 2 = 1
      BY <2>6
    <3> QED BY <2>7, <2>8, <3>1, <3>2
  <2>10. Formed(s)
    <3>1. \A i \in 1 .. Len(s) : s[i].do \in {"ints", "check", "print", "call"}
      BY <2>9
    <3>2. ASSUME NEW i \in 1 .. Len(s), s[i].do = "ints" PROVE Len(s[i].f) \in Nat \ {0}
      <4>1. Len(s[i].f) = 1
        BY <2>9, <3>2
      <4> QED BY <4>1
    <3> QED BY <3>1, <3>2, IntsFormed
  <2>11. Shape(s, 2 + 2 * n, 4 + 2 * n)
    <3>1. 2 + 2 * n \in Nat /\ 4 + 2 * n \in 1 .. Len(s) /\ 2 + 2 * n < 4 + 2 * n
      BY <2>0, <2>6
    <3>2. s[2 + 2 * n].do = "check"
      <4>1. 2 + 2 * n \in 1 .. 2 + 2 * n /\ (2 + 2 * n) % 2 = 0
        BY <2>0
      <4> QED BY <2>7, <4>1
    <3>3. ASSUME NEW i \in 1 .. (4 + 2 * n) - 1 PROVE s[i].do \notin {"call", "complete", "free"}
      <4>1. i \in 1 .. Len(s) /\ i # 4 + 2 * n
        BY <2>0, <2>6
      <4> QED BY <2>9, <4>1
    <3>4. \A i \in (4 + 2 * n) + 1 .. Len(s) : FALSE
      BY <2>0, <2>6
    <3>5. ASSUME NEW i \in 1 .. Len(s), s[i].do \in Reads PROVE i < 2 + 2 * n
      <4>1. s[i].do \notin {"check", "print", "call"}
        BY <3>5 DEF Reads
      <4>2. i \in 1 .. 2 + 2 * n /\ i % 2 = 1
        BY <2>9, <4>1
      <4>3. (2 + 2 * n) % 2 = 0
        BY <2>0
      <4> QED BY <2>0, <4>2, <4>3
    <3> QED BY <2>6, <2>8, <2>10, <3>1, <3>2, <3>3, <3>4, <3>5 DEF Shape
  <2>12. StringsFit(s, 4 + 2 * n)
    <3>1. \A i \in (4 + 2 * n) + 1 .. Len(s) : FALSE
      BY <2>0, <2>6
    <3>2. ASSUME NEW i \in 1 .. (4 + 2 * n) - 1 PROVE s[i].do \notin Copies \cup {"raw"}
      <4>1. i \in 1 .. Len(s)
        BY <2>0, <2>6
      <4> QED BY <2>9, <4>1 DEF Copies
    <3> QED BY <3>1, <3>2 DEF StringsFit
  <2>13. Fits(s)
    BY <2>11, <2>12, ShapeFits
  <2> QED BY <2>13 DEF s, q, p, a, b
<1>3. \A path \in negative("count", PrintReq) : Fits(path)
  BY NegativeFits
<1> QED BY <1>1, <1>2, <1>3 DEF dispatchInts

LEMMA dispatchImsSms_Fits == \A path \in dispatchImsSms : Fits(path)
<1> DEFINE p == <<Ints(<<"format">>), Check, Ints(<<"retry">>), Check, Ints(<<"messageRef">>), Check>>
<1>1. \A path \in dispatchImsSms :
        \E message \in dispatchImsGsmSms \cup dispatchImsCdmaSms \cup {<<>>} : path = p \o message
  BY DEF dispatchImsSms
<1>2. /\ p \in Seq({p[i] : i \in 1 .. 6}) /\ Len(p) = 6
      /\ p[1].do = "ints" /\ p[2].do = "check" /\ p[3].do = "ints" /\ p[4].do = "check"
      /\ p[5].do = "ints" /\ p[6].do = "check"
      /\ Len(p[1].f) = 1 /\ Len(p[3].f) = 1 /\ Len(p[5].f) = 1
  BY DEF Ints, Check, Op
<1> HIDE DEF p
<1>3. \A i \in 1 .. Len(p) : p[i].do \in {"ints", "check"} /\ (p[i].do = "ints" => Len(p[i].f) = 1)
  BY <1>2
<1>4. IsPath(p) /\ Formed(p)
  <2>1. \A i \in 1 .. Len(p) : p[i].do = "ints" => Len(p[i].f) \in Nat \ {0}
    <3> SUFFICES ASSUME NEW i \in 1 .. Len(p), p[i].do = "ints" PROVE Len(p[i].f) \in Nat \ {0}
      OBVIOUS
    <3>1. Len(p[i].f) = 1
      BY <1>3
    <3> QED BY <3>1
  <2> QED BY <1>2, <1>3, <2>1, IntsFormed DEF IsPath
<1>5. ASSUME NEW s, NEW k, NEW c, Shape(s, k, c), StringsFit(s, c) PROVE Fits(p \o s)
  <2>1. Len(p) # 0 /\ p[Len(p)].do = "check"
    BY <1>2
  <2>2. /\ Shape(p \o s, IF k = 0 THEN Len(p) ELSE Len(p) + k, Len(p) + c)
        /\ StringsFit(p \o s, Len(p) + c)
    BY <1>3, <1>4, <1>5, <2>1, PrefixShape
  <2> QED BY <2>2, ShapeFits
<1>6. ASSUME NEW message \in dispatchImsGsmSms PROVE Fits(p \o message)
  <2>1. CASE \E n \in 0 .. MaxCount : message = <<Ints(<<"countStrings">>), Check>> \o strings(n)
    <3>1. PICK n \in 0 .. MaxCount : message = <<Ints(<<"countStrings">>), Check>> \o strings(n)
      BY <2>1
    <3>2. Shape(message, 2, n + 4) /\ StringsFit(message, n + 4)
      BY <3>1, StringsShape
    <3> QED BY <3>2, <1>5
  <2>2. CASE message = <<Ints(<<"countStrings">>), Check, Negative, PrintReq, Call>>
    <3>1. Shape(message, 2, 5) /\ StringsFit(message, 5)
      BY <2>2, NegativeShape
    <3> QED BY <3>1, <1>5
  <2>3. CASE message = <<Ints(<<"countStrings">>), Check, Negative>>
    <3> DEFINE u == p \o message
    <3>1. /\ IsPath(message) /\ Formed(message)
          /\ \A i \in 1 .. Len(message) : message[i].do \in {"ints", "check", "refuse", "negative"}
      BY <2>3, NegativeEnds
    <3>2. Joined(u, p, message)
      BY <1>4, <3>1, JoinFacts
    <3> HIDE DEF u
    <3>3. ASSUME NEW i \in 1 .. Len(u)
          PROVE  \/ i \in 1 .. Len(p) /\ u[i] = p[i]
                 \/ i - Len(p) \in 1 .. Len(message) /\ u[i] = message[i - Len(p)]
      <4>1. CASE i \in 1 .. Len(p)
        BY <3>2, <4>1 DEF Joined
      <4>2. CASE i \notin 1 .. Len(p)
        <5>1. i - Len(p) \in 1 .. Len(message) /\ Len(p) + (i - Len(p)) = i
          BY <3>2, <4>2 DEF Joined
        <5> QED BY <3>2, <5>1 DEF Joined
      <4> QED BY <4>1, <4>2
    <3>4. Formed(u)
      BY <1>4, <3>1, <3>3 DEF Formed
    <3>5. \A i \in 1 .. Len(u) : u[i].do \in {"ints", "check", "refuse", "negative"}
      BY <1>3, <3>1, <3>3
    <3>6. Fits(u)
      BY <3>2, <3>4, <3>5, PlainFits DEF Joined
    <3> QED BY <3>6 DEF u
  <2> QED BY <2>1, <2>2, <2>3 DEF dispatchImsGsmSms, negative
<1>7. ASSUME NEW message \in dispatchImsCdmaSms PROVE Fits(p \o message)
  BY <1>5, CdmaShape DEF dispatchImsCdmaSms
<1>8. Fits(p \o <<>>)
  <2>1. p \o <<>> = p
    BY <1>2
  <2>2. Fits(p)
    BY <1>3, <1>4, PlainFits
  <2> QED BY <2>1, <2>2
<1> QED BY <1>1, <1>6, <1>7, <1>8

LEMMA AnswersFit == Fits(<<Complete, Complete>>) /\ Fits(<<Complete>>)
<1>1. Fits(<<Complete, Complete>>)
  <2> DEFINE s == <<Complete, Complete>>
  <2>1. s \in Seq({Complete}) /\ Len(s) = 2 /\ s[1].do = "complete" /\ s[2].do = "complete"
    BY DEF Complete, Op
  <2> HIDE DEF s
  <2>2. \A i \in 1 .. Len(s) : s[i].do = "complete"
    BY <2>1
  <2>3. IsPath(s) /\ Formed(s)
    BY <2>1, <2>2, IntsFormed DEF IsPath
  <2>4. Fits(s)
    BY <2>2, <2>3, PlainFits
  <2> QED BY <2>4 DEF s
<1>2. Fits(<<Complete>>)
  <2> DEFINE s == <<Complete>>
  <2>1. s \in Seq({Complete}) /\ Len(s) = 1 /\ s[1].do = "complete"
    BY DEF Complete, Op
  <2> HIDE DEF s
  <2>2. \A i \in 1 .. Len(s) : s[i].do = "complete"
    BY <2>1
  <2>3. IsPath(s) /\ Formed(s)
    BY <2>1, <2>2, IntsFormed DEF IsPath
  <2>4. Fits(s)
    BY <2>2, <2>3, PlainFits
  <2> QED BY <2>4 DEF s
<1> QED BY <1>1, <1>2

\* dispatchDial decodes in several parts: what has been decoded so far, with the last
\* check at k, and nothing copied but the address.
Opens(h, k) ==
    /\ IsPath(h) /\ Formed(h) /\ k \in 1 .. Len(h) /\ h[k].do = "check"
    /\ h[1].do = "string" /\ h[1].f[1] = "address"
    /\ \A i \in 2 .. Len(h) : /\ h[i].do \in {"ints", "check", "notNull", "raw"}
                              /\ h[i].do = "raw" => h[i].f[1] = "uusData"
    /\ \A i \in 1 .. Len(h) : h[i].do = "ints" => i < k
\* One more part: integers, their check and bytes of the Parcel.
Part(d) ==
    /\ IsPath(d) /\ Len(d) \in 2 .. 3
    /\ d[1].do = "ints" /\ Len(d[1].f) \in Nat \ {0} /\ d[2].do = "check"
    /\ Len(d) = 3 => d[3].do = "raw" /\ d[3].f[1] = "uusData"

LEMMA PartOpens ==
    ASSUME NEW h, NEW k, Opens(h, k), NEW d, Part(d)
    PROVE  Opens(h \o d, Len(h) + 2)
<1> DEFINE u == h \o d
           n == Len(h)
<1>0. IsPath(h) /\ Formed(h) /\ k \in 1 .. Len(h) /\ IsPath(d) /\ Len(d) \in 2 .. 3
  BY DEF Opens, Part
<1>1. Joined(u, h, d)
  BY <1>0, JoinFacts
<1> HIDE DEF u
<1>2. n \in Nat \ {0} /\ Len(u) = n + Len(d) /\ IsPath(u)
  BY <1>0, <1>1 DEF Joined
<1>3. \A i \in 1 .. n : u[i] = h[i]
  BY <1>1 DEF Joined
<1>4. u[n + 1] = d[1] /\ u[n + 2] = d[2] /\ (Len(d) = 3 => u[n + 3] = d[3])
  <2>1. 1 \in 1 .. Len(d) /\ 2 \in 1 .. Len(d) /\ (Len(d) = 3 => 3 \in 1 .. Len(d))
    BY <1>0
  <2> QED BY <1>1, <2>1 DEF Joined
<1> HIDE DEF n
<1>5. ASSUME NEW i \in 1 .. Len(u)
      PROVE  i \in 1 .. n \/ i = n + 1 \/ i = n + 2 \/ (Len(d) = 3 /\ i = n + 3)
  <2>1. Len(d) = 2 \/ Len(d) = 3
    BY <1>0
  <2>2. CASE Len(d) = 2
    <3>1. Len(u) = n + 2
      BY <1>2, <2>2
    <3> QED BY <1>2, <3>1
  <2>3. CASE Len(d) = 3
    <3>1. Len(u) = n + 3
      BY <1>2, <2>3
    <3>2. i \in 1 .. n \/ i = n + 1 \/ i = n + 2 \/ i = n + 3
      BY <1>2, <3>1
    <3> QED BY <2>3, <3>2
  <2> QED BY <2>1, <2>2, <2>3
<1>6. Formed(u)
  <2> SUFFICES ASSUME NEW i \in 1 .. Len(u)
               PROVE  /\ u[i].do \in Calls
                      /\ u[i].do = "ints" => Len(u[i].f) \in Nat \ {0}
                      /\ u[i].do \in OfStrings => u[i].f[1] \in Strings
    BY DEF Formed
  <2>1. CASE i \in 1 .. n
    <3>1. u[i] = h[i] /\ i \in 1 .. Len(h)
      BY <1>3, <2>1 DEF n
    <3> QED BY <1>0, <3>1 DEF Formed
  <2>2. CASE i = n + 1
    <3>1. u[i].do = "ints" /\ Len(u[i].f) \in Nat \ {0}
      BY <1>4, <2>2 DEF Part
    <3> QED BY <3>1 DEF Calls, Reads, OfStrings, Copies
  <2>3. CASE i = n + 2
    <3>1. u[i].do = "check"
      BY <1>4, <2>3 DEF Part
    <3> QED BY <3>1 DEF Calls, UsesRequest, OfStrings, Copies
  <2>4. CASE Len(d) = 3 /\ i = n + 3
    <3>1. u[i].do = "raw" /\ u[i].f[1] = "uusData"
      BY <1>4, <2>4 DEF Part
    <3> QED BY <3>1 DEF Calls, OfStrings, Copies, Strings, Named
  <2> QED BY <1>5, <2>1, <2>2, <2>3, <2>4
<1>7. n + 2 \in 1 .. Len(u) /\ u[n + 2].do = "check"
  BY <1>0, <1>2, <1>4 DEF Part
<1>8. u[1].do = "string" /\ u[1].f[1] = "address"
  BY <1>2, <1>3 DEF Opens
<1>9. ASSUME NEW i \in 2 .. Len(u)
      PROVE  /\ u[i].do \in {"ints", "check", "notNull", "raw"}
             /\ u[i].do = "raw" => u[i].f[1] = "uusData"
  <2>0. i \in 1 .. Len(u)
    BY <1>2
  <2>1. CASE i \in 1 .. n
    <3>1. u[i] = h[i] /\ i \in 2 .. Len(h)
      BY <1>3, <2>1 DEF n
    <3> QED BY <3>1 DEF Opens
  <2> QED BY <1>4, <1>5, <2>0, <2>1 DEF Part
<1>10. ASSUME NEW i \in 1 .. Len(u), u[i].do = "ints" PROVE i < n + 2
  <2>1. i # n + 2
    BY <1>7, <1>10
  <2>2. ~(Len(d) = 3 /\ i = n + 3)
    BY <1>4, <1>10 DEF Part
  <2> QED BY <1>2, <1>5, <2>1, <2>2
<1>11. Opens(u, n + 2)
  BY <1>2, <1>6, <1>7, <1>8, <1>9, <1>10 DEF Opens
<1> QED BY <1>11 DEF u, n

LEMMA DialCloses ==
    ASSUME NEW h, NEW k, Opens(h, k)
    PROVE  Fits(h \o <<PrintReq, Call, Free("address")>>)
<1> DEFINE t == <<PrintReq, Call, Free("address")>>
           u == h \o t
           n == Len(h)
<1>1. IsPath(t) /\ Len(t) = 3 /\ t[1].do = "print" /\ t[2].do = "call" /\ t[3].do = "free" /\ t[3].f[1] = "address"
  <2>1. /\ t \in Seq({t[i] : i \in 1 .. 3}) /\ Len(t) = 3 /\ t[1].do = "print" /\ t[2].do = "call"
        /\ t[3].do = "free" /\ t[3].f[1] = "address"
    BY DEF PrintReq, Call, Free, Op
  <2> QED BY <2>1 DEF IsPath
<1> HIDE DEF t
<1>2. IsPath(h) /\ Formed(h) /\ k \in 1 .. n
  BY DEF Opens
<1>3. Joined(u, h, t)
  BY <1>1, <1>2, JoinFacts
<1> HIDE DEF u
<1>4. n \in Nat \ {0} /\ Len(u) = n + 3 /\ IsPath(u)
  BY <1>1, <1>2, <1>3 DEF Joined
<1>5. \A i \in 1 .. n : u[i] = h[i]
  BY <1>3 DEF Joined
<1>6. u[n + 1] = t[1] /\ u[n + 2] = t[2] /\ u[n + 3] = t[3]
  <2>1. 1 \in 1 .. Len(t) /\ 2 \in 1 .. Len(t) /\ 3 \in 1 .. Len(t)
    BY <1>1
  <2> QED BY <1>3, <2>1 DEF Joined
<1>7. ASSUME NEW i \in 1 .. n
      PROVE  /\ u[i].do \in {"string", "ints", "check", "notNull", "raw"}
             /\ u[i].do = "string" => i = 1
             /\ u[i].do = "raw" => u[i].f[1] = "uusData"
             /\ u[i].do = "ints" => i < k
  <2>1. u[i] = h[i]
    BY <1>5
  <2>2. CASE i = 1
    BY <1>4, <2>1, <2>2 DEF Opens
  <2>3. CASE i # 1
    <3>1. i \in 2 .. Len(h)
      BY <1>4, <2>3
    <3> QED BY <2>1, <3>1 DEF Opens
  <2> QED BY <2>2, <2>3
<1>8. u[1].do = "string" /\ u[1].f[1] = "address" /\ u[k].do = "check"
  BY <1>2, <1>4, <1>5 DEF Opens
<1>9. Formed(u)
  <2> SUFFICES ASSUME NEW i \in 1 .. Len(u)
               PROVE  /\ u[i].do \in Calls
                      /\ u[i].do = "ints" => Len(u[i].f) \in Nat \ {0}
                      /\ u[i].do \in OfStrings => u[i].f[1] \in Strings
    BY DEF Formed
  <2>0. i \in 1 .. n \/ i = n + 1 \/ i = n + 2 \/ i = n + 3
    BY <1>4
  <2>1. CASE i \in 1 .. n
    <3>1. u[i] = h[i] /\ i \in 1 .. Len(h)
      BY <1>5, <2>1
    <3> QED BY <1>2, <3>1 DEF Formed
  <2>2. CASE i \in {n + 1, n + 2}
    <3>1. u[i].do \in {"print", "call"}
      BY <1>1, <1>6, <2>2
    <3> QED BY <3>1 DEF Calls, UsesRequest, OfStrings, Copies
  <2>3. CASE i = n + 3
    <3>1. u[i].do = "free" /\ u[i].f[1] = "address"
      BY <1>1, <1>6, <2>3
    <3> QED BY <3>1 DEF Calls, OfStrings, Copies, Strings, Named
  <2> QED BY <2>0, <2>1, <2>2, <2>3
<1> HIDE DEF n
<1>10. Shape(u, k, n + 2)
  <2>1. k \in Nat /\ n + 2 \in 1 .. Len(u) /\ k < n + 2 /\ u[n + 2].do = "call"
    BY <1>1, <1>2, <1>4, <1>6
  <2>2. ASSUME NEW i \in 1 .. (n + 2) - 1 PROVE u[i].do \notin {"call", "complete", "free"}
    <3>1. i \in 1 .. n \/ i = n + 1
      BY <1>4
    <3> QED BY <1>1, <1>6, <1>7, <3>1
  <2>3. ASSUME NEW i \in (n + 2) + 1 .. Len(u) PROVE u[i].do = "free"
    <3>1. i = n + 3
      BY <1>4
    <3> QED BY <1>1, <1>6, <3>1
  <2>4. ASSUME NEW i \in 1 .. Len(u), u[i].do \in Reads PROVE i < k
    <3>1. i \in 1 .. n \/ i = n + 1 \/ i = n + 2 \/ i = n + 3
      BY <1>4
    <3>2. u[i].do \notin {"print", "call", "free"}
      BY <2>4 DEF Reads
    <3>3. i \in 1 .. n
      BY <1>1, <1>6, <3>1, <3>2
    <3>4. u[i].do = "ints"
      BY <1>7, <2>4, <3>3 DEF Reads
    <3> QED BY <1>7, <3>3, <3>4
  <2> QED BY <1>4, <1>8, <1>9, <2>1, <2>2, <2>3, <2>4 DEF Shape
<1>11. StringsFit(u, n + 2)
  <2>1. ASSUME NEW i \in (n + 2) + 1 .. Len(u) PROVE i = n + 3 /\ u[i].f[1] = "address"
    <3>1. i = n + 3
      BY <1>4
    <3> QED BY <1>1, <1>6, <3>1
  <2>2. ASSUME NEW i \in 1 .. (n + 2) - 1
        PROVE  /\ u[i].do \in Copies => i = 1
               /\ u[i].do = "raw" => u[i].f[1] = "uusData"
    <3>1. i \in 1 .. n \/ i = n + 1
      BY <1>4
    <3> QED BY <1>1, <1>6, <1>7, <3>1 DEF Copies
  <2>3. 1 \in 1 .. (n + 2) - 1 /\ n + 3 \in (n + 2) + 1 .. Len(u)
    BY <1>4
  <2>4. u[1].do \in Copies
    BY <1>8 DEF Copies
  <2> QED BY <1>8, <2>1, <2>2, <2>3, <2>4 DEF StringsFit
<1>12. Fits(u)
  BY <1>10, <1>11, ShapeFits
<1> QED BY <1>12 DEF u, t

LEMMA dispatchDial_Fits == \A v \in Versions : \A path \in dispatchDial(v) : Fits(path)
<1> DEFINE head == <<Str("address"), Ints(<<"clir">>), Check, NotNull("address")>>
           uusPresent == <<Ints(<<"uusPresent">>), Check>>
           uusInfo == <<Ints(<<"uusType", "uusDcs", "uusLength">>), Check>>
           data == <<Raw("uusData")>>
           tail == <<PrintReq, Call, Free("address")>>
<1>1. \A v \in Versions : \A path \in dispatchDial(v) :
        \/ path = head \o tail
        \/ \E uus \in {<<>>, uusInfo, uusInfo \o data} : path = head \o uusPresent \o uus \o tail
  BY DEF dispatchDial
<1>2. Opens(head, 3)
  <2> USE DEF Str, Ints, Check, NotNull, Op
  <2>1. head \in Seq({head[i] : i \in 1 .. 4}) /\ Len(head) = 4
    OBVIOUS
  <2>2. IsPath(head)
    BY <2>1 DEF IsPath
  <2>3. Formed(head)
    BY DEF Formed, Calls, Reads, UsesRequest, OfStrings, Copies, Strings, Named
  <2> QED BY <2>1, <2>2, <2>3 DEF Opens
<1>3. Part(uusPresent) /\ Part(uusInfo)
  <2>1. Part(uusPresent)
    <3>1. /\ uusPresent \in Seq({uusPresent[i] : i \in 1 .. 2}) /\ Len(uusPresent) = 2
          /\ uusPresent[1].do = "ints" /\ Len(uusPresent[1].f) = 1 /\ uusPresent[2].do = "check"
      BY DEF Ints, Check, Op
    <3> HIDE DEF uusPresent
    <3> QED BY <3>1 DEF Part, IsPath
  <2>2. Part(uusInfo)
    <3>1. /\ uusInfo \in Seq({uusInfo[i] : i \in 1 .. 2}) /\ Len(uusInfo) = 2
          /\ uusInfo[1].do = "ints" /\ Len(uusInfo[1].f) = 3 /\ uusInfo[2].do = "check"
      BY DEF Ints, Check, Op
    <3> HIDE DEF uusInfo
    <3> QED BY <3>1 DEF Part, IsPath
  <2> QED BY <2>1, <2>2
<1>4. Len(uusInfo) = 2 /\ IsPath(data) /\ Len(data) = 1 /\ data[1].do = "raw" /\ data[1].f[1] = "uusData"
  <2>1. /\ data \in Seq({data[i] : i \in 1 .. 1}) /\ Len(data) = 1 /\ data[1].do = "raw"
        /\ data[1].f[1] = "uusData" /\ Len(uusInfo) = 2
    BY DEF Raw, Op
  <2> QED BY <2>1 DEF IsPath
<1> HIDE DEF head, uusPresent, uusInfo, data
<1>5. Part(uusInfo \o data)
  <2> DEFINE d == uusInfo \o data
  <2>1. Joined(d, uusInfo, data)
    BY <1>3, <1>4, JoinFacts DEF Part
  <2> HIDE DEF d
  <2>2. IsPath(d) /\ Len(d) = 3
    BY <1>4, <2>1 DEF Joined
  <2>3. d[1] = uusInfo[1] /\ d[2] = uusInfo[2]
    BY <1>4, <2>1 DEF Joined
  <2>4. d[3] = data[1]
    <3>1. 1 \in 1 .. Len(data) /\ Len(uusInfo) + 1 = 3
      BY <1>4
    <3> QED BY <2>1, <3>1 DEF Joined
  <2>5. Part(d)
    BY <1>3, <1>4, <2>2, <2>3, <2>4 DEF Part
  <2> QED BY <2>5 DEF d
<1>6. Opens(head \o uusPresent, Len(head) + 2)
  BY <1>2, <1>3, PartOpens
<1> DEFINE h == head \o uusPresent
<1> HIDE DEF h
<1>7. Opens(h, Len(head) + 2)
  BY <1>6 DEF h
<1>8. Fits(head \o tail)
  BY <1>2, DialCloses
<1>9. ASSUME NEW uus \in {<<>>, uusInfo, uusInfo \o data} PROVE Fits(h \o uus \o tail)
  <2>1. CASE uus = <<>>
    <3>1. h \o <<>> = h
      BY <1>7 DEF Opens, IsPath
    <3> QED BY <1>7, <2>1, <3>1, DialCloses
  <2>2. CASE Part(uus)
    <3>1. Opens(h \o uus, Len(h) + 2)
      BY <1>7, <2>2, PartOpens
    <3> QED BY <3>1, DialCloses
  <2> QED BY <1>3, <1>5, <2>1, <2>2
<1> QED BY <1>1, <1>8, <1>9 DEF h

-----------------------------------------------------------------------------
(* The invariant holds. *)

LEMMA AllFit == \A v \in Versions : \A path \in s_commands(v) : Fits(path)
<1>1. /\ \A path \in dispatchVoiceRadioTech : Fits(path)
      /\ \A path \in dispatchCdmaSubscriptionSource : Fits(path)
  BY AnswersFit, dispatchVoid_Fits DEF dispatchVoiceRadioTech, dispatchCdmaSubscriptionSource
<1> SUFFICES ASSUME NEW v \in Versions, NEW path \in s_commands(v)
             PROVE  Fits(path)
  OBVIOUS
<1>2. \/ path \in dispatchVoid \/ path \in dispatchString \/ path \in dispatchStrings
      \/ path \in dispatchInts \/ path \in dispatchSmsWrite \/ path \in dispatchDial(v)
      \/ path \in dispatchSIM_IO \/ path \in dispatchCallForward \/ path \in dispatchRaw
      \/ path \in dispatchCdmaSms \/ path \in dispatchImsSms \/ path \in dispatchCdmaSmsAck
      \/ path \in dispatchGsmBrSmsCnf \/ path \in dispatchCdmaBrSmsCnf
      \/ path \in dispatchRilCdmaSmsWriteArgs \/ path \in dispatchDataCall(v)
      \/ path \in dispatchVoiceRadioTech \/ path \in dispatchCdmaSubscriptionSource
      \/ path \in dispatchSetInitialAttachApn \/ path \in dispatchUiccSubscripton
  BY DEF s_commands
<1> QED BY <1>1, <1>2, dispatchVoid_Fits, dispatchString_Fits, dispatchStrings_Fits, dispatchInts_Fits,
           dispatchSmsWrite_Fits, dispatchDial_Fits, dispatchSIM_IO_Fits, dispatchCallForward_Fits,
           dispatchRaw_Fits, dispatchCdmaSms_Fits, dispatchImsSms_Fits, dispatchCdmaSmsAck_Fits,
           dispatchGsmBrSmsCnf_Fits, dispatchCdmaBrSmsCnf_Fits, dispatchRilCdmaSmsWriteArgs_Fits,
           dispatchDataCall_Fits, dispatchSetInitialAttachApn_Fits, dispatchUiccSubscripton_Fits

LEMMA InitInv == Init => IInv
<1> SUFFICES ASSUME Init PROVE IInv
  OBVIOUS
<1>1. Types /\ prog = <<>> /\ unread = {} /\ heap = {} /\ handed = FALSE /\ request = "none"
  BY DEF Init, Types
<1> QED BY <1>1, EmptyPath DEF IInv, ReadInv, failed, RequestInv, FreeInv, HeapInv, RawInv

LEMMA NextInv == IInv /\ [Next]_vars => IInv'
<1> SUFFICES ASSUME IInv, [Next]_vars PROVE IInv'
  OBVIOUS
<1>1. CASE processCommandBuffer
  <2>1. Fits(prog')
    BY <1>1, AllFit DEF processCommandBuffer, IInv, Types
  <2> QED BY <1>1, <2>1, StartStep
<1>2. CASE Step
  BY <1>2, CodeStep
<1>3. CASE RIL_onRequestComplete
  <2>1. UNCHANGED <<version, prog, ended, status, unread, str, heap, handed>> /\ handed /\ request' = "completed"
    BY <1>3 DEF RIL_onRequestComplete
  <2> QED BY <2>1 DEF IInv, Types, ReadInv, failed, RequestInv, FreeInv, Copied, HeapInv, RawInv
<1>4. CASE UNCHANGED vars
  BY <1>4 DEF vars, IInv, Types, ReadInv, failed, RequestInv, FreeInv, Copied, HeapInv, RawInv
<1> QED BY <1>1, <1>2, <1>3, <1>4 DEF Next

LEMMA Invariant == Spec => []IInv
BY InitInv, NextInv, PTL DEF Spec

\* Every variable keeps its type, every call of a path is one that the steps know, and
\* on every path of every dispatch function of s_commands the last check before the
\* hand-over comes after the last integer read.
THEOREM DispatchTypes == Spec => []TypeOK
<1>1. IInv => TypeOK
  BY DEF IInv, Types, Rest, Formed, Calls, TypeOK
<1> QED BY <1>1, Invariant, PTL

\* Wherever the Parcel of the client ends, the vendor library gets no integer field
\* that was not read from it: a failed read leaves the status bad up to the check that
\* every path still has before its hand-over.  The elements of an array with a negative
\* count, which no function refuses, are all that may be handed over unread.
THEOREM FieldsAlwaysRead == Spec => []FieldsRead
<1>1. IInv => FieldsRead
  BY DEF IInv, ReadInv, failed, FieldsRead
<1> QED BY <1>1, Invariant, PTL

\* From the hand-over or an answer on, no call that is left of the dispatch function
\* uses pRI, on whichever thread and however early the vendor library completes the
\* request.
THEOREM RequestNotUsedLate == Spec => []RequestAlive
<1>1. IInv => RequestAlive
  BY DEF IInv, RequestInv, Unused, RequestAlive
<1> QED BY <1>1, Invariant, PTL

\* The strings that a dispatch function copies are freed after the hand-over, each
\* once, and none is left behind except smsc of dispatchSmsWrite and a call-forward
\* number of length 0.
THEOREM StringsFreedOnce == Spec => []StringsFreed
<1>1. ASSUME IInv PROVE StringsFreed
  <2>1. ASSUME at("free") PROVE handed /\ (str[field] # "null" => field \in heap)
    <3>1. prog # <<>> /\ Head(prog).do = "free"
      BY <2>1 DEF at
    <3>2. Head(prog) = prog[1] /\ 1 \in 1 .. Len(prog)
      BY <1>1, <3>1, TailIndex DEF IInv, Rest
    <3>3. ~HandsOver(prog, 1) /\ ~CopiesBefore(prog, 1)
      BY DEF HandsOver, CopiesBefore
    <3> QED BY <1>1, <3>1, <3>2, <3>3 DEF IInv, FreeInv, Copied, field
  <2>2. ASSUME handed, prog = <<>> PROVE \A f \in heap : f = "smsc" \/ str[f] = "null"
    <3>1. \A f : ~Frees(<<>>, f)
      BY DEF Frees
    <3> QED BY <1>1, <2>2, <3>1 DEF IInv, HeapInv
  <2> QED BY <2>1, <2>2 DEF StringsFreed
<1> QED BY <1>1, Invariant, PTL
=============================================================================
