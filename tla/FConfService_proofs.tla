------------------------- MODULE FConfService_proofs -------------------------
(***************************************************************************)
(* What FConfService promises holds for any clients, keys, values and      *)
(* bounds. The inductive invariant IInv relates the two ends of each       *)
(* connection: a client that waits for an answer has sent its request, or  *)
(* the service has served it and the one answer is in the stream, behind   *)
(* the pushes of that very call (StreamOK); a client that does not wait    *)
(* has nothing in its stream but what others have changed (ControlOK).     *)
(* ServiceOK adds that what a key maps to has its root in the tree, and    *)
(* that a service that does not run has no tree. CacheInv adds the copies  *)
(* that clients keep: each, with the changes on their way, is the tree.    *)
(* WaitInv adds what a client that waits has before it.                    *)
(*                                                                         *)
(* FConfRefinement_proofs builds on it.                                    *)
(***************************************************************************)
EXTENDS FConfService, SequenceTheorems, WellFoundedInduction, TLAPS

-----------------------------------------------------------------------------
(* Paths.                                                                  *)

Nodes == Files \cup Names \cup {FileNode(f) : f \in Files}

Roots == {<<f>> : f \in Files}

(* A sequence of one element is that element. *)
LEMMA Singleton ==
    ASSUME NEW S, NEW s \in Seq(S), NEW e \in S, Len(s) = 1, s[1] = e
    PROVE  s = <<e>>
<1> DEFINE t == <<e>>
<1>1. t \in Seq(S) /\ Len(t) = 1 /\ t[1] = e
  OBVIOUS
<1>2. \A i \in 1..Len(s) : s[i] = t[i]
  BY <1>1
<1>3. Len(s) = Len(t)
  BY <1>1
<1> HIDE DEF t
<1>4. s = t
  BY <1>1, <1>2, <1>3, SeqEqual
<1> QED BY <1>4 DEF t

(* The path of a root. *)
LEMMA RootPath ==
    ASSUME NEW f \in Files
    PROVE  /\ <<f>> \in Seq(Nodes) /\ Len(<<f>>) = 1 /\ <<f>>[1] = f
           /\ Prefixes(<<f>>) = {<<f>>}
           /\ Parent(<<f>>) = <<>>
<1>1. <<f>> \in Seq(Nodes) /\ Len(<<f>>) = 1 /\ <<f>>[1] = f
  BY DEF Nodes
<1>2. SubSeq(<<f>>, 1, 1) = <<f>>
  BY <1>1, SubSeqFull
<1>3. SubSeq(<<f>>, 1, 0) = <<>>
  BY <1>1
<1>4. 1..1 = {1}
  OBVIOUS
<1> QED BY <1>1, <1>2, <1>3, <1>4 DEF Prefixes, Parent

(* The path of a key: a root and a name below it. *)
LEMMA KeyPath ==
    ASSUME NEW k \in Keys
    PROVE  /\ k[1] \in Files /\ k[2] \in Names
           /\ k = <<k[1], k[2]>>
           /\ k \in Seq(Nodes) /\ Len(k) = 2
           /\ Prefixes(k) = {<<k[1]>>, k}
           /\ Parent(k) = <<k[1]>>
<1>1. k[1] \in Files /\ k[2] \in Names /\ k = <<k[1], k[2]>>
  BY DEF Keys
<1>2. <<k[1], k[2]>> \in Seq(Nodes) /\ Len(<<k[1], k[2]>>) = 2
  BY <1>1 DEF Nodes
<1>3. k \in Seq(Nodes) /\ Len(k) = 2
  BY <1>1, <1>2
<1>4. SubSeq(k, 1, 1) = <<k[1]>>
  <2>1. k[1] \in Nodes
    BY <1>1 DEF Nodes
  <2>2. /\ SubSeq(k, 1, 1) \in Seq(Nodes) /\ Len(SubSeq(k, 1, 1)) = 1
        /\ SubSeq(k, 1, 1)[1] = k[1]
    BY <2>1, SubSeqProperties
  <2> QED BY <2>1, <2>2, Singleton
<1>5. SubSeq(k, 1, 2) = k
  BY <1>3, SubSeqFull
<1>6. 1..2 = {1, 2}
  OBVIOUS
<1>7. Prefixes(k) = {SubSeq(k, 1, n) : n \in {1, 2}}
  BY <1>3, <1>6 DEF Prefixes
<1>8. SubSeq(k, 1, 1) = <<k[1]>> /\ SubSeq(k, 1, 2) = k
  BY <1>4, <1>5
<1>9. Prefixes(k) = {<<k[1]>>, k}
  BY <1>7, <1>8
<1>10. Parent(k) = <<k[1]>>
  BY <1>3, <1>8 DEF Parent
<1> QED BY <1>1, <1>3, <1>9, <1>10

(* A node is below a root exactly if its path begins with it. *)
LEMMA BelowRoot ==
    ASSUME NEW f \in Files, NEW q \in Seq(Nodes)
    PROVE  IsBelow(q, <<f>>) <=> q # <<>> /\ q[1] = f
<1>1. Len(<<f>>) = 1
  OBVIOUS
<1>2. CASE q = <<>>
  BY <1>1, <1>2 DEF IsBelow
<1>3. CASE q # <<>>
  <2>1. Len(q) \in Nat /\ Len(q) >= 1 /\ q[1] \in Nodes
    BY <1>3, LenProperties, EmptySeq
  <2>2. \A i \in 1..1 : q[i] \in Nodes
    BY <2>1
  <2>3. SubSeq(q, 1, 1) \in Seq(Nodes) /\ Len(SubSeq(q, 1, 1)) = 1 /\ SubSeq(q, 1, 1)[1] = q[1]
    BY <2>2, SubSeqProperties
  <2>4. <<f>> \in Seq(Nodes) /\ <<f>>[1] = f
    BY RootPath
  <2>5. q[1] = f => SubSeq(q, 1, 1) = <<f>>
    <3> DEFINE s == SubSeq(q, 1, 1)
    <3>1. s \in Seq(Nodes) /\ Len(s) = 1 /\ s[1] = q[1]
      BY <2>3
    <3>2. f \in Nodes
      BY DEF Nodes
    <3> HIDE DEF s
    <3>3. q[1] = f => s = <<f>>
      BY <3>1, <3>2, Singleton
    <3> QED BY <3>3 DEF s
  <2>6. SubSeq(q, 1, 1) = <<f>> => q[1] = f
    BY <2>3, <2>4
  <2> QED BY <1>1, <1>3, <2>1, <2>5, <2>6 DEF IsBelow
<1> QED BY <1>2, <1>3

(* What is below a key begins with its root; of the keys it is itself. *)
LEMMA BelowKey ==
    ASSUME NEW k \in Keys, NEW q \in Seq(Nodes), IsBelow(q, k)
    PROVE  /\ q # <<>> /\ q[1] = k[1]
           /\ q \in Keys => q = k
           /\ Len(q) >= 2
<1>1. Len(k) = 2 /\ k[1] \in Files /\ k \in Seq(Nodes)
  BY KeyPath
<1>2. Len(q) \in Nat /\ Len(q) >= 2 /\ SubSeq(q, 1, 2) = k
  BY <1>1, LenProperties DEF IsBelow
<1>3. \A i \in 1..2 : q[i] \in Nodes
  BY <1>2, LenProperties
<1>4. SubSeq(q, 1, 2)[1] = q[1] /\ SubSeq(q, 1, 2)[2] = q[2]
  BY <1>3, SubSeqProperties
<1>5. q[1] = k[1] /\ q[2] = k[2]
  BY <1>2, <1>4
<1>6. q \in Keys => q = k
  BY <1>5, KeyPath
<1>7. q # <<>>
  BY <1>2
<1> QED BY <1>2, <1>5, <1>6, <1>7

(* A path is below itself. *)
LEMMA BelowItself ==
    ASSUME NEW p \in Seq(Nodes)
    PROVE  IsBelow(p, p)
<1>1. SubSeq(p, 1, Len(p)) = p
  BY SubSeqFull
<1> QED BY <1>1, LenProperties DEF IsBelow

(* A child has the root of its parent. *)
LEMMA RootOfParent ==
    ASSUME NEW q \in Seq(Nodes), q # <<>>, Parent(q) # <<>>
    PROVE  /\ Parent(q) \in Seq(Nodes)
           /\ q[1] = Parent(q)[1]
<1>1. Len(q) \in Nat /\ Len(q) >= 1
  BY LenProperties, EmptySeq
<1>2. \A i \in 1..(Len(q) - 1) : q[i] \in Nodes
  BY <1>1, LenProperties
<1>3. /\ SubSeq(q, 1, Len(q) - 1) \in Seq(Nodes)
      /\ \A i \in 1..(Len(q) - 1 - 1 + 1) : SubSeq(q, 1, Len(q) - 1)[i] = q[1 + i - 1]
  BY <1>1, <1>2, SubSeqProperties
<1>4. Len(q) # 1
  <2> SUFFICES ASSUME Len(q) = 1 PROVE FALSE
    OBVIOUS
  <2>1. Parent(q) = SubSeq(q, 1, 0)
    BY DEF Parent
  <2>2. SubSeq(q, 1, 0) = <<>>
    BY SubSeqEmpty
  <2> QED BY <2>1, <2>2
<1>5. SubSeq(q, 1, Len(q) - 1)[1] = q[1 + 1 - 1]
  <2>1. 1 \in 1..(Len(q) - 1 - 1 + 1)
    <3>1. \A n \in Nat : n # 1 /\ n >= 1 => 1 \in 1..(n - 1 - 1 + 1)
      OBVIOUS
    <3> QED BY <1>1, <1>4, <3>1
  <2> QED BY <1>3, <2>1
<1> QED BY <1>3, <1>5 DEF Parent

-----------------------------------------------------------------------------
(* The tree.                                                               *)

(* A tree holds paths, and a key of it has a value and a parent. *)
TreeOK(t) ==
    /\ DOMAIN t \subseteq Seq(Nodes)
    /\ \A k \in Keys : k \in DOMAIN t => t[k] \in Values /\ <<k[1]>> \in DOMAIN t

(* What a reader finds in t. *)
MapOf(t) == [k \in Keys |-> IF Find(t, k) THEN t[k] ELSE None]

(* Nothing that is saved to the file f differs between t and u. *)
SameFile(t, u, f) ==
    /\ Find(u, <<f>>) <=> Find(t, <<f>>)
    /\ Image(u, f) = Image(t, f)

(* Trees that differ only outside of the root f have the same file f. *)
LEMMA SameBelow ==
    ASSUME NEW t, NEW u, NEW f \in Files,
           DOMAIN t \subseteq Seq(Nodes), DOMAIN u \subseteq Seq(Nodes),
           \A q \in Seq(Nodes) : q # <<>> /\ q[1] = f =>
                /\ q \in DOMAIN u <=> q \in DOMAIN t
                /\ q \in DOMAIN t => u[q] = t[q]
    PROVE  SameFile(t, u, f)
<1>1. Find(u, <<f>>) <=> Find(t, <<f>>)
  BY RootPath DEF Find
<1>2. Below(u, <<f>>) = Below(t, <<f>>)
  BY BelowRoot DEF Below
<1>3. ASSUME NEW q \in Below(t, <<f>>)
      PROVE  (HasChildren(u, q) <=> HasChildren(t, q)) /\ u[q] = t[q]
  <2>1. q \in Seq(Nodes) /\ q # <<>> /\ q[1] = f
    BY <1>3, BelowRoot DEF Below
  <2>2. ASSUME NEW p \in Seq(Nodes), p # <<>>, Parent(p) = q
        PROVE  p \in DOMAIN u <=> p \in DOMAIN t
    BY <2>1, <2>2, RootOfParent
  <2>3. HasChildren(u, q) <=> HasChildren(t, q)
    BY <2>2 DEF HasChildren
  <2>4. q \in DOMAIN t
    BY <1>3 DEF Below
  <2> QED BY <2>1, <2>3, <2>4
<1>4. Image(u, f) = Image(t, f)
  BY <1>2, <1>3 DEF Image
<1> QED BY <1>1, <1>4 DEF SameFile

(* xml_node_add of a key changes this key, and no file but its own. *)
LEMMA AddFacts ==
    ASSUME NEW t, TreeOK(t), NEW k \in Keys, NEW v \in Values
    PROVE  /\ TreeOK(Add(t, k, v))
           /\ MapOf(Add(t, k, v)) = [MapOf(t) EXCEPT ![k] = v]
           /\ Add(t, k, v) # EmptyTree
           /\ \A f \in Files : f # k[1] => SameFile(t, Add(t, k, v), f)
<1> DEFINE u == Add(t, k, v)
<1>1. DOMAIN u = DOMAIN t \cup {<<k[1]>>, k}
  BY KeyPath DEF Add
<1>2. u[k] = v /\ k \in DOMAIN u
  BY <1>1 DEF Add
<1>3. \A q \in DOMAIN t : q # k => u[q] = t[q]
  BY <1>1 DEF Add
<1>4. DOMAIN u \subseteq Seq(Nodes)
  BY <1>1, KeyPath, RootPath DEF TreeOK
<1>5. \A q \in Keys : Len(q) = 2 /\ Len(<<k[1]>>) = 1
  BY KeyPath
<1>6. \A q \in Keys : q \in DOMAIN u /\ q # k => q \in DOMAIN t
  BY <1>1, <1>5
<1> HIDE DEF u
<1>7. TreeOK(u)
  BY <1>1, <1>2, <1>3, <1>4, <1>6 DEF TreeOK
<1>8. MapOf(u) = [MapOf(t) EXCEPT ![k] = v]
  BY <1>1, <1>2, <1>3, <1>6 DEF MapOf, Find
<1>9. u # EmptyTree
  <2>1. DOMAIN EmptyTree = {}
    BY DEF EmptyTree
  <2> QED BY <1>2, <2>1
<1>10. ASSUME NEW f \in Files, f # k[1] PROVE SameFile(t, u, f)
  <2>1. k[1] \in Files /\ <<k[1]>>[1] = k[1]
    BY KeyPath
  <2>2. ASSUME NEW q \in Seq(Nodes), q[1] = f
        PROVE  q # k /\ (q \in DOMAIN u <=> q \in DOMAIN t)
    BY <1>1, <1>10, <2>1, <2>2
  <2>3. DOMAIN t \subseteq Seq(Nodes)
    BY DEF TreeOK
  <2>4. ASSUME NEW q \in Seq(Nodes), q[1] = f, q \in DOMAIN t PROVE u[q] = t[q]
    BY <1>3, <2>2, <2>4
  <2> QED BY <1>4, <2>2, <2>3, <2>4, SameBelow
<1> QED BY <1>7, <1>8, <1>9, <1>10 DEF u

(* What is below a path has the same root. *)
LEMMA BelowSameRoot ==
    ASSUME NEW p \in Keys \cup Roots, NEW q \in Seq(Nodes), IsBelow(q, p)
    PROVE  q # <<>> /\ q[1] = p[1]
<1>1. CASE p \in Keys
  BY <1>1, BelowKey
<1>2. CASE p \in Roots
  BY <1>2, BelowRoot, RootPath DEF Roots
<1> QED BY <1>1, <1>2

(* The keys below a path are those that it covers. *)
LEMMA CoveredIsBelow ==
    ASSUME NEW p \in Keys \cup Roots, NEW k \in Keys
    PROVE  IsBelow(k, p) <=> k = p \/ <<k[1]>> = p
<1>1. k \in Seq(Nodes) /\ Len(k) = 2 /\ k[1] \in Files /\ Len(<<k[1]>>) = 1
  BY KeyPath
<1>2. CASE p \in Keys
  <2>1. Len(p) = 2
    BY <1>2, KeyPath
  <2> QED BY <1>1, <1>2, <2>1, BelowKey, BelowItself
<1>3. CASE p \in Roots
  <2>1. PICK f \in Files : p = <<f>>
    BY <1>3 DEF Roots
  <2>2. Len(p) = 1 /\ p[1] = f
    BY <2>1
  <2>3. k # <<>> /\ k # p
    <3>1. k # <<>>
      <4>1. k = <<>> => Len(k) = 0
        BY EmptySeq, Zenon
      <4> QED BY <1>1, <4>1
    <3>2. Len(k) # Len(p)
      BY <1>1, <2>2
    <3> QED BY <3>1, <3>2
  <2>4. IsBelow(k, p) <=> k[1] = f
    BY <1>1, <2>1, <2>3, BelowRoot
  <2>5. <<k[1]>> = p <=> k[1] = f
    BY <2>1
  <2> QED BY <2>3, <2>4, <2>5
<1> QED BY <1>2, <1>3

(* xml_node_destroy takes what the path covers, and changes no other file. *)
LEMMA DestroyFacts ==
    ASSUME NEW t, TreeOK(t), NEW p \in Keys \cup Roots
    PROVE  /\ TreeOK(Destroy(t, p))
           /\ MapOf(Destroy(t, p)) =
                [k \in Keys |-> IF k = p \/ <<k[1]>> = p THEN None ELSE MapOf(t)[k]]
           /\ p \in Roots => ~Find(Destroy(t, p), p)
           /\ \A f \in Files : f # p[1] => SameFile(t, Destroy(t, p), f)
<1> DEFINE u == Destroy(t, p)
<1>1. \A q : q \in DOMAIN u <=> q \in DOMAIN t /\ ~IsBelow(q, p)
  BY DEF Destroy, Below
<1>2. \A q \in DOMAIN u : u[q] = t[q]
  BY DEF Destroy
<1>3. DOMAIN t \subseteq Seq(Nodes)
  BY DEF TreeOK
<1> HIDE DEF u
<1>4. ASSUME NEW k \in Keys, k \in DOMAIN u PROVE <<k[1]>> \in DOMAIN u
  <2>1. <<k[1]>> \in DOMAIN t /\ ~IsBelow(k, p)
    BY <1>1, <1>4 DEF TreeOK
  <2>2. k[1] \in Files /\ <<k[1]>> \in Seq(Nodes) /\ Len(<<k[1]>>) = 1
    BY KeyPath, RootPath
  <2>3. CASE p \in Keys
    <3>1. IsBelow(<<k[1]>>, p) => Len(<<k[1]>>) >= 2
      BY <2>2, <2>3, BelowKey
    <3> QED BY <1>1, <2>1, <2>2, <3>1
  <2>4. CASE p \in Roots
    <3>1. IsBelow(<<k[1]>>, p) => k[1] = p[1]
      BY <2>2, <2>4, BelowSameRoot, RootPath
    <3>2. p = <<p[1]>>
      BY <2>4 DEF Roots
    <3>3. ~IsBelow(<<k[1]>>, p)
      BY <2>1, <3>1, <3>2, CoveredIsBelow
    <3> QED BY <1>1, <2>1, <3>3
  <2> QED BY <2>3, <2>4
<1>5. TreeOK(u)
  BY <1>1, <1>2, <1>3, <1>4 DEF TreeOK
<1>6. MapOf(u) = [k \in Keys |-> IF k = p \/ <<k[1]>> = p THEN None ELSE MapOf(t)[k]]
  <2>1. ASSUME NEW k \in Keys
        PROVE  (IF Find(u, k) THEN u[k] ELSE None)
                = IF k = p \/ <<k[1]>> = p THEN None ELSE MapOf(t)[k]
    <3>1. k \in DOMAIN u <=> k \in DOMAIN t /\ ~(k = p \/ <<k[1]>> = p)
      BY <1>1, CoveredIsBelow
    <3> QED BY <1>2, <3>1 DEF MapOf, Find
  <2> QED BY <2>1 DEF MapOf
<1>7. ASSUME p \in Roots PROVE ~Find(u, p)
  BY <1>1, <1>7, RootPath, BelowItself DEF Find, Roots
<1>8. ASSUME NEW f \in Files, f # p[1] PROVE SameFile(t, u, f)
  <2>1. ASSUME NEW q \in Seq(Nodes), q # <<>>, q[1] = f
        PROVE  /\ q \in DOMAIN u <=> q \in DOMAIN t
               /\ q \in DOMAIN t => u[q] = t[q]
    BY <1>1, <1>2, <1>8, <2>1, BelowSameRoot
  <2>2. DOMAIN u \subseteq Seq(Nodes)
    BY <1>1, <1>3
  <2> QED BY <1>3, <2>1, <2>2, SameBelow
<1> QED BY <1>5, <1>6, <1>7, <1>8 DEF u

(* The files hold paths. *)
DiskOK(d) == DOMAIN d = Files /\ \A f \in Files : DOMAIN d[f] \subseteq Seq(Nodes)

(* No xpath reaches what fconf_xml_load_dir has loaded. *)
LEMMA LoadFacts ==
    ASSUME NEW d, DiskOK(d)
    PROVE  /\ TreeOK(Load(d))
           /\ MapOf(Load(d)) = [k \in Keys |-> None]
           /\ \A f \in Files : ~Find(Load(d), <<f>>)
<1>1. ASSUME NEW p \in DOMAIN Load(d)
      PROVE  p \in Seq(Nodes) /\ p[1] \notin Files
  <2>1. PICK f \in Files : p = <<FileNode(f)>>
                            \/ \E q \in DOMAIN d[f] : p = <<FileNode(f)>> \o q
    BY <1>1 DEF Load, DiskOK
  <2> DEFINE n == FileNode(f)
  <2>2. n \in Nodes /\ n \notin Files
    BY DelimiterAssumption DEF Nodes
  <2> HIDE DEF n
  <2>3. <<n>> \in Seq(Nodes) /\ Len(<<n>>) = 1 /\ <<n>>[1] = n
    BY <2>2
  <2>4. ASSUME NEW q \in DOMAIN d[f], p = <<n>> \o q
        PROVE  p \in Seq(Nodes) /\ p[1] = n
    <3>1. q \in Seq(Nodes) /\ Len(q) \in Nat
      BY LenProperties DEF DiskOK
    <3>2. 1 \in 1..(Len(<<n>>) + Len(q))
      BY <2>3, <3>1
    <3>3. p \in Seq(Nodes) /\ p[1] = <<n>>[1]
      BY <2>3, <2>4, <3>1, <3>2, ConcatProperties
    <3> QED BY <2>3, <3>3
  <2> QED BY <2>1, <2>2, <2>3, <2>4 DEF n
<1>2. \A k \in Keys : k \notin DOMAIN Load(d)
  BY <1>1, KeyPath
<1>3. \A f \in Files : <<f>> \notin DOMAIN Load(d)
  BY <1>1, RootPath
<1>4. TreeOK(Load(d))
  BY <1>1, <1>2 DEF TreeOK
<1>5. MapOf(Load(d)) = [k \in Keys |-> None]
  BY <1>2 DEF MapOf, Find
<1> QED BY <1>3, <1>4, <1>5 DEF Find

-----------------------------------------------------------------------------
(* Streams of frames.                                                      *)

(* A push that tells a client of a change of its own. *)
Own(x) == ~IsAnswer(x) /\ x.trigger = "self"

(* Only changes that others made. *)
Quiet(s) == \A i \in DOMAIN s : ~IsAnswer(s[i]) /\ ~Own(s[i])

HasAnswer(s) == \E i \in DOMAIN s : IsAnswer(s[i])

HasOwn(s) == \E i \in DOMAIN s : Own(s[i])

(* One answer at most, and before it the changes of the call r itself. *)
OneCall(s, r) ==
    /\ \A i, j \in DOMAIN s : IsAnswer(s[i]) /\ IsAnswer(s[j]) => i = j
    /\ \A i, j \in DOMAIN s : Own(s[i]) /\ IsAnswer(s[j]) => i < j
    /\ \A i \in DOMAIN s : Own(s[i]) => r.op \in {"set", "remove"} /\ r.path = s[i].path


(* The answer in a stream is the one that Promised finds. *)
AnswerIn(s) == s[CHOOSE i \in DOMAIN s : IsAnswer(s[i])]

(* Where there is one answer, the CHOOSE of AnswerIn finds it. *)
LEMMA TheAnswer ==
    ASSUME NEW s, NEW r, OneCall(s, r), NEW j \in DOMAIN s, IsAnswer(s[j])
    PROVE  AnswerIn(s) = s[j]
<1> DEFINE i == CHOOSE i \in DOMAIN s : IsAnswer(s[i])
<1>1. i \in DOMAIN s /\ IsAnswer(s[i])
  OBVIOUS
<1> HIDE DEF i
<1>2. i = j
  BY <1>1 DEF OneCall
<1> QED BY <1>2 DEF AnswerIn, i

(* No answer and no own change is in a quiet stream. *)
LEMMA QuietFacts ==
    ASSUME NEW s, Quiet(s)
    PROVE  ~HasAnswer(s) /\ \A r : OneCall(s, r)
BY DEF Quiet, HasAnswer, OneCall

(* An empty stream is quiet. *)
LEMMA QuietEmpty == Quiet(<<>>)
BY DEF Quiet

(* A prefix holds what the stream held. *)
LEMMA PrefixFacts ==
    ASSUME NEW s \in Seq(Frame), NEW n \in Nat, n <= Len(s)
    PROVE  LET t == SubSeq(s, 1, n) IN
           /\ t \in Seq(Frame)
           /\ Len(t) = n
           /\ Quiet(s) => Quiet(t)
           /\ \A r : OneCall(s, r) => OneCall(t, r)
           /\ \A r : OneCall(s, r) /\ HasAnswer(t) => HasAnswer(s) /\ AnswerIn(t) = AnswerIn(s)
<1> DEFINE t == SubSeq(s, 1, n)
<1>1. Len(s) \in Nat /\ DOMAIN s = 1..Len(s) /\ \A i \in 1..Len(s) : s[i] \in Frame
  BY LenProperties, ElementOfSeq
<1>2. \A i \in 1..n : s[i] \in Frame
  BY <1>1
<1>3. /\ t \in Seq(Frame)
      /\ Len(t) = IF 1 <= n THEN n - 1 + 1 ELSE 0
      /\ \A i \in 1..(n - 1 + 1) : t[i] = s[1 + i - 1]
  BY <1>2, SubSeqProperties
<1> HIDE DEF t
<1>4. Len(t) = n
  BY <1>3
<1>5. DOMAIN t = 1..n
  BY <1>3, <1>4, LenProperties
<1>6. \A i \in 1..n : t[i] = s[i]
  BY <1>3
<1>7. \A i \in DOMAIN t : i \in DOMAIN s /\ t[i] = s[i]
  BY <1>1, <1>5, <1>6
<1>8. Quiet(s) => Quiet(t)
  BY <1>7 DEF Quiet
<1>9. ASSUME NEW r, OneCall(s, r) PROVE OneCall(t, r)
  BY <1>7, <1>9 DEF OneCall
<1>10. ASSUME NEW r, OneCall(s, r), HasAnswer(t)
       PROVE  HasAnswer(s) /\ AnswerIn(t) = AnswerIn(s)
  <2>1. PICK j \in DOMAIN t : IsAnswer(t[j])
    BY <1>10 DEF HasAnswer
  <2>2. j \in DOMAIN s /\ IsAnswer(s[j]) /\ t[j] = s[j]
    BY <1>7, <2>1
  <2> QED BY <1>9, <1>10, <2>1, <2>2, TheAnswer DEF HasAnswer
<1> QED BY <1>3, <1>4, <1>8, <1>9, <1>10 DEF t

(* A frame is read: a push, or the answer, behind which all is quiet. *)
LEMMA TailFacts ==
    ASSUME NEW s \in Seq(Frame), s # <<>>
    PROVE  /\ Tail(s) \in Seq(Frame)
           /\ Head(s) \in Frame
           /\ Head(s) = s[1] /\ 1 \in DOMAIN s
           /\ Quiet(s) => Quiet(Tail(s))
           /\ \A r : OneCall(s, r) /\ IsAnswer(Head(s)) =>
                Quiet(Tail(s)) /\ HasAnswer(s) /\ AnswerIn(s) = Head(s)
           /\ \A r : OneCall(s, r) /\ ~IsAnswer(Head(s)) =>
                /\ OneCall(Tail(s), r)
                /\ HasAnswer(Tail(s)) <=> HasAnswer(s)
                /\ HasAnswer(s) => AnswerIn(Tail(s)) = AnswerIn(s)
<1> DEFINE t == Tail(s)
<1>1. /\ Len(s) \in Nat /\ Len(s) # 0 /\ DOMAIN s = 1..Len(s)
  BY LenProperties, EmptySeq
<1>2. /\ Head(s) \in Frame /\ t \in Seq(Frame) /\ Len(t) = Len(s) - 1
      /\ \A i \in 1..Len(t) : t[i] = s[i + 1]
  BY HeadTailProperties
<1>3. Head(s) = s[1]
  OBVIOUS
<1> HIDE DEF t
<1>4. DOMAIN t = 1..Len(t)
  BY <1>2, LenProperties
<1>5. \A i \in DOMAIN t : i + 1 \in DOMAIN s /\ t[i] = s[i + 1] /\ i \in Nat
  BY <1>1, <1>2, <1>4
<1>6. \A i \in DOMAIN s : i # 1 => i - 1 \in DOMAIN t /\ t[i - 1] = s[i] /\ i \in Nat
  <2>1. ASSUME NEW i \in DOMAIN s, i # 1 PROVE i - 1 \in 1..(Len(s) - 1) /\ i - 1 + 1 = i
    BY <1>1, <2>1
  <2> QED BY <1>1, <1>2, <1>4, <2>1
<1>7. 1 \in DOMAIN s
  BY <1>1
<1>8. Quiet(s) => Quiet(t)
  BY <1>5 DEF Quiet
<1>9. ASSUME NEW r, OneCall(s, r), IsAnswer(s[1])
      PROVE  Quiet(t) /\ HasAnswer(s) /\ AnswerIn(s) = s[1]
  <2>1. ASSUME NEW i \in DOMAIN t PROVE ~IsAnswer(t[i]) /\ ~Own(t[i])
    <3>1. i + 1 \in DOMAIN s /\ t[i] = s[i + 1] /\ i + 1 # 1 /\ ~(i + 1 < 1)
      BY <1>4, <1>5
    <3> QED BY <1>7, <1>9, <3>1 DEF OneCall
  <2> QED BY <1>7, <1>9, <2>1, TheAnswer DEF Quiet, HasAnswer
<1>10. ASSUME NEW r, OneCall(s, r), ~IsAnswer(s[1])
       PROVE  /\ OneCall(t, r)
              /\ HasAnswer(t) <=> HasAnswer(s)
              /\ HasAnswer(s) => AnswerIn(t) = AnswerIn(s)
  <2>1. \A i, j \in DOMAIN t : IsAnswer(t[i]) /\ IsAnswer(t[j]) => i = j
    <3>1. \A i, j \in DOMAIN t : i + 1 = j + 1 => i = j
      BY <1>5
    <3> QED BY <1>5, <1>10, <3>1 DEF OneCall
  <2>2. \A i, j \in DOMAIN t : Own(t[i]) /\ IsAnswer(t[j]) => i < j
    <3>1. \A i, j \in DOMAIN t : i + 1 < j + 1 => i < j
      BY <1>5
    <3> QED BY <1>5, <1>10, <3>1 DEF OneCall
  <2>3. \A i \in DOMAIN t : Own(t[i]) => r.op \in {"set", "remove"} /\ r.path = t[i].path
    BY <1>5, <1>10 DEF OneCall
  <2>4. OneCall(t, r)
    BY <2>1, <2>2, <2>3 DEF OneCall
  <2>5. HasAnswer(t) => HasAnswer(s)
    BY <1>5 DEF HasAnswer
  <2>6. ASSUME HasAnswer(s) PROVE HasAnswer(t) /\ AnswerIn(t) = AnswerIn(s)
    <3>1. PICK j \in DOMAIN s : IsAnswer(s[j])
      BY <2>6 DEF HasAnswer
    <3>2. j - 1 \in DOMAIN t /\ t[j - 1] = s[j]
      BY <1>6, <1>10, <3>1
    <3> QED BY <1>10, <2>4, <3>1, <3>2, TheAnswer DEF HasAnswer
  <2> QED BY <2>4, <2>5, <2>6
<1> QED BY <1>2, <1>3, <1>7, <1>8, <1>9, <1>10 DEF t

(* What the service writes is behind what was written. *)
LEMMA AppendFacts ==
    ASSUME NEW s \in Seq(Frame), NEW t \in Seq(Frame)
    PROVE  /\ s \o t \in Seq(Frame)
           /\ Quiet(s) /\ Quiet(t) => Quiet(s \o t)
           /\ \A r : OneCall(s, r) /\ Quiet(t) =>
                /\ OneCall(s \o t, r)
                /\ HasAnswer(s \o t) <=> HasAnswer(s)
                /\ HasAnswer(s) => AnswerIn(s \o t) = AnswerIn(s)
           /\ \A r : Quiet(s) /\ OneCall(t, r) =>
                /\ OneCall(s \o t, r)
                /\ HasAnswer(s \o t) <=> HasAnswer(t)
                /\ HasAnswer(t) => AnswerIn(s \o t) = AnswerIn(t)
<1> DEFINE u == s \o t
           m == Len(s)
           n == Len(t)
<1>1. m \in Nat /\ n \in Nat /\ DOMAIN s = 1..m /\ DOMAIN t = 1..n
  BY LenProperties
<1>2. /\ u \in Seq(Frame) /\ Len(u) = m + n
      /\ \A i \in 1..(m + n) : u[i] = IF i <= m THEN s[i] ELSE t[i - m]
  BY ConcatProperties
<1>3. DOMAIN u = 1..(m + n)
  BY <1>2, LenProperties
<1> HIDE DEF u, m, n
<1>4. \A i \in DOMAIN s : i \in DOMAIN u /\ u[i] = s[i] /\ i \in Nat /\ i <= m
  BY <1>1, <1>2, <1>3
<1>5. ASSUME NEW i \in DOMAIN t
      PROVE  m + i \in DOMAIN u /\ u[m + i] = t[i] /\ i \in Nat /\ i >= 1
  <2>1. \A j \in 1..(m + n) : ~(j <= m) => u[j] = t[j - m]
    BY <1>2
  <2>2. PICK j \in 1..(m + n) : j = m + i
    BY <1>1
  <2>3. ~(j <= m) /\ j - m = i /\ i \in Nat /\ i >= 1
    BY <1>1, <2>2
  <2> QED BY <1>3, <2>1, <2>2, <2>3
<1>6. ASSUME NEW i \in DOMAIN u
      PROVE  \/ i \in DOMAIN s /\ u[i] = s[i]
             \/ \E k \in DOMAIN t : i = m + k /\ u[i] = t[k]
  <2>1. CASE i <= m
    BY <1>1, <1>2, <1>3, <2>1
  <2>2. CASE ~(i <= m)
    <3>1. i - m \in 1..n /\ i = m + (i - m)
      BY <1>1, <1>3, <2>2
    <3> QED BY <1>1, <1>2, <1>3, <2>2, <3>1
  <2> QED BY <2>1, <2>2
<1>7. Quiet(s) /\ Quiet(t) => Quiet(u)
  BY <1>6 DEF Quiet
<1>8. ASSUME NEW r, OneCall(s, r), Quiet(t)
      PROVE  /\ OneCall(u, r)
             /\ HasAnswer(u) <=> HasAnswer(s)
             /\ HasAnswer(s) => AnswerIn(u) = AnswerIn(s)
  <2>1. \A i \in DOMAIN u : IsAnswer(u[i]) \/ Own(u[i]) => i \in DOMAIN s /\ u[i] = s[i]
    BY <1>6, <1>8 DEF Quiet
  <2>2. OneCall(u, r)
    BY <1>8, <2>1 DEF OneCall
  <2>3. HasAnswer(u) <=> HasAnswer(s)
    BY <1>4, <2>1 DEF HasAnswer
  <2>4. ASSUME HasAnswer(s) PROVE AnswerIn(u) = AnswerIn(s)
    <3>1. PICK j \in DOMAIN s : IsAnswer(s[j])
      BY <2>4 DEF HasAnswer
    <3> QED BY <1>4, <1>8, <2>2, <3>1, TheAnswer
  <2> QED BY <2>2, <2>3, <2>4
<1>9. ASSUME NEW r, Quiet(s), OneCall(t, r)
      PROVE  /\ OneCall(u, r)
             /\ HasAnswer(u) <=> HasAnswer(t)
             /\ HasAnswer(t) => AnswerIn(u) = AnswerIn(t)
  <2>1. ASSUME NEW i \in DOMAIN u, IsAnswer(u[i]) \/ Own(u[i])
        PROVE  \E k \in DOMAIN t : i = m + k /\ u[i] = t[k]
    BY <1>6, <1>9, <2>1 DEF Quiet
  <2>2. \A i, j \in DOMAIN u : IsAnswer(u[i]) /\ IsAnswer(u[j]) => i = j
    BY <1>9, <2>1 DEF OneCall
  <2>3. ASSUME NEW i \in DOMAIN u, NEW j \in DOMAIN u, Own(u[i]), IsAnswer(u[j])
        PROVE  i < j
    <3>1. PICK k \in DOMAIN t : i = m + k /\ u[i] = t[k]
      BY <2>1, <2>3
    <3>2. PICK l \in DOMAIN t : j = m + l /\ u[j] = t[l]
      BY <2>1, <2>3
    <3>3. k < l
      BY <1>9, <2>3, <3>1, <3>2 DEF OneCall
    <3>4. k \in Nat /\ l \in Nat
      BY <1>5
    <3> QED BY <1>1, <3>1, <3>2, <3>3, <3>4
  <2>4. \A i \in DOMAIN u : Own(u[i]) => r.op \in {"set", "remove"} /\ r.path = u[i].path
    BY <1>9, <2>1 DEF OneCall
  <2>5. OneCall(u, r)
    BY <2>2, <2>3, <2>4 DEF OneCall
  <2>6. HasAnswer(u) <=> HasAnswer(t)
    BY <1>5, <2>1 DEF HasAnswer
  <2>7. ASSUME HasAnswer(t) PROVE AnswerIn(u) = AnswerIn(t)
    <3>1. PICK j \in DOMAIN t : IsAnswer(t[j])
      BY <2>7 DEF HasAnswer
    <3> QED BY <1>5, <1>9, <2>5, <3>1, TheAnswer
  <2> QED BY <2>5, <2>6, <2>7
<1> QED BY <1>2, <1>7, <1>8, <1>9 DEF u

-----------------------------------------------------------------------------
(* The inductive invariant.                                                *)

(* Where the thread of a client is, against its connection and its call. *)
ControlOK(c) ==
    /\ conn[c] \in {"none", "pending", "half"} => down[c] = <<>>
    /\ at[c] = "off" => ~listener[c] /\ conn[c] \in {"none", "half"}
    /\ conn[c] \in {"none", "half"} => at[c] = "off"
    /\ sent[c] => conn[c] \in {"pending", "open", "half"}
    /\ sent[c] => at[c] = "call" \/ conn[c] = "half"
    /\ call[c] # NoCall <=> sent[c] \/ at[c] = "call"
    /\ at[c] # "handler" => ret[c] = Failed

(* What is in a stream, against the call its client is in. *)
StreamOK(c) ==
    \/ Quiet(down[c])
    \/ /\ at[c] = "call" /\ ~sent[c]
       /\ OneCall(down[c], call[c])
       /\ conn[c] = "open" => HasAnswer(down[c])

(* What the service has in memory and on disk. *)
ServiceOK ==
    /\ TreeOK(tree)
    /\ DiskOK(disk)
    /\ ~running => tree = EmptyTree

IInv ==
    /\ TypeOK
    /\ ret \in [Clients -> Frame]
    /\ ServiceOK
    /\ UnsavedIsScheduled
    /\ \A c \in Clients : ControlOK(c) /\ StreamOK(c)

-----------------------------------------------------------------------------
(* What serving a request writes.                                          *)

(* A stream of one frame. *)
LEMMA OneFrame ==
    ASSUME NEW a \in Frame
    PROVE  /\ <<a>> \in Seq(Frame)
           /\ ~IsAnswer(a) /\ ~Own(a) => Quiet(<<a>>)
           /\ IsAnswer(a) => /\ \A r : OneCall(<<a>>, r)
                             /\ HasAnswer(<<a>>)
                             /\ AnswerIn(<<a>>) = a
<1> DEFINE s == <<a>>
<1>1. s \in Seq(Frame) /\ DOMAIN s = {1} /\ s[1] = a
  OBVIOUS
<1> HIDE DEF s
<1>2. ~IsAnswer(a) /\ ~Own(a) => Quiet(s)
  BY <1>1 DEF Quiet
<1>3. IsAnswer(a) => \A r : OneCall(s, r)
  BY <1>1 DEF OneCall, Own
<1>4. IsAnswer(a) => HasAnswer(s)
  BY <1>1 DEF HasAnswer
<1>5. IsAnswer(a) => AnswerIn(s) = a
  BY <1>1, <1>3, TheAnswer
<1> QED BY <1>1, <1>2, <1>3, <1>4, <1>5 DEF s

(* The push of a change and the answer, in this order. *)
LEMMA PushAndAnswer ==
    ASSUME NEW p \in Frame, NEW a \in Frame, NEW r,
           ~IsAnswer(p), IsAnswer(a), r.op \in {"set", "remove"}, r.path = p.path
    PROVE  /\ <<p>> \o <<a>> \in Seq(Frame)
           /\ OneCall(<<p>> \o <<a>>, r)
           /\ HasAnswer(<<p>> \o <<a>>)
           /\ AnswerIn(<<p>> \o <<a>>) = a
<1> DEFINE s == <<p>> \o <<a>>
<1>1. /\ <<p>> \in Seq(Frame) /\ Len(<<p>>) = 1 /\ <<p>>[1] = p
      /\ <<a>> \in Seq(Frame) /\ Len(<<a>>) = 1 /\ <<a>>[1] = a
  OBVIOUS
<1>2. s \in Seq(Frame) /\ DOMAIN s = {1, 2} /\ s[1] = p /\ s[2] = a
  <2>1. /\ s \in Seq(Frame) /\ Len(s) = 1 + 1
        /\ \A i \in 1..(1 + 1) : s[i] = IF i <= 1 THEN <<p>>[i] ELSE <<a>>[i - 1]
    BY <1>1, ConcatProperties
  <2> HIDE DEF s
  <2>2. DOMAIN s = 1..2
    BY <2>1, LenProperties
  <2>3. s[1] = <<p>>[1]
    BY <2>1
  <2>4. s[2] = <<a>>[2 - 1]
    BY <2>1
  <2> QED BY <1>1, <2>1, <2>2, <2>3, <2>4
<1> HIDE DEF s
<1>3. OneCall(s, r)
  <2>1. \A i, j \in DOMAIN s : IsAnswer(s[i]) /\ IsAnswer(s[j]) => i = j
    BY <1>2
  <2>2. \A i, j \in DOMAIN s : Own(s[i]) /\ IsAnswer(s[j]) => i < j
    <3>1. \A i \in DOMAIN s : Own(s[i]) => i = 1
      BY <1>2 DEF Own
    <3>2. \A j \in DOMAIN s : IsAnswer(s[j]) => j = 2
      BY <1>2
    <3> QED BY <3>1, <3>2
  <2>3. \A i \in DOMAIN s : Own(s[i]) => r.op \in {"set", "remove"} /\ r.path = s[i].path
    BY <1>2 DEF Own
  <2> QED BY <2>1, <2>2, <2>3 DEF OneCall
<1>4. HasAnswer(s)
  BY <1>2 DEF HasAnswer
<1>5. AnswerIn(s) = a
  BY <1>2, <1>3, TheAnswer
<1> QED BY <1>2, <1>3, <1>4, <1>5 DEF s

(* u holds what s does, and behind it changes that others made. *)
Extended(s, u) ==
    /\ Quiet(s) => Quiet(u)
    /\ \A r : OneCall(s, r) =>
        /\ OneCall(u, r)
        /\ HasAnswer(u) <=> HasAnswer(s)
        /\ HasAnswer(s) => AnswerIn(u) = AnswerIn(s)

(* The answer a to the request of c, and what the others are told. *)
Delivered(c, a) ==
    /\ down' \in [Clients -> Seq(Frame)]
    /\ \A d \in Clients : conn[d] # "open" => down'[d] = down[d]
    /\ conn[c] = "open" =>
        /\ OneCall(down'[c], call[c])
        /\ HasAnswer(down'[c])
        /\ AnswerIn(down'[c]) = a
    /\ \A d \in Clients \ {c} : Extended(down[d], down'[d])

(* The pushes that serving the request r of c may write. *)
PushesOK(c, r, pushes) ==
    \/ pushes = NoPushes
    \/ \E type \in {"set", "add", "remove"}, value \in Values \cup {None} :
        /\ r.op \in {"set", "remove"} /\ r.path \in Keys \cup Roots
        /\ pushes = Pushes(c, type, r.path, value)

(* The answer is delivered, and the pushes before it are in its place. *)
LEMMA WriteFacts ==
    ASSUME down \in [Clients -> Seq(Frame)],
           NEW c \in Clients, NEW pushes, NEW a \in Frame,
           Quiet(down[c]), IsAnswer(a),
           PushesOK(c, call[c], pushes),
           Write(c, pushes, a)
    PROVE  Delivered(c, a)
<1>1. \A d \in Clients : down'[d] = down[d] \o Frames(c, d, pushes, a)
  BY DEF Write
<1>2. ASSUME NEW d \in Clients
      PROVE  \/ pushes[d] = <<>>
             \/ \E p \in Frame :
                    /\ pushes[d] = <<p>>
                    /\ ~IsAnswer(p)
                    /\ d # c => ~Own(p)
                    /\ call[c].op \in {"set", "remove"} /\ call[c].path = p.path
  <2>1. CASE pushes = NoPushes
    BY <2>1 DEF NoPushes
  <2>2. CASE \E type \in {"set", "add", "remove"}, value \in Values \cup {None} :
                /\ call[c].op \in {"set", "remove"} /\ call[c].path \in Keys \cup Roots
                /\ pushes = Pushes(c, type, call[c].path, value)
    <3>1. PICK type \in {"set", "add", "remove"}, value \in Values \cup {None} :
                /\ call[c].op \in {"set", "remove"} /\ call[c].path \in Keys \cup Roots
                /\ pushes = Pushes(c, type, call[c].path, value)
      BY <2>2
    <3> DEFINE p == Push(IF d = c THEN "self" ELSE "other", type, call[c].path, value)
    <3>2. p \in Frame /\ ~IsAnswer(p) /\ p.path = call[c].path
      BY <3>1 DEF Push, Frame, IsAnswer, Roots
    <3>3. d # c => ~Own(p)
      BY DEF Push, Own
    <3>4. pushes[d] = <<p>>
      BY <3>1 DEF Pushes
    <3> QED BY <3>1, <3>2, <3>3, <3>4
  <2> QED BY <2>1, <2>2 DEF PushesOK
<1>3. <<>> \in Seq(Frame)
  OBVIOUS
<1>4. ASSUME NEW d \in Clients, d # c
      PROVE  Frames(c, d, pushes, a) \in Seq(Frame) /\ Quiet(Frames(c, d, pushes, a))
  <2>1. \/ Frames(c, d, pushes, a) = <<>> \o <<>>
        \/ Frames(c, d, pushes, a) = pushes[d] \o <<>>
        \/ Frames(c, d, pushes, a) = <<>>
    BY <1>4 DEF Frames
  <2>2. pushes[d] \in Seq(Frame) /\ Quiet(pushes[d])
    BY <1>2, <1>3, <1>4, OneFrame, QuietEmpty
  <2>3. \/ Frames(c, d, pushes, a) = pushes[d]
        \/ Frames(c, d, pushes, a) = <<>>
    BY <1>3, <2>1, <2>2, ConcatEmptySeq
  <2> QED BY <1>3, <2>2, <2>3, QuietEmpty
<1>5. ASSUME conn[c] = "open"
      PROVE  /\ Frames(c, c, pushes, a) \in Seq(Frame)
             /\ OneCall(Frames(c, c, pushes, a), call[c])
             /\ HasAnswer(Frames(c, c, pushes, a))
             /\ AnswerIn(Frames(c, c, pushes, a)) = a
  <2>1. \/ Frames(c, c, pushes, a) = <<>> \o <<a>>
        \/ Frames(c, c, pushes, a) = pushes[c] \o <<a>>
    BY <1>5 DEF Frames
  <2>2. CASE Frames(c, c, pushes, a) = <<>> \o <<a>>
    <3>1. Frames(c, c, pushes, a) = <<a>>
      BY <2>2, OneFrame, ConcatEmptySeq
    <3> QED BY <3>1, OneFrame
  <2>3. CASE /\ Frames(c, c, pushes, a) = pushes[c] \o <<a>>
             /\ \E p \in Frame :
                    /\ pushes[c] = <<p>>
                    /\ ~IsAnswer(p)
                    /\ call[c].op \in {"set", "remove"} /\ call[c].path = p.path
    BY <2>3, PushAndAnswer
  <2> QED BY <1>2, <2>1, <2>2, <2>3
<1>6. ASSUME NEW d \in Clients, conn[d] # "open" PROVE down'[d] = down[d]
  BY <1>1, <1>6, ConcatEmptySeq DEF Frames
<1>7. ASSUME NEW d \in Clients \ {c} PROVE Extended(down[d], down'[d])
  <2> DEFINE s == down[d]
             t == Frames(c, d, pushes, a)
  <2>1. s \in Seq(Frame) /\ t \in Seq(Frame) /\ Quiet(t) /\ down'[d] = s \o t
    BY <1>1, <1>4
  <2> HIDE DEF s, t
  <2>2. Extended(s, s \o t)
    BY <2>1, AppendFacts DEF Extended
  <2> QED BY <2>1, <2>2 DEF s
<1>8. ASSUME conn[c] = "open"
      PROVE  /\ OneCall(down'[c], call[c])
             /\ HasAnswer(down'[c])
             /\ AnswerIn(down'[c]) = a
  <2> DEFINE s == down[c]
             t == Frames(c, c, pushes, a)
  <2>1. s \in Seq(Frame) /\ Quiet(s) /\ down'[c] = s \o t
    BY <1>1
  <2>2. t \in Seq(Frame) /\ OneCall(t, call[c]) /\ HasAnswer(t) /\ AnswerIn(t) = a
    BY <1>5, <1>8
  <2> HIDE DEF s, t
  <2> QED BY <2>1, <2>2, AppendFacts
<1>9. ASSUME NEW d \in Clients PROVE down'[d] \in Seq(Frame)
  <2>1. CASE d # c
    BY <1>1, <1>4, <2>1, AppendFacts
  <2>2. CASE d = c /\ conn[c] = "open"
    BY <1>1, <1>5, <2>2, AppendFacts
  <2>3. CASE d = c /\ conn[c] # "open"
    BY <1>6, <2>3
  <2> QED BY <2>1, <2>2, <2>3
<1>10. down' \in [Clients -> Seq(Frame)]
  BY <1>9 DEF Write
<1> QED BY <1>6, <1>7, <1>8, <1>10 DEF Delivered


-----------------------------------------------------------------------------
(* What serving a request does.                                            *)

(* What a call is. *)
LEMMA CallFacts ==
    ASSUME NEW r \in Calls
    PROVE  /\ r.op \in {"set", "get", "remove", "lock", "unlock"}
           /\ r.op = "set" => r.path \in Keys /\ r.value \in Values
           /\ r.op = "get" => r.path \in Keys
           /\ r.op = "remove" => r.path \in Keys \cup Roots
BY DEF Calls, Roots

(* An answer is a frame. *)
LEMMA AnswerFrame ==
    ASSUME NEW n \in 0..4, NEW v \in Values \cup {None}
    PROVE  Normal(n, v) \in Frame /\ IsAnswer(Normal(n, v))
BY DEF Normal, Frame, IsAnswer

(* What the caller gets out of an answer. *)
LEMMA OutcomeOf ==
    ASSUME NEW n \in 0..4, NEW v
    PROVE  /\ n = 0 => Outcome(Normal(n, v)) = [ok |-> TRUE, value |-> v]
           /\ n # 0 => Outcome(Normal(n, v)) = [ok |-> FALSE, value |-> v]
<1>1. Normal(n, v).ret = n /\ Normal(n, v).value = v
  BY DEF Normal
<1>2. CASE n = 0
  <2>1. (n = 0) = TRUE
    BY <1>2
  <2> QED BY <1>1, <1>2, <2>1, Zenon DEF Outcome, RET_OK
<1>3. CASE n # 0
  <2>1. (n = 0) = FALSE
    BY <1>3
  <2> QED BY <1>1, <1>3, <2>1, Zenon DEF Outcome, RET_OK
<1> QED BY <1>2, <1>3

(* The map that Config sees is the one the tree stands for. *)
LEMMA MemIsMap == Mem = MapOf(tree)
BY DEF Mem, MapOf

(* The same after a step. *)
LEMMA MemPrimeIsMap == Mem' = MapOf(tree')
BY DEF Mem, MapOf

(* After the request of c has been served with the answer a. *)
Served(c, a) ==
    /\ a \in Frame /\ IsAnswer(a)
    /\ Delivered(c, a)
    /\ TreeOK(tree')
    /\ UnsavedIsScheduled'
    /\ marked' \subseteq Files /\ unopened' \subseteq Files
    /\ modified' \in BOOLEAN
    /\ C!Effect(call[c], Outcome(a))

(* Before it. *)
Asked(c) ==
    /\ TypeOK
    /\ TreeOK(tree)
    /\ UnsavedIsScheduled
    /\ call[c] \in Calls
    /\ Quiet(down[c])
    /\ armed' = (armed \/ modified')
    /\ UNCHANGED disk

(* Config has the keys of the service. *)
LEMMA KeysOfConfig == C!Keys = Keys
BY DEF C!Keys, Keys

(* A SET serves its call. *)
LEMMA SetServes ==
    ASSUME NEW c \in Clients, Asked(c), call[c].op = "set",
           Set(c, call[c].path, call[c].value)
    PROVE  Served(c, Normal(RET_OK, None))
<1> DEFINE a == Normal(RET_OK, None)
           k == call[c].path
           v == call[c].value
           type == IF Find(tree, k) THEN "set" ELSE "add"
<1>1. k \in Keys /\ v \in Values /\ k[1] \in Files
  BY CallFacts, KeyPath DEF Asked
<1>2. a \in Frame /\ IsAnswer(a)
  BY AnswerFrame DEF RET_OK
<1>3. Delivered(c, a)
  <2>1. Write(c, Pushes(c, type, k, v), a)
    BY DEF Set
  <2>2. type \in {"set", "add", "remove"}
    OBVIOUS
  <2> HIDE DEF type, a
  <2>3. PushesOK(c, call[c], Pushes(c, type, k, v))
    BY <1>1, <2>2 DEF PushesOK
  <2> QED BY <1>2, <2>1, <2>3, WriteFacts DEF Asked, TypeOK
<1>4. tree' = Add(tree, k, v) /\ marked' = marked \cup {k[1]} /\ modified' = TRUE /\ unopened' = unopened
  BY DEF Set
<1>5. armed' = TRUE /\ disk' = disk /\ marked \subseteq Files /\ unopened \subseteq Files
  BY <1>4 DEF Asked, TypeOK
<1>6. /\ TreeOK(tree')
      /\ MapOf(tree') = [MapOf(tree) EXCEPT ![k] = v]
      /\ \A f \in Files : f # k[1] => SameFile(tree, tree', f)
  BY <1>1, <1>4, AddFacts DEF Asked
<1> HIDE DEF k, v
<1>7. ASSUME NEW f \in Files, Find(tree', <<f>>), disk'[f] # Image(tree', f)
      PROVE  f \in marked' /\ (armed' \/ f \in unopened')
  <2>1. CASE f = k[1]
    BY <1>4, <1>5, <2>1
  <2>2. CASE f # k[1]
    <3>1. Find(tree, <<f>>) /\ disk[f] # Image(tree, f)
      BY <1>5, <1>6, <1>7, <2>2 DEF SameFile
    <3> QED BY <1>4, <1>5, <3>1 DEF Asked, UnsavedIsScheduled
  <2> QED BY <2>1, <2>2
<1>8. UnsavedIsScheduled'
  BY <1>7 DEF UnsavedIsScheduled
<1>9. C!Effect(call[c], Outcome(a))
  <2>1. Outcome(a) = [ok |-> TRUE, value |-> None]
    BY DEF Outcome, Normal, RET_OK
  <2>2. Mem' = [Mem EXCEPT ![k] = v]
    BY <1>6, MemIsMap, MemPrimeIsMap
  <2> QED BY <2>1, <2>2 DEF C!Effect, C!Ok, k, v
<1> QED BY <1>1, <1>2, <1>3, <1>4, <1>5, <1>6, <1>8, <1>9 DEF Served

(* A REMOVE of a key or of a root serves its call. *)
LEMMA RemoveServes ==
    ASSUME NEW c \in Clients, Asked(c), call[c].op = "remove",
           Remove(c, call[c].path)
    PROVE  Served(c, Normal(RET_OK, None))
<1> DEFINE a == Normal(RET_OK, None)
           p == call[c].path
<1>1. p \in Keys \cup Roots
  BY CallFacts DEF Asked
<1>2. a \in Frame /\ IsAnswer(a)
  BY AnswerFrame DEF RET_OK
<1>3. Delivered(c, a)
  <2>1. Write(c, Pushes(c, "remove", p, None), a)
    BY DEF Remove
  <2> HIDE DEF a
  <2>2. PushesOK(c, call[c], Pushes(c, "remove", p, None))
    BY <1>1 DEF PushesOK
  <2> QED BY <1>2, <2>1, <2>2, WriteFacts DEF Asked, TypeOK
<1>4. /\ Find(tree, p) /\ tree' = Destroy(tree, p)
      /\ marked' = IF Len(p) = 1 THEN marked \ {p[1]} ELSE marked \cup {p[1]}
      /\ unopened' = unopened \cap marked' /\ modified' = TRUE
  BY DEF Remove
<1>5. armed' = TRUE /\ disk' = disk /\ marked \subseteq Files /\ unopened \subseteq Files
  BY <1>4 DEF Asked, TypeOK
<1>6. p[1] \in Files /\ (p \in Roots => Len(p) = 1 /\ p = <<p[1]>>) /\ (p \in Keys => Len(p) = 2)
  <2>1. CASE p \in Keys
    <3>1. Len(p) = 2 /\ p[1] \in Files
      BY <2>1, KeyPath
    <3>2. ASSUME NEW f \in Files PROVE p # <<f>>
      <4>1. Len(<<f>>) # Len(p)
        BY <3>1, RootPath
      <4> QED BY <4>1
    <3> QED BY <3>1, <3>2 DEF Roots
  <2>2. CASE p \in Roots
    <3>1. PICK f \in Files : p = <<f>>
      BY <2>2 DEF Roots
    <3>2. Len(p) = 1 /\ p[1] = f
      BY <3>1
    <3>3. p \notin Keys
      BY <3>2, KeyPath
    <3> QED BY <3>1, <3>2, <3>3
  <2> QED BY <1>1, <2>1, <2>2
<1>7. /\ TreeOK(tree')
      /\ MapOf(tree') = [k \in Keys |-> IF k = p \/ <<k[1]>> = p THEN None ELSE MapOf(tree)[k]]
      /\ p \in Roots => ~Find(tree', p)
      /\ \A f \in Files : f # p[1] => SameFile(tree, tree', f)
  BY <1>1, <1>4, DestroyFacts DEF Asked
<1> HIDE DEF p
<1>8. ASSUME NEW f \in Files, Find(tree', <<f>>), disk'[f] # Image(tree', f)
      PROVE  f \in marked' /\ (armed' \/ f \in unopened')
  <2>1. CASE f = p[1]
    <3>1. p \in Keys
      BY <1>1, <1>6, <1>7, <1>8, <2>1
    <3> QED BY <1>4, <1>5, <1>6, <2>1, <3>1
  <2>2. CASE f # p[1]
    <3>1. Find(tree, <<f>>) /\ disk[f] # Image(tree, f)
      BY <1>5, <1>7, <1>8, <2>2 DEF SameFile
    <3> QED BY <1>4, <1>5, <2>2, <3>1 DEF Asked, UnsavedIsScheduled
  <2> QED BY <2>1, <2>2
<1>9. UnsavedIsScheduled'
  BY <1>8 DEF UnsavedIsScheduled
<1>10. C!Effect(call[c], Outcome(a))
  <2>1. Outcome(a) = [ok |-> TRUE, value |-> None]
    BY DEF Outcome, Normal, RET_OK
  <2>2. Mem' = [k \in Keys |-> IF k \in {l \in Keys : l = p \/ <<l[1]>> = p} THEN None ELSE Mem[k]]
    BY <1>7, MemIsMap, MemPrimeIsMap
  <2>3. Mem' = C!Cleared(Mem, p)
    BY <2>2, KeysOfConfig DEF C!Cleared, C!Covered
  <2>4. ~(p \in Keys /\ Mem[p] = None)
    <3>1. p \in Keys => tree[p] \in Values
      BY <1>4 DEF Asked, TreeOK, Find
    <3> QED BY <1>4, <3>1, ClientsAssumption DEF Mem
  <2> QED BY <2>1, <2>3, <2>4, KeysOfConfig DEF C!Effect, C!Ok, C!Refused, p
<1>11. marked' \subseteq Files /\ unopened' \subseteq Files /\ modified' \in BOOLEAN
  BY <1>4, <1>5, <1>6
<1> QED BY <1>2, <1>3, <1>7, <1>9, <1>10, <1>11 DEF Served

(* A request that changes nothing. *)
LEMMA Unmodified ==
    ASSUME NEW c \in Clients, Asked(c), NEW a \in Frame, IsAnswer(a),
           Write(c, NoPushes, a),
           UNCHANGED <<tree, marked, modified, unopened>>
    PROVE  /\ Delivered(c, a)
           /\ TreeOK(tree')
           /\ UnsavedIsScheduled'
           /\ marked' \subseteq Files /\ unopened' \subseteq Files
           /\ modified' \in BOOLEAN
           /\ Mem' = Mem
<1>1. Delivered(c, a)
  <2>1. PushesOK(c, call[c], NoPushes)
    BY DEF PushesOK
  <2> QED BY <2>1, WriteFacts DEF Asked, TypeOK
<1>2. UnsavedIsScheduled'
  <2>1. armed => armed'
    BY DEF Asked, TypeOK
  <2> QED BY <2>1 DEF Asked, UnsavedIsScheduled
<1> QED BY <1>1, <1>2 DEF Asked, TypeOK, Mem

(* A GET serves its call. *)
LEMMA GetServes ==
    ASSUME NEW c \in Clients, Asked(c), call[c].op = "get", Get(c, call[c].path)
    PROVE  Served(c, Normal(RET_OK, tree[call[c].path]))
<1> DEFINE k == call[c].path
           a == Normal(RET_OK, tree[k])
<1>1. k \in Keys /\ Mem[k] # None
  BY CallFacts DEF Asked, Get
<1>2. Mem[k] = tree[k] /\ tree[k] \in Values
  BY <1>1 DEF Mem, Asked, TreeOK, Find
<1>3. a \in Frame /\ IsAnswer(a)
  BY <1>2, AnswerFrame DEF RET_OK
<1>4. Write(c, NoPushes, a) /\ UNCHANGED <<tree, marked, modified, unopened>>
  BY DEF Get
<1>5. Outcome(a) = [ok |-> TRUE, value |-> Mem[k]]
  BY <1>2 DEF Outcome, Normal, RET_OK
<1> HIDE DEF a
<1>6. /\ Delivered(c, a) /\ TreeOK(tree') /\ UnsavedIsScheduled'
      /\ marked' \subseteq Files /\ unopened' \subseteq Files /\ modified' \in BOOLEAN
      /\ Mem' = Mem
  BY <1>3, <1>4, Unmodified
<1>7. C!Effect(call[c], Outcome(a))
  BY <1>1, <1>5, <1>6 DEF C!Effect
<1> QED BY <1>3, <1>6, <1>7 DEF Served, a

(* A refused request serves its call: nothing changes. *)
LEMMA RefuseServes ==
    ASSUME NEW c \in Clients, Asked(c), Refuse(c),
           \/ call[c].op = "remove" /\ ~Find(tree, call[c].path)
           \/ call[c].op = "get" /\ Mem[call[c].path] = None
           \/ call[c].op \in {"lock", "unlock"}
    PROVE  Served(c, Normal(Code(call[c]), None))
<1> DEFINE a == Normal(Code(call[c]), None)
<1>1. /\ call[c].op = "remove" => Code(call[c]) = 2
      /\ call[c].op = "get" => Code(call[c]) = 4
      /\ call[c].op = "lock" => Code(call[c]) = 0
      /\ call[c].op = "unlock" => Code(call[c]) = 1
  BY DEF Code
<1>2. Code(call[c]) \in 0..4
  BY <1>1
<1>3. a \in Frame /\ IsAnswer(a)
  BY <1>2, AnswerFrame
<1>4. Write(c, NoPushes, a) /\ UNCHANGED <<tree, marked, modified, unopened>>
  BY DEF Refuse
<1>5. /\ call[c].op = "lock" => Outcome(a) = C!Ok
      /\ call[c].op \in {"remove", "get", "unlock"} => Outcome(a) = C!Refused
  <2>1. Code(call[c]) = 0 => Outcome(a) = C!Ok
    BY <1>2, OutcomeOf DEF C!Ok
  <2>2. Code(call[c]) # 0 => Outcome(a) = C!Refused
    BY <1>2, OutcomeOf DEF C!Refused
  <2> HIDE DEF a
  <2> QED BY <1>1, <2>1, <2>2
<1> HIDE DEF a
<1>6. /\ Delivered(c, a) /\ TreeOK(tree') /\ UnsavedIsScheduled'
      /\ marked' \subseteq Files /\ unopened' \subseteq Files /\ modified' \in BOOLEAN
      /\ Mem' = Mem
  BY <1>3, <1>4, Unmodified
<1>7. ASSUME call[c].op = "lock"
      PROVE  C!Effect(call[c], Outcome(a))
  <2>1. call[c].op = "lock" /\ Mem' = Mem /\ Outcome(a) = C!Ok
    BY <1>5, <1>6, <1>7
  <2> QED BY <2>1, Zenon DEF C!Effect
<1>8. ASSUME call[c].op = "unlock"
      PROVE  C!Effect(call[c], Outcome(a))
  <2>1. call[c].op = "unlock" /\ Mem' = Mem /\ Outcome(a) = C!Refused
    BY <1>5, <1>6, <1>8
  <2> QED BY <2>1, Zenon DEF C!Effect
<1>9. ASSUME call[c].op = "get" /\ Mem[call[c].path] = None
      PROVE  C!Effect(call[c], Outcome(a))
  <2>1. Outcome(a) = IF Mem[call[c].path] = None THEN C!Refused
                     ELSE [ok |-> TRUE, value |-> Mem[call[c].path]]
    BY <1>5, <1>9
  <2>2. call[c].op = "get" /\ Mem' = Mem
    BY <1>6, <1>9
  <2> QED BY <2>1, <2>2, Zenon DEF C!Effect
<1>10. ASSUME call[c].op = "remove" /\ ~Find(tree, call[c].path)
       PROVE  C!Effect(call[c], Outcome(a))
  <2> DEFINE p == call[c].path
  <2>1. Outcome(a) = C!Refused
    BY <1>5, <1>10
  <2>2. ASSUME NEW k \in Keys, k = p \/ <<k[1]>> = p PROVE Mem[k] = None
    BY <1>10, <2>2 DEF Mem, Asked, TreeOK, Find
  <2> HIDE DEF p
  <2>3. \A k \in C!Covered(p) : Mem[k] = None
    BY <2>2, KeysOfConfig DEF C!Covered
  <2>4. C!Cleared(Mem, p) = Mem
    BY <2>3, KeysOfConfig DEF C!Cleared, Mem
  <2>5. /\ call[c].op = "remove"
        /\ Mem' = C!Cleared(Mem, p)
        /\ Outcome(a) \in {C!Ok, C!Refused}
        /\ (\E k \in C!Covered(p) : Mem[k] # None) => Outcome(a) = C!Ok
        /\ p \in C!Keys /\ Mem[p] = None => Outcome(a) = C!Refused
    BY <1>6, <1>10, <2>1, <2>3, <2>4
  <2> QED BY <2>5, Zenon DEF C!Effect, p
<1>11. C!Effect(call[c], Outcome(a))
  BY <1>7, <1>8, <1>9, <1>10, Zenon
<1> QED BY <1>3, <1>6, <1>11 DEF Served, a

-----------------------------------------------------------------------------
(* The steps of a client.                                                  *)

(* What a stub returns when the connection is gone is an answer. *)
LEMMA FailedFrame == Failed \in Frame
BY AnswerFrame DEF Failed, RET_FAIL

(* Steps that leave the service alone keep its part. *)
LEMMA ServiceKept ==
    ASSUME ServiceOK, UnsavedIsScheduled,
           UNCHANGED <<running, tree, marked, armed, files>>
    PROVE  ServiceOK' /\ UnsavedIsScheduled'
BY DEF ServiceOK, UnsavedIsScheduled, files

(* Steps that leave a client alone keep its part. *)
LEMMA ClientKept ==
    ASSUME NEW d \in Clients, ControlOK(d), StreamOK(d),
           conn'[d] = conn[d], at'[d] = at[d], listener'[d] = listener[d],
           call'[d] = call[d], sent'[d] = sent[d], down'[d] = down[d], ret'[d] = ret[d]
    PROVE  ControlOK(d)' /\ StreamOK(d)'
BY DEF ControlOK, StreamOK

(* fbus_proxy_create keeps the invariant. *)
LEMMA ConnectStep ==
    ASSUME IInv, NEW c \in Clients, Connect(c)
    PROVE  IInv'
<1> USE DEF IInv
<1>1. TypeOK' /\ (ret \in [Clients -> Frame])'
  BY FailedFrame DEF Connect, TypeOK, Connections, Places, service, files
<1>2. ServiceOK' /\ UnsavedIsScheduled'
  BY ServiceKept DEF Connect, service
<1>3. ControlOK(c)' /\ StreamOK(c)'
  <2>1. /\ conn'[c] = "pending" /\ at'[c] = "handler" /\ down'[c] = <<>>
        /\ call'[c] = call[c] /\ sent'[c] = sent[c]
    BY DEF Connect, TypeOK
  <2>2. call[c] = NoCall /\ ~sent[c]
    BY DEF Connect, ControlOK
  <2> QED BY <2>1, <2>2, QuietEmpty DEF ControlOK, StreamOK
<1>4. ASSUME NEW d \in Clients, d # c PROVE ControlOK(d)' /\ StreamOK(d)'
  BY <1>4, ClientKept DEF Connect, TypeOK
<1> QED BY <1>1, <1>2, <1>3, <1>4

(* The end of a pass keeps the invariant. *)
LEMMA NextPassStep ==
    ASSUME IInv, NEW c \in Clients, NextPass(c)
    PROVE  IInv'
<1> USE DEF IInv
<1>1. TypeOK' /\ (ret \in [Clients -> Frame])'
  BY FailedFrame DEF NextPass, TypeOK, Connections, Places, service, files
<1>2. ServiceOK' /\ UnsavedIsScheduled'
  BY ServiceKept DEF NextPass, service
<1>3. ControlOK(c)' /\ StreamOK(c)'
  <2>1. /\ at[c] = "handler" /\ at'[c] \in {"handler", "read"} /\ ret'[c] = Failed
        /\ UNCHANGED <<conn, listener, call, sent, down>>
    BY DEF NextPass, TypeOK
  <2>2. Quiet(down[c])
    BY <2>1 DEF StreamOK
  <2> QED BY <2>1, <2>2 DEF ControlOK, StreamOK
<1>4. ASSUME NEW d \in Clients, d # c PROVE ControlOK(d)' /\ StreamOK(d)'
  BY <1>4, ClientKept DEF NextPass, TypeOK
<1> QED BY <1>1, <1>2, <1>3, <1>4

(* The request of a stub keeps the invariant. *)
LEMMA CallStep ==
    ASSUME IInv, NEW c \in Clients, NEW r \in Requests, Call(c, r)
    PROVE  IInv'
<1> USE DEF IInv
<1>0. r \in Calls /\ r # NoCall
  BY ClientsAssumption
<1>1. TypeOK' /\ (ret \in [Clients -> Frame])'
  BY <1>0, FailedFrame DEF Call, TypeOK, Connections, Places, service, files
<1>2. ServiceOK' /\ UnsavedIsScheduled'
  BY ServiceKept DEF Call, service
<1>3. ControlOK(c)' /\ StreamOK(c)'
  <2>1. /\ at[c] = "handler" /\ at'[c] = "call" /\ ret'[c] = Failed /\ call'[c] = r
        /\ sent'[c] = (conn[c] # "eof")
        /\ UNCHANGED <<conn, listener, down>>
    BY DEF Call, TypeOK
  <2>2. Quiet(down[c])
    BY <2>1 DEF StreamOK
  <2>3. conn[c] \in {"pending", "open", "eof"}
    BY <2>1 DEF ControlOK, TypeOK, Connections
  <2> QED BY <1>0, <2>1, <2>2, <2>3 DEF ControlOK, StreamOK
<1>4. ASSUME NEW d \in Clients, d # c PROVE ControlOK(d)' /\ StreamOK(d)'
  BY <1>4, ClientKept DEF Call, TypeOK
<1> QED BY <1>1, <1>2, <1>3, <1>4

(* A frame that is read keeps the invariant. *)
LEMMA ReceiveStep ==
    ASSUME IInv, NEW c \in Clients, Receive(c)
    PROVE  IInv'
<1> USE DEF IInv
<1> DEFINE s == down[c]
<1>0. s \in Seq(Frame) /\ s # <<>> /\ down'[c] = Tail(s)
  BY DEF Receive, TypeOK
<1> HIDE DEF s
<1>1. TypeOK' /\ (ret \in [Clients -> Frame])'
  <2>1. Tail(s) \in Seq(Frame) /\ Head(s) \in Frame
    BY <1>0, TailFacts
  <2>2. down' \in [Clients -> Seq(Frame)]
    BY <2>1 DEF Receive, TypeOK, s
  <2>3. at' \in [Clients -> Places] /\ call' \in [Clients -> Calls \cup {NoCall}]
    BY DEF Receive, TypeOK, Places
  <2>4. ret' \in [Clients -> Frame]
    BY <2>1 DEF Receive, s
  <2> QED BY <2>2, <2>3, <2>4 DEF Receive, TypeOK, service, files
<1>2. ServiceOK' /\ UnsavedIsScheduled'
  BY ServiceKept DEF Receive, service
<1>3. ControlOK(c)' /\ StreamOK(c)'
  <2>1. /\ at[c] = "call"
        /\ UNCHANGED <<conn, listener, sent>>
    BY DEF Receive, TypeOK
  <2>2. conn[c] \in {"open", "eof"}
    BY <1>0, <2>1 DEF ControlOK, TypeOK, Connections, s
  <2>3. CASE ~IsAnswer(Head(s))
    <3>1. at'[c] = "call" /\ call'[c] = call[c] /\ ret'[c] = ret[c]
      BY <2>1, <2>3 DEF Receive, IsAnswer, s
    <3>2. ControlOK(c)'
      BY <2>1, <2>2, <3>1 DEF ControlOK
    <3>3. StreamOK(c)'
      <4>1. CASE Quiet(s)
        BY <1>0, <4>1, TailFacts DEF StreamOK
      <4>2. CASE /\ ~sent[c] /\ OneCall(s, call[c])
                 /\ conn[c] = "open" => HasAnswer(s)
        <5>1. OneCall(Tail(s), call[c]) /\ (HasAnswer(s) => HasAnswer(Tail(s)))
          BY <1>0, <2>3, <4>2, TailFacts
        <5> QED BY <1>0, <2>1, <3>1, <4>2, <5>1 DEF StreamOK
      <4> QED BY <4>1, <4>2 DEF StreamOK, s
    <3> QED BY <3>2, <3>3
  <2>4. CASE IsAnswer(Head(s))
    <3>1. at'[c] = "handler" /\ call'[c] = NoCall
      BY <2>4 DEF Receive, IsAnswer, TypeOK, s
    <3>2. ~Quiet(s)
      BY <1>0, <2>4, TailFacts DEF Quiet
    <3>3. ~sent[c] /\ OneCall(s, call[c])
      BY <3>2 DEF StreamOK, s
    <3>4. Quiet(Tail(s))
      BY <1>0, <2>4, <3>3, TailFacts
    <3> QED BY <1>0, <2>1, <2>2, <3>1, <3>3, <3>4 DEF ControlOK, StreamOK
  <2> QED BY <2>3, <2>4
<1>4. ASSUME NEW d \in Clients, d # c PROVE ControlOK(d)' /\ StreamOK(d)'
  BY <1>4, ClientKept DEF Receive, TypeOK
<1> QED BY <1>1, <1>2, <1>3, <1>4

(* An end of file that is read keeps the invariant. *)
LEMMA ReceiveEofStep ==
    ASSUME IInv, NEW c \in Clients, ReceiveEof(c)
    PROVE  IInv'
<1> USE DEF IInv
<1>1. TypeOK' /\ (ret \in [Clients -> Frame])'
  BY DEF ReceiveEof, TypeOK, Connections, Places, service, files
<1>2. ServiceOK' /\ UnsavedIsScheduled'
  BY ServiceKept DEF ReceiveEof, service
<1>3. ControlOK(c)' /\ StreamOK(c)'
  <2>1. /\ at[c] = "call" /\ at'[c] = "handler" /\ call'[c] = NoCall
        /\ down[c] = <<>> /\ conn[c] = "eof"
        /\ UNCHANGED <<conn, listener, sent, down, ret>>
    BY DEF ReceiveEof, TypeOK
  <2> QED BY <2>1, QuietEmpty DEF ControlOK, StreamOK
<1>4. ASSUME NEW d \in Clients, d # c PROVE ControlOK(d)' /\ StreamOK(d)'
  BY <1>4, ClientKept DEF ReceiveEof, TypeOK
<1> QED BY <1>1, <1>2, <1>3, <1>4

(* A request that arrives keeps the invariant. *)
LEMMA ReadStep ==
    ASSUME IInv, NEW c \in Clients, Read(c)
    PROVE  IInv'
<1> USE DEF IInv
<1> DEFINE s == down[c]
<1>0. /\ s \in Seq(Frame) /\ s # <<>> /\ down'[c] = Tail(s)
      /\ at[c] = "read" /\ at'[c] = "handler"
      /\ UNCHANGED <<conn, call, sent, ret>>
  BY DEF Read, TypeOK
<1>1. Quiet(s)
  BY <1>0 DEF StreamOK
<1>2. ~IsAnswer(Head(s)) /\ Tail(s) \in Seq(Frame) /\ Quiet(Tail(s))
  BY <1>0, <1>1, TailFacts DEF Quiet
<1>3. listener' = listener
  BY <1>2 DEF Read, IsAnswer
<1> HIDE DEF s
<1>4. TypeOK' /\ (ret \in [Clients -> Frame])'
  BY <1>2, <1>3 DEF Read, TypeOK, Connections, Places, service, files, s
<1>5. ServiceOK' /\ UnsavedIsScheduled'
  BY ServiceKept DEF Read, service
<1>6. ControlOK(c)' /\ StreamOK(c)'
  <2>1. conn[c] \in {"open", "eof"}
    BY <1>0 DEF ControlOK, TypeOK, Connections, s
  <2> QED BY <1>0, <1>2, <1>3, <2>1 DEF ControlOK, StreamOK
<1>7. ASSUME NEW d \in Clients, d # c PROVE ControlOK(d)' /\ StreamOK(d)'
  BY <1>3, <1>7, ClientKept DEF Read, TypeOK
<1> QED BY <1>4, <1>5, <1>6, <1>7

(* An end of file that the service finds keeps the invariant. *)
LEMMA ReadEofStep ==
    ASSUME IInv, NEW c \in Clients, ReadEof(c)
    PROVE  IInv'
<1> USE DEF IInv
<1>1. TypeOK' /\ (ret \in [Clients -> Frame])'
  BY DEF ReadEof, TypeOK, Connections, Places, service, files
<1>2. ServiceOK' /\ UnsavedIsScheduled'
  BY ServiceKept DEF ReadEof, service
<1>3. ControlOK(c)' /\ StreamOK(c)'
  <2>1. /\ at[c] = "read" /\ at'[c] = "handler" /\ listener'[c] = FALSE
        /\ down[c] = <<>> /\ conn[c] = "eof"
        /\ UNCHANGED <<conn, call, sent, down, ret>>
    BY DEF ReadEof, TypeOK
  <2> QED BY <2>1, QuietEmpty DEF ControlOK, StreamOK
<1>4. ASSUME NEW d \in Clients, d # c PROVE ControlOK(d)' /\ StreamOK(d)'
  BY <1>4, ClientKept DEF ReadEof, TypeOK
<1> QED BY <1>1, <1>2, <1>3, <1>4

(* The end of a client keeps the invariant. *)
LEMMA ExitStep ==
    ASSUME IInv, NEW c \in Clients, Exit(c)
    PROVE  IInv'
<1> USE DEF IInv
<1>1. TypeOK' /\ (ret \in [Clients -> Frame])'
  BY FailedFrame DEF Exit, TypeOK, Connections, Places, service, files
<1>2. ServiceOK' /\ UnsavedIsScheduled'
  BY ServiceKept DEF Exit, service
<1>3. ControlOK(c)' /\ StreamOK(c)'
  <2>1. /\ at[c] # "off" /\ at'[c] = "off" /\ listener'[c] = FALSE
        /\ conn'[c] = IF conn[c] \in {"pending", "open"} THEN "half" ELSE "none"
        /\ call'[c] = IF sent[c] THEN call[c] ELSE NoCall
        /\ down'[c] = <<>> /\ ret'[c] = Failed /\ sent'[c] = sent[c]
    BY DEF Exit, TypeOK
  <2>2. sent[c] => conn[c] \in {"pending", "open"} /\ call[c] # NoCall
    BY <2>1 DEF ControlOK
  <2> QED BY <2>1, <2>2, QuietEmpty DEF ControlOK, StreamOK
<1>4. ASSUME NEW d \in Clients, d # c PROVE ControlOK(d)' /\ StreamOK(d)'
  BY <1>4, ClientKept DEF Exit, TypeOK
<1> QED BY <1>1, <1>2, <1>3, <1>4

(* An accept keeps the invariant. *)
LEMMA AcceptStep ==
    ASSUME IInv, NEW c \in Clients, Accept(c)
    PROVE  IInv'
<1> USE DEF IInv
<1>1. TypeOK' /\ (ret \in [Clients -> Frame])'
  BY DEF Accept, TypeOK, Connections, Places, service, files
<1>2. ServiceOK' /\ UnsavedIsScheduled'
  BY ServiceKept DEF Accept
<1>3. ControlOK(c)' /\ StreamOK(c)'
  <2>1. /\ conn[c] = "pending" /\ conn'[c] = "open"
        /\ UNCHANGED <<at, listener, call, sent, down, ret>>
    BY DEF Accept, TypeOK
  <2>2. down[c] = <<>>
    BY <2>1 DEF ControlOK
  <2> QED BY <2>1, <2>2, QuietEmpty DEF ControlOK, StreamOK
<1>4. ASSUME NEW d \in Clients, d # c PROVE ControlOK(d)' /\ StreamOK(d)'
  BY <1>4, ClientKept DEF Accept, TypeOK
<1> QED BY <1>1, <1>2, <1>3, <1>4

(* The end of a connection in the service keeps the invariant. *)
LEMMA DisconnectStep ==
    ASSUME IInv, NEW c \in Clients, Disconnect(c)
    PROVE  IInv'
<1> USE DEF IInv
<1>1. TypeOK' /\ (ret \in [Clients -> Frame])'
  BY DEF Disconnect, TypeOK, Connections, Places, service, files
<1>2. ServiceOK' /\ UnsavedIsScheduled'
  BY ServiceKept DEF Disconnect
<1>3. ControlOK(c)' /\ StreamOK(c)'
  <2>1. /\ conn[c] = "half" /\ conn'[c] = "none" /\ ~sent[c]
        /\ UNCHANGED <<at, listener, call, sent, down, ret>>
    BY DEF Disconnect, TypeOK
  <2> QED BY <2>1, QuietEmpty DEF ControlOK, StreamOK
<1>4. ASSUME NEW d \in Clients, d # c PROVE ControlOK(d)' /\ StreamOK(d)'
  BY <1>4, ClientKept DEF Disconnect, TypeOK
<1> QED BY <1>1, <1>2, <1>3, <1>4


-----------------------------------------------------------------------------
(* The steps of the service.                                               *)

(* Whatever is asked, serving it delivers one answer. *)
LEMMA ServeAnswers ==
    ASSUME IInv, NEW c \in Clients, Serve(c)
    PROVE  \E a : Served(c, a)
<1>1. Asked(c)
  <2>1. sent[c] /\ call[c] # NoCall /\ Quiet(down[c])
    BY DEF IInv, Serve, ControlOK, StreamOK
  <2>2. call[c] \in Calls
    BY <2>1 DEF IInv, TypeOK
  <2> QED BY <2>1, <2>2 DEF Asked, IInv, ServiceOK, Serve
<1>2. CASE call[c].op = "set" /\ Set(c, call[c].path, call[c].value)
  BY <1>1, <1>2, SetServes
<1>3. CASE call[c].op = "remove" /\ Remove(c, call[c].path)
  BY <1>1, <1>3, RemoveServes
<1>4. CASE call[c].op = "get" /\ Get(c, call[c].path)
  BY <1>1, <1>4, GetServes
<1>5. CASE /\ \/ call[c].op = "remove" /\ ~Find(tree, call[c].path)
              \/ call[c].op = "get" /\ Mem[call[c].path] = None
              \/ call[c].op \in {"lock", "unlock"}
           /\ Refuse(c)
  BY <1>1, <1>5, RefuseServes
<1> QED BY <1>2, <1>3, <1>4, <1>5 DEF Serve

(* fconf_service_handle_request keeps the invariant. *)
LEMMA ServeStep ==
    ASSUME IInv, NEW c \in Clients, Serve(c)
    PROVE  IInv'
<1>1. PICK a : Served(c, a)
  BY ServeAnswers
<1>2. /\ running /\ conn[c] \in {"open", "half"} /\ sent[c]
      /\ armed' = (armed \/ modified')
      /\ sent' = [sent EXCEPT ![c] = FALSE]
      /\ call' = IF conn[c] = "half" THEN [call EXCEPT ![c] = NoCall] ELSE call
      /\ UNCHANGED <<running, slots, disk, crashes, conn, at, ready, listener, ret>>
  BY DEF Serve
<1>3. TypeOK /\ ret \in [Clients -> Frame] /\ ServiceOK
  BY DEF IInv
<1>4. TypeOK' /\ (ret \in [Clients -> Frame])'
  <2>1. call' \in [Clients -> Calls \cup {NoCall}]
    BY <1>2, <1>3 DEF TypeOK
  <2>2. sent' \in [Clients -> BOOLEAN]
    BY <1>2, <1>3 DEF TypeOK
  <2>3. armed' \in BOOLEAN
    BY <1>2
  <2>4. /\ down' \in [Clients -> Seq(Frame)] /\ marked' \subseteq Files
        /\ unopened' \subseteq Files /\ modified' \in BOOLEAN
    BY <1>1 DEF Served, Delivered
  <2> QED BY <1>2, <1>3, <2>1, <2>2, <2>3, <2>4 DEF TypeOK
<1>5. ServiceOK' /\ UnsavedIsScheduled'
  BY <1>1, <1>2, <1>3 DEF Served, ServiceOK
<1>6. ASSUME NEW d \in Clients PROVE ControlOK(d)' /\ StreamOK(d)'
  <2>1. ControlOK(d) /\ StreamOK(d)
    BY DEF IInv
  <2>2. conn[d] # "open" => down'[d] = down[d]
    BY <1>1 DEF Served, Delivered
  <2>3. CASE d # c
    <3>1. /\ sent'[d] = sent[d] /\ call'[d] = call[d]
          /\ UNCHANGED <<conn, at, listener, ret>>
      BY <1>2, <1>3, <2>3 DEF TypeOK
    <3>2. Extended(down[d], down'[d])
      BY <1>1, <2>3 DEF Served, Delivered
    <3>3. ControlOK(d)'
      BY <2>1, <2>2, <3>1 DEF ControlOK
    <3>4. StreamOK(d)'
      BY <2>1, <3>1, <3>2 DEF StreamOK, Extended
    <3> QED BY <3>3, <3>4
  <2>4. CASE d = c /\ conn[c] = "open"
    <3>1. /\ sent'[c] = FALSE /\ call'[c] = call[c] /\ at[c] = "call"
          /\ UNCHANGED <<conn, at, listener, ret>>
      BY <1>2, <1>3, <2>1, <2>4 DEF TypeOK, ControlOK
    <3>2. OneCall(down'[c], call[c]) /\ HasAnswer(down'[c])
      BY <1>1, <2>4 DEF Served, Delivered
    <3>3. ControlOK(c)'
      BY <2>1, <2>4, <3>1 DEF ControlOK
    <3>4. StreamOK(c)'
      BY <3>1, <3>2 DEF StreamOK
    <3> QED BY <2>4, <3>3, <3>4
  <2>5. CASE d = c /\ conn[c] = "half"
    <3>1. /\ sent'[c] = FALSE /\ call'[c] = NoCall /\ at[c] = "off"
          /\ UNCHANGED <<conn, at, listener, ret>>
      BY <1>2, <1>3, <2>1, <2>5 DEF TypeOK, ControlOK
    <3>2. down'[c] = <<>>
      BY <2>1, <2>2, <2>5 DEF ControlOK
    <3> QED BY <2>1, <2>5, <3>1, <3>2, QuietEmpty DEF ControlOK, StreamOK
  <2> QED BY <1>2, <2>3, <2>4, <2>5
<1> QED BY <1>4, <1>5, <1>6 DEF IInv

(* The timer that saves keeps the invariant. *)
LEMMA SaveStep ==
    ASSUME IInv, Save
    PROVE  IInv'
<1>1. TypeOK /\ ret \in [Clients -> Frame] /\ ServiceOK /\ UnsavedIsScheduled
  BY DEF IInv
<1>2. running /\ armed' = FALSE /\ UNCHANGED <<running, tree, slots, crashes, client>>
  BY DEF Save
<1>3. TypeOK' /\ (ret \in [Clients -> Frame])' /\ ServiceOK' /\ UnsavedIsScheduled'
  <2>1. CASE tree = EmptyTree /\ UNCHANGED <<marked, modified, files>>
    <3>1. \A f \in Files : ~Find(tree, <<f>>)
      BY <2>1 DEF EmptyTree, Find
    <3>2. UnsavedIsScheduled'
      BY <1>2, <3>1 DEF UnsavedIsScheduled
    <3> QED BY <1>1, <1>2, <2>1, <3>2 DEF TypeOK, ServiceOK, client, files
  <2>2. CASE /\ \E opened \in SUBSET marked :
                    /\ disk' = Saved(opened)
                    /\ marked' = marked \ opened
                    /\ unopened' = marked'
             /\ modified' = FALSE
    <3>1. PICK opened \in SUBSET marked :
                    /\ disk' = Saved(opened)
                    /\ marked' = marked \ opened
                    /\ unopened' = marked'
      BY <2>2
    <3>2. DiskOK(disk')
      BY <1>1, <3>1 DEF Saved, DiskOK, ServiceOK, TreeOK, Image, Below
    <3>3. ASSUME NEW f \in Files, Find(tree', <<f>>), disk'[f] # Image(tree', f)
          PROVE  f \in marked' /\ f \in unopened'
      <4>1. tree' = tree
        BY <1>2
      <4>2. f \notin opened /\ disk'[f] = disk[f]
        BY <3>1, <3>3, <4>1 DEF Saved
      <4>3. f \in marked
        BY <1>1, <3>3, <4>1, <4>2 DEF UnsavedIsScheduled
      <4> QED BY <3>1, <4>2, <4>3
    <3>4. UnsavedIsScheduled'
      BY <3>3 DEF UnsavedIsScheduled
    <3>5. marked' \subseteq Files /\ unopened' \subseteq Files
      BY <1>1, <3>1 DEF TypeOK
    <3> QED BY <1>1, <1>2, <2>2, <3>2, <3>4, <3>5 DEF TypeOK, ServiceOK, client
  <2> QED BY <2>1, <2>2 DEF Save
<1>4. ASSUME NEW d \in Clients PROVE ControlOK(d)' /\ StreamOK(d)'
  BY <1>2, ClientKept DEF IInv, client
<1> QED BY <1>3, <1>4 DEF IInv

(* What is left of a client when the service dies. *)
LEMMA DieFacts ==
    ASSUME IInv, Die, NEW d \in Clients
    PROVE  /\ conn'[d] = CASE conn[d] \in {"pending", "open"} -> "eof"
                           [] conn[d] = "half" -> "none"
                           [] OTHER -> conn[d]
           /\ call'[d] = IF conn[d] = "half" THEN NoCall ELSE call[d]
           /\ sent'[d] = FALSE
           /\ \E n \in Nat : n <= Len(down[d]) /\ down'[d] = SubSeq(down[d], 1, n)
           /\ UNCHANGED <<at, ready, listener, ret>>
BY DEF Die

(* The death of the service keeps the invariant. *)
LEMMA DieStep ==
    ASSUME IInv, Die, DiskOK(disk')
    PROVE  IInv'
<1>1. TypeOK /\ ret \in [Clients -> Frame]
  BY DEF IInv
<1>2. TypeOK' /\ (ret \in [Clients -> Frame])'
  <2>1. crashes' \in 0..MaxCrashes
    BY <1>1, ClientsAssumption DEF Die, TypeOK
  <2>2. conn' \in [Clients -> Connections]
    BY <1>1 DEF Die, TypeOK, Connections
  <2>3. call' \in [Clients -> Calls \cup {NoCall}]
    BY <1>1 DEF Die, TypeOK
  <2>4. sent' \in [Clients -> BOOLEAN]
    BY DEF Die
  <2>5. ASSUME NEW d \in Clients PROVE down'[d] \in Seq(Frame)
    <3>1. PICK n \in Nat : n <= Len(down[d]) /\ down'[d] = SubSeq(down[d], 1, n)
      BY DieFacts
    <3>2. down[d] \in Seq(Frame)
      BY <1>1 DEF TypeOK
    <3> QED BY <3>1, <3>2, PrefixFacts
  <2>6. down' \in [Clients -> Seq(Frame)]
    BY <2>5 DEF Die
  <2> QED BY <1>1, <2>1, <2>2, <2>3, <2>4, <2>6 DEF Die, TypeOK
<1>3. ServiceOK' /\ UnsavedIsScheduled'
  <2>1. tree' = EmptyTree /\ running' = FALSE
    BY DEF Die
  <2>2. TreeOK(EmptyTree) /\ \A f \in Files : ~Find(EmptyTree, <<f>>)
    BY DEF TreeOK, EmptyTree, Find
  <2> QED BY <2>1, <2>2 DEF ServiceOK, UnsavedIsScheduled
<1>4. ASSUME NEW d \in Clients PROVE ControlOK(d)' /\ StreamOK(d)'
  <2>1. /\ conn'[d] = CASE conn[d] \in {"pending", "open"} -> "eof"
                        [] conn[d] = "half" -> "none"
                        [] OTHER -> conn[d]
        /\ call'[d] = IF conn[d] = "half" THEN NoCall ELSE call[d]
        /\ sent'[d] = FALSE
        /\ UNCHANGED <<at, listener, ret>>
    BY DieFacts
  <2>2. PICK n \in Nat : n <= Len(down[d]) /\ down'[d] = SubSeq(down[d], 1, n)
    BY DieFacts
  <2>3. down[d] \in Seq(Frame) /\ ControlOK(d) /\ StreamOK(d)
    BY <1>1 DEF TypeOK, IInv
  <2>4. /\ Quiet(down[d]) => Quiet(down'[d])
        /\ OneCall(down[d], call[d]) => OneCall(down'[d], call[d])
    BY <2>2, <2>3, PrefixFacts
  <2>5. down[d] = <<>> => down'[d] = <<>>
    <3>1. Len(<<>>) = 0 /\ SubSeq(<<>>, 1, 0) = <<>>
      BY EmptySeq, SubSeqEmpty
    <3> QED BY <2>2, <3>1
  <2>6. conn[d] \in Connections
    BY <1>1 DEF TypeOK
  <2>7. ControlOK(d)'
    BY <2>1, <2>3, <2>5, <2>6 DEF ControlOK, Connections
  <2>8. StreamOK(d)'
    <3>1. CASE Quiet(down[d])
      BY <2>4, <3>1 DEF StreamOK
    <3>2. CASE at[d] = "call" /\ OneCall(down[d], call[d])
      <4>1. conn[d] \in {"pending", "open", "eof"}
        BY <2>3, <2>6, <3>2 DEF ControlOK, Connections
      <4>2. conn'[d] = "eof" /\ call'[d] = call[d]
        BY <2>1, <4>1
      <4> QED BY <2>1, <2>4, <3>2, <4>2 DEF StreamOK
    <3> QED BY <2>3, <3>1, <3>2 DEF StreamOK
  <2> QED BY <2>7, <2>8
<1> QED BY <1>2, <1>3, <1>4 DEF IInv

(* A crash keeps the invariant. *)
LEMMA CrashStep ==
    ASSUME IInv, Crash
    PROVE  IInv'
BY DieStep DEF Crash, IInv, ServiceOK

(* A crash within a save keeps the invariant. *)
LEMMA CrashInSaveStep ==
    ASSUME IInv, CrashInSave
    PROVE  IInv'
<1>0. PICK opened \in SUBSET marked : \E f \in marked \ opened :
        \E part \in Torn(Image(tree, f)) : disk' = [Saved(opened) EXCEPT ![f] = part]
  BY DEF CrashInSave
<1>1. PICK f \in marked \ opened :
        \E part \in Torn(Image(tree, f)) : disk' = [Saved(opened) EXCEPT ![f] = part]
  BY <1>0
<1>2. PICK part \in Torn(Image(tree, f)) : disk' = [Saved(opened) EXCEPT ![f] = part]
  BY <1>1
<1>3. DOMAIN tree \subseteq Seq(Nodes) /\ DiskOK(disk)
  BY DEF IInv, ServiceOK, TreeOK
<1>4. \A g \in Files : DOMAIN Image(tree, g) \subseteq Seq(Nodes)
  BY <1>3 DEF Image, Below
<1>5. DOMAIN part \subseteq DOMAIN Image(tree, f)
  BY <1>2 DEF Torn
<1>6. f \in Files
  BY <1>1 DEF IInv, TypeOK
<1>7. DiskOK(Saved(opened))
  BY <1>3, <1>4 DEF Saved, DiskOK
<1>8. DiskOK(disk')
  BY <1>2, <1>4, <1>5, <1>6, <1>7 DEF DiskOK
<1> QED BY <1>8, DieStep DEF CrashInSave

(* A restart keeps the invariant. *)
LEMMA StartStep ==
    ASSUME IInv, Start
    PROVE  IInv'
<1>1. /\ running' = TRUE /\ tree' = Load(disk)
      /\ UNCHANGED <<marked, modified, armed, slots, files, crashes, client>>
  BY DEF Start
<1>2. TypeOK' /\ (ret \in [Clients -> Frame])'
  BY <1>1 DEF IInv, TypeOK, files, client
<1>3. ServiceOK' /\ UnsavedIsScheduled'
  <2>1. TreeOK(tree') /\ \A f \in Files : ~Find(tree', <<f>>)
    BY <1>1, LoadFacts DEF IInv, ServiceOK
  <2> QED BY <1>1, <2>1 DEF IInv, ServiceOK, UnsavedIsScheduled, files
<1>4. ASSUME NEW d \in Clients PROVE ControlOK(d)' /\ StreamOK(d)'
  BY <1>1, ClientKept DEF IInv, client
<1> QED BY <1>2, <1>3, <1>4 DEF IInv

(* The invariant holds at first. *)
LEMMA InitIInv ==
    ASSUME Init
    PROVE  IInv
<1> USE DEF Init
<1>1. TypeOK /\ ret \in [Clients -> Frame]
  <2>1. down \in [Clients -> Seq(Frame)]
    <3>1. <<>> \in Seq(Frame)
      BY EmptySeq
    <3> QED BY <3>1
  <2>2. crashes \in 0..MaxCrashes
    BY ClientsAssumption
  <2>3. conn \in [Clients -> Connections] /\ at \in [Clients -> Places]
    BY DEF Connections, Places
  <2>4. ret \in [Clients -> Frame]
    BY FailedFrame
  <2> QED BY <2>1, <2>2, <2>3, <2>4 DEF TypeOK
<1>2. ServiceOK /\ UnsavedIsScheduled
  <2>1. DOMAIN EmptyTree = {}
    BY DEF EmptyTree
  <2> QED BY <2>1 DEF ServiceOK, UnsavedIsScheduled, TreeOK, DiskOK, Find
<1>3. \A d \in Clients : ControlOK(d) /\ StreamOK(d)
  BY QuietEmpty DEF ControlOK, StreamOK
<1> QED BY <1>1, <1>2, <1>3 DEF IInv

(* It holds when nothing changes. *)
LEMMA StutterStep ==
    ASSUME IInv, UNCHANGED vars
    PROVE  IInv'
<1>1. TypeOK' /\ (ret \in [Clients -> Frame])'
  BY DEF IInv, vars, service, files, client, TypeOK
<1>2. ServiceOK' /\ UnsavedIsScheduled'
  BY ServiceKept DEF IInv, vars, service
<1>3. ASSUME NEW d \in Clients PROVE ControlOK(d)' /\ StreamOK(d)'
  BY ClientKept DEF IInv, vars, client
<1> QED BY <1>1, <1>2, <1>3 DEF IInv

(* Every step keeps the invariant. *)
LEMMA IInvStep ==
    ASSUME IInv, [Next]_vars
    PROVE  IInv'
BY ConnectStep, NextPassStep, CallStep, ReceiveStep, ReceiveEofStep, ReadStep, ReadEofStep,
   ExitStep, AcceptStep, ServeStep, DisconnectStep, SaveStep, CrashStep, CrashInSaveStep,
   StartStep, StutterStep DEF Next

(* The invariant holds in every behaviour. *)
LEMMA Invariance == Spec => []IInv
<1>1. Init => IInv
  BY InitIInv
<1>2. IInv /\ [Next]_vars => IInv'
  BY IInvStep
<1> QED BY <1>1, <1>2, PTL DEF Spec


-----------------------------------------------------------------------------
(* What holds of every behaviour.                                          *)

(* The streams hold frames, and the state of each process has its type. *)
THEOREM FConfTypes == Spec => []TypeOK
BY Invariance, PTL DEF IInv

(* A client is only ever sent the one answer that it waits for. *)
THEOREM AnswersAwaited == Spec => []AnswerIsAwaited
<1>1. IInv => AnswerIsAwaited
  BY DEF IInv, StreamOK, Quiet, OneCall, AnswerIsAwaited
<1> QED BY <1>1, Invariance, PTL

(* A client hears of its own change in the call that makes it. *)
THEOREM OwnChangesInCalls == Spec => []OwnChangeInCall
<1>1. ASSUME IInv PROVE OwnChangeInCall
  <2>1. ASSUME NEW c \in Clients, NEW i \in DOMAIN down[c], Own(down[c][i])
        PROVE  /\ at[c] = "call"
               /\ call[c].op \in {"set", "remove"} /\ call[c].path = down[c][i].path
               /\ conn[c] = "open" =>
                    \E j \in DOMAIN down[c] : j > i /\ IsAnswer(down[c][j])
    <3>1. /\ at[c] = "call"
          /\ OneCall(down[c], call[c])
          /\ conn[c] = "open" => HasAnswer(down[c])
      BY <1>1, <2>1 DEF IInv, StreamOK, Quiet
    <3>2. \A j \in DOMAIN down[c] : j \in Nat
      BY <1>1, LenProperties DEF IInv, TypeOK
    <3>3. ASSUME NEW j \in DOMAIN down[c], IsAnswer(down[c][j]) PROVE j > i
      BY <2>1, <3>1, <3>2, <3>3 DEF OneCall
    <3> QED BY <2>1, <3>1, <3>3 DEF OneCall, HasAnswer
  <2> QED BY <2>1 DEF OwnChangeInCall, Own
<1> QED BY <1>1, Invariance, PTL

(* What a file lacks is marked, and will be saved or could not be. *)
THEOREM UnsavedScheduled == Spec => []UnsavedIsScheduled
BY Invariance, PTL DEF IInv

(* A source of a proxy goes only with the service or with the client. *)
THEOREM ListenersSurvive == Spec => ListenerSurvives
<1> DEFINE A == \A c \in Clients :
                    (listener[c] /\ ~listener'[c]) => conn[c] = "eof" \/ at'[c] = "off"
<1>1. ASSUME IInv, [Next]_vars PROVE [A]_vars
  <2>1. ASSUME NEW c \in Clients, Connect(c) PROVE A
    BY <1>1, <2>1 DEF IInv, TypeOK, ControlOK, Connect
  <2>2. ASSUME NEW c \in Clients, NextPass(c) PROVE A
    BY <2>2 DEF NextPass
  <2>3. ASSUME NEW c \in Clients, NEW r \in Requests, Call(c, r) PROVE A
    BY <2>3 DEF Call
  <2>4. ASSUME NEW c \in Clients, Receive(c) \/ ReceiveEof(c) PROVE A
    BY <2>4 DEF Receive, ReceiveEof
  <2>5. ASSUME NEW c \in Clients, Read(c) PROVE A
    <3>1. down[c] \in Seq(Frame) /\ down[c] # <<>> /\ Quiet(down[c])
      BY <1>1, <2>5 DEF IInv, TypeOK, StreamOK, Read
    <3>2. ~IsAnswer(Head(down[c]))
      BY <3>1, TailFacts DEF Quiet
    <3> QED BY <2>5, <3>2 DEF Read, IsAnswer
  <2>6. ASSUME NEW c \in Clients, ReadEof(c) PROVE A
    BY <1>1, <2>6 DEF IInv, TypeOK, ReadEof
  <2>7. ASSUME NEW c \in Clients, Exit(c) PROVE A
    BY <1>1, <2>7 DEF IInv, TypeOK, Exit
  <2>8. ASSUME NEW c \in Clients, Accept(c) \/ Serve(c) \/ Disconnect(c) PROVE A
    BY <2>8 DEF Accept, Serve, Disconnect
  <2>9. ASSUME Save \/ Crash \/ CrashInSave \/ Start PROVE A
    BY <2>9 DEF Save, Crash, CrashInSave, Die, Start, client
  <2> QED BY <1>1, <2>1, <2>2, <2>3, <2>4, <2>5, <2>6, <2>7, <2>8, <2>9 DEF Next
<1> QED BY <1>1, Invariance, PTL DEF Spec, ListenerSurvives

-----------------------------------------------------------------------------
(* What the frames of a stream do to the map of their reader. After is a   *)
(* recursive function: that it goes on frame by frame is shown by taking   *)
(* the least number where it would not.                                    *)

(* A set of numbers that is not empty has a least one. *)
LEMMA LeastNumber ==
    ASSUME NEW T, T \subseteq Nat, T # {}
    PROVE  \E x \in T : \A y \in T : x <= y
<1> DEFINE R == {ss \in Nat \X Nat : ss[1] < ss[2]}
<1>1. IsWellFoundedOn(R, Nat)
  BY NatLessThanWellFounded DEF OpToRel
<1>2. \A x, y \in Nat : x < y => <<x, y>> \in R
  OBVIOUS
<1> HIDE DEF R
<1>3. PICK x \in T : \A y \in T : ~(<<y, x>> \in R)
  BY <1>1, WFMin
<1>4. \A y \in T : ~(y < x)
  BY <1>2, <1>3
<1> QED BY <1>4

(* What one frame does to the map of its reader. *)
OneChange(m, frame) == IF IsAnswer(frame) THEN m ELSE Changed(m, frame)

(* g[i] is the map m after the first i frames, up to the n-th. *)
IsRun(g, m, frames, n) ==
    g = [i \in 0..n |-> IF i = 0 THEN m ELSE OneChange(g[i - 1], frames[i])]

(* Such a function exists. *)
LEMMA RunExists ==
    ASSUME NEW m, NEW frames, NEW n \in Nat
    PROVE  \E g : IsRun(g, m, frames, n)
<1> DEFINE T == {k \in Nat : ~\E g : IsRun(g, m, frames, k)}
<1> SUFFICES ASSUME T # {} PROVE FALSE
  OBVIOUS
<1>1. PICK x \in T : \A y \in T : x <= y
  BY LeastNumber
<1>2. x # 0
  <2> DEFINE g == [i \in 0..0 |-> m]
  <2>1. IsRun(g, m, frames, 0)
    BY DEF IsRun
  <2> HIDE DEF g
  <2> QED BY <2>1
<1>3. x \in Nat /\ x - 1 \in Nat
  BY <1>2
<1>4. PICK g : IsRun(g, m, frames, x - 1)
  BY <1>1, <1>3
<1> DEFINE h == [i \in 0..x |-> IF i = x THEN OneChange(g[x - 1], frames[x]) ELSE g[i]]
<1>5. \A i \in 0..x : i # x => i \in 0..(x - 1)
  BY <1>3
<1>6. \A i \in 0..(x - 1) : g[i] = IF i = 0 THEN m ELSE OneChange(g[i - 1], frames[i])
  BY <1>4 DEF IsRun
<1>7. ASSUME NEW i \in 0..x
      PROVE  h[i] = IF i = 0 THEN m ELSE OneChange(h[i - 1], frames[i])
  <2>1. CASE i = 0
    BY <1>2, <1>3, <1>6, <2>1
  <2>2. CASE i # 0
    <3>1. i - 1 \in 0..x /\ i - 1 # x /\ i \in Nat
      BY <1>3, <2>2
    <3>2. h[i - 1] = g[i - 1]
      BY <3>1
    <3>3. i = x \/ i \in 0..(x - 1)
      BY <1>5
    <3> QED BY <1>6, <2>2, <3>2, <3>3
  <2> QED BY <2>1, <2>2
<1>8. h = [i \in 0..x |-> h[i]]
  OBVIOUS
<1> HIDE DEF h
<1>9. IsRun(h, m, frames, x)
  BY <1>7, <1>8 DEF IsRun
<1> QED BY <1>9

(* After is the last map of the run over all the frames. *)
LEMMA AfterIsRun ==
    ASSUME NEW m, NEW frames, Len(frames) \in Nat
    PROVE  \E g : IsRun(g, m, frames, Len(frames)) /\ After(m, frames) = g[Len(frames)]
<1> DEFINE P(g) == g = [n \in 0..Len(frames) |->
            IF n = 0 THEN m
            ELSE IF IsAnswer(frames[n]) THEN g[n - 1]
            ELSE Changed(g[n - 1], frames[n])]
           upto == CHOOSE g : P(g)
<1>1. \A g : IsRun(g, m, frames, Len(frames)) <=> P(g)
  BY DEF IsRun, OneChange
<1>2. \E g : P(g)
  BY <1>1, RunExists
<1>3. P(upto)
  BY <1>2
<1>4. After(m, frames) = upto[Len(frames)]
  BY DEF After
<1> HIDE DEF upto
<1>5. IsRun(upto, m, frames, Len(frames))
  BY <1>1, <1>3
<1> QED BY <1>4, <1>5

(* Where g is at a + i, h is at i. *)
Agree(g, h, a, i) == g[a + i] = h[i]

(* Two functions that agree at the start and go on alike agree. *)
LEMMA StepsAgree ==
    ASSUME NEW g, NEW h, NEW n \in Nat, NEW a \in Nat,
           Agree(g, h, a, 0),
           \A i \in 1..n : Agree(g, h, a, i - 1) => Agree(g, h, a, i)
    PROVE  \A i \in 0..n : Agree(g, h, a, i)
<1> DEFINE T == {i \in 0..n : ~Agree(g, h, a, i)}
<1> SUFFICES ASSUME T # {} PROVE FALSE
  OBVIOUS
<1>0. T \subseteq Nat
  OBVIOUS
<1>1. PICK x \in T : \A y \in T : x <= y
  <2> HIDE DEF T
  <2> QED BY <1>0, LeastNumber
<1>2. x # 0
  BY <1>1
<1>3. x \in 1..n /\ x - 1 \in 0..n /\ ~(x <= x - 1)
  BY <1>2
<1>4. Agree(g, h, a, x - 1)
  BY <1>1, <1>3
<1> QED BY <1>3, <1>4

(* Nothing to read changes nothing. *)
LEMMA AfterNone ==
    ASSUME NEW m
    PROVE  After(m, <<>>) = m
<1>1. Len(<<>>) = 0
  OBVIOUS
<1>2. PICK g : IsRun(g, m, <<>>, Len(<<>>)) /\ After(m, <<>>) = g[Len(<<>>)]
  BY <1>1, AfterIsRun
<1> QED BY <1>1, <1>2 DEF IsRun

(* One frame. *)
LEMMA AfterOne ==
    ASSUME NEW m, NEW x
    PROVE  After(m, <<x>>) = OneChange(m, x)
<1> DEFINE s == <<x>>
<1>1. Len(s) = 1 /\ s[1] = x
  OBVIOUS
<1> HIDE DEF s
<1>2. PICK g : IsRun(g, m, s, Len(s)) /\ After(m, s) = g[Len(s)]
  BY <1>1, AfterIsRun
<1>3. g[0] = m /\ g[1] = OneChange(g[0], s[1])
  BY <1>1, <1>2 DEF IsRun
<1> QED BY <1>1, <1>2, <1>3 DEF s

(* To read two streams is to read the one, and then the other. *)
LEMMA AfterBoth ==
    ASSUME NEW m, NEW s \in Seq(Frame), NEW t \in Seq(Frame)
    PROVE  After(m, s \o t) = After(After(m, s), t)
<1> DEFINE u == s \o t
<1>1. /\ Len(s) \in Nat /\ Len(t) \in Nat
      /\ Len(u) \in Nat /\ Len(u) = Len(s) + Len(t)
      /\ \A i \in 1..Len(s) : u[i] = s[i]
      /\ \A i \in 1..Len(t) : u[Len(s) + i] = t[i]
  BY LenProperties
<1> HIDE DEF u
<1>2. PICK g : IsRun(g, m, u, Len(u)) /\ After(m, u) = g[Len(u)]
  BY <1>1, AfterIsRun
<1>3. PICK g1 : IsRun(g1, m, s, Len(s)) /\ After(m, s) = g1[Len(s)]
  BY <1>1, AfterIsRun
<1>4. PICK g2 : IsRun(g2, After(m, s), t, Len(t)) /\ After(After(m, s), t) = g2[Len(t)]
  BY <1>1, AfterIsRun
<1>5. \A i \in 0..Len(u) : g[i] = IF i = 0 THEN m ELSE OneChange(g[i - 1], u[i])
  BY <1>2 DEF IsRun
<1>6. \A i \in 0..Len(s) : g1[i] = IF i = 0 THEN m ELSE OneChange(g1[i - 1], s[i])
  BY <1>3 DEF IsRun
<1>7. \A i \in 0..Len(t) : g2[i] = IF i = 0 THEN After(m, s) ELSE OneChange(g2[i - 1], t[i])
  BY <1>4 DEF IsRun
<1>8. \A i \in 0..Len(s) : Agree(g, g1, 0, i)
  <2>1. Agree(g, g1, 0, 0)
    BY <1>1, <1>5, <1>6 DEF Agree
  <2>2. ASSUME NEW i \in 1..Len(s), Agree(g, g1, 0, i - 1)
        PROVE  Agree(g, g1, 0, i)
    <3>1. i \in 0..Len(u) /\ i \in 0..Len(s) /\ i # 0 /\ 0 + i = i /\ 0 + (i - 1) = i - 1
      BY <1>1
    <3>2. u[i] = s[i]
      BY <1>1
    <3>3. g[i - 1] = g1[i - 1]
      BY <2>2, <3>1 DEF Agree
    <3>4. g[i] = g1[i]
      BY <1>5, <1>6, <3>1, <3>2, <3>3
    <3> QED BY <3>1, <3>4 DEF Agree
  <2>3. \A i \in 1..Len(s) : Agree(g, g1, 0, i - 1) => Agree(g, g1, 0, i)
    BY <2>2
  <2> QED BY <1>1, <2>1, <2>3, StepsAgree
<1>9. g[Len(s)] = After(m, s)
  BY <1>1, <1>3, <1>8 DEF Agree
<1>10. \A i \in 0..Len(t) : Agree(g, g2, Len(s), i)
  <2>1. Agree(g, g2, Len(s), 0)
    BY <1>1, <1>7, <1>9 DEF Agree
  <2>2. ASSUME NEW i \in 1..Len(t), Agree(g, g2, Len(s), i - 1)
        PROVE  Agree(g, g2, Len(s), i)
    <3>1. /\ Len(s) + i \in 0..Len(u) /\ i \in 0..Len(t) /\ i # 0 /\ Len(s) + i # 0
          /\ Len(s) + (i - 1) = Len(s) + i - 1
      BY <1>1
    <3>2. u[Len(s) + i] = t[i]
      BY <1>1
    <3>3. g[Len(s) + i - 1] = g2[i - 1]
      BY <2>2, <3>1 DEF Agree
    <3>4. g[Len(s) + i] = g2[i]
      BY <1>5, <1>7, <3>1, <3>2, <3>3
    <3> QED BY <3>4 DEF Agree
  <2>3. \A i \in 1..Len(t) : Agree(g, g2, Len(s), i - 1) => Agree(g, g2, Len(s), i)
    BY <2>2
  <2> QED BY <1>1, <2>1, <2>3, StepsAgree
<1> QED BY <1>1, <1>2, <1>4, <1>10 DEF u, Agree

-----------------------------------------------------------------------------
(* The copies that clients keep.                                           *)

(* What serving writes to a client with a slot, read from the map m on. *)
LEMMA FramesChange ==
    ASSUME NEW c \in Clients, NEW d \in slots, conn[d] = "open",
           NEW pushes, NEW a \in Frame, IsAnswer(a), NEW m
    PROVE  /\ pushes[d] = <<>> =>
                /\ Frames(c, d, pushes, a) \in Seq(Frame)
                /\ After(m, Frames(c, d, pushes, a)) = m
           /\ \A p \in Frame : ~IsAnswer(p) /\ pushes[d] = <<p>> =>
                /\ Frames(c, d, pushes, a) \in Seq(Frame)
                /\ After(m, Frames(c, d, pushes, a)) = Changed(m, p)
<1> DEFINE answer == IF d = c THEN <<a>> ELSE <<>>
<1>1. Frames(c, d, pushes, a) = pushes[d] \o answer
  BY DEF Frames
<1>2. answer \in Seq(Frame) /\ \A n : After(n, answer) = n
  <2>1. <<a>> \in Seq(Frame) /\ <<>> \in Seq(Frame)
    OBVIOUS
  <2>2. \A n : After(n, <<a>>) = n
    BY AfterOne DEF OneChange
  <2>3. answer = <<a>> \/ answer = <<>>
    OBVIOUS
  <2> HIDE DEF answer
  <2> QED BY <2>1, <2>2, <2>3, AfterNone
<1> HIDE DEF answer
<1>3. ASSUME NEW s \in Seq(Frame), pushes[d] = s
      PROVE  /\ Frames(c, d, pushes, a) \in Seq(Frame)
             /\ After(m, Frames(c, d, pushes, a)) = After(m, s)
  BY <1>1, <1>2, <1>3, AfterBoth, AppendFacts
<1>4. ASSUME pushes[d] = <<>>
      PROVE  /\ Frames(c, d, pushes, a) \in Seq(Frame)
             /\ After(m, Frames(c, d, pushes, a)) = m
  <2>1. <<>> \in Seq(Frame)
    OBVIOUS
  <2> QED BY <1>3, <1>4, <2>1, AfterNone
<1>5. ASSUME NEW p \in Frame, ~IsAnswer(p), pushes[d] = <<p>>
      PROVE  /\ Frames(c, d, pushes, a) \in Seq(Frame)
             /\ After(m, Frames(c, d, pushes, a)) = Changed(m, p)
  <2>1. <<p>> \in Seq(Frame)
    OBVIOUS
  <2>2. After(m, <<p>>) = Changed(m, p)
    BY <1>5, AfterOne DEF OneChange
  <2> QED BY <1>3, <1>5, <2>1, <2>2
<1> QED BY <1>4, <1>5

(* The copy of c, brought up to date, is what the service has. *)
CopyOK(c) == (conn[c] = "open" /\ listener[c]) => After(seen[c], down[c]) = Mem

(* What has a slot is connected; a service that is dead has no slots. *)
CacheInv ==
    /\ DOMAIN seen = Clients
    /\ \A c \in slots : conn[c] \in {"open", "half"} /\ CopyOK(c)
    /\ ~running => slots = {}

(* A copy that nobody touches stays as good as it is. *)
LEMMA CopyKept ==
    ASSUME NEW d, CopyOK(d), tree' = tree,
           conn'[d] = conn[d], listener'[d] = listener[d], down'[d] = down[d],
           seen'[d] = seen[d]
    PROVE  CopyOK(d)'
BY DEF CopyOK, Mem

(* The steps that touch no copy. *)
LEMMA IdleCache ==
    ASSUME CacheInv, UNCHANGED <<running, tree, slots, conn, listener, down, seen>>
    PROVE  CacheInv'
BY CopyKept DEF CacheInv

(* A frame is read: a change of the copy, or an answer. *)
LEMMA FrameRead ==
    ASSUME TypeOK, NEW c \in Clients, CopyOK(c), DOMAIN seen = Clients,
           down[c] # <<>>, down'[c] = Tail(down[c]),
           conn' = conn, tree' = tree, listener'[c] => listener[c],
           \/ IsAnswer(Head(down[c])) /\ seen' = seen
           \/ ~IsAnswer(Head(down[c])) /\ Notify(c, Head(down[c]))
    PROVE  CopyOK(c)'
<1> SUFFICES ASSUME conn[c] = "open", listener[c]
             PROVE  After(seen'[c], down'[c]) = Mem'
  BY DEF CopyOK
<1> DEFINE s == down[c]
           x == Head(s)
<1>1. /\ s \in Seq(Frame) /\ s # <<>> /\ down'[c] = Tail(s)
  BY DEF TypeOK
<1>2. x \in Frame /\ Tail(s) \in Seq(Frame) /\ <<x>> \in Seq(Frame)
  BY <1>1, TailFacts
<1>3. s = <<x>> \o Tail(s)
  BY <1>1
<1>4. seen'[c] = OneChange(seen[c], x)
  BY DEF Notify, OneChange
<1>5. Mem' = Mem /\ After(seen[c], s) = Mem
  BY DEF CopyOK, Mem
<1> HIDE DEF s, x
<1>6. After(seen[c], <<x>> \o Tail(s)) = After(After(seen[c], <<x>>), Tail(s))
  BY <1>2, AfterBoth
<1>7. After(seen[c], <<x>>) = seen'[c]
  BY <1>4, AfterOne
<1> QED BY <1>1, <1>3, <1>5, <1>6, <1>7

(* The steps of a client. *)
LEMMA ClientCache ==
    ASSUME IInv, CacheInv, NEW c \in Clients,
           \/ Connect(c) \/ NextPass(c) \/ (\E r \in Requests : Call(c, r))
           \/ Receive(c) \/ ReceiveEof(c) \/ Read(c) \/ ReadEof(c) \/ Exit(c)
    PROVE  CacheInv'
<1>1. TypeOK /\ ControlOK(c) /\ StreamOK(c) /\ slots \subseteq Clients
  BY DEF IInv, TypeOK
<1>2. ASSUME Connect(c) PROVE CacheInv'
  <2>1. c \notin slots
    BY <1>2 DEF Connect, CacheInv
  <2>2. \A d \in slots : conn'[d] = conn[d] /\ CopyOK(d)'
    BY <1>1, <1>2, <2>1, CopyKept DEF Connect, CacheInv, TypeOK, service
  <2> QED BY <1>2, <2>2 DEF Connect, CacheInv, service
<1>3. ASSUME NextPass(c) PROVE CacheInv'
  BY <1>3, IdleCache DEF NextPass, service
<1>4. ASSUME NEW r \in Requests, Call(c, r) PROVE CacheInv'
  BY <1>4, IdleCache DEF Call, service
<1>5. ASSUME ReceiveEof(c) PROVE CacheInv'
  BY <1>5, IdleCache DEF ReceiveEof, service
<1>6. ASSUME Receive(c) PROVE CacheInv'
  <2>1. /\ down[c] # <<>> /\ down' = [down EXCEPT ![c] = Tail(@)]
        /\ \/ IsAnswer(Head(down[c])) /\ seen' = seen
           \/ ~IsAnswer(Head(down[c])) /\ Notify(c, Head(down[c]))
        /\ UNCHANGED <<running, tree, slots, conn, listener>>
    BY <1>6 DEF Receive, IsAnswer, service
  <2>2. DOMAIN seen' = Clients /\ \A d \in Clients \ {c} : seen'[d] = seen[d] /\ down'[d] = down[d]
    BY <1>1, <2>1 DEF Notify, CacheInv, TypeOK
  <2>3. c \in slots => CopyOK(c)'
    BY <1>1, <2>1, FrameRead DEF CacheInv, TypeOK
  <2>4. \A d \in slots \ {c} : CopyOK(d)'
    BY <1>1, <2>1, <2>2, CopyKept DEF CacheInv
  <2> QED BY <2>1, <2>2, <2>3, <2>4 DEF CacheInv
<1>7. ASSUME Read(c) PROVE CacheInv'
  <2>1. down[c] \in Seq(Frame) /\ down[c] # <<>> /\ Quiet(down[c])
    BY <1>1, <1>7 DEF TypeOK, StreamOK, Read
  <2>2. ~IsAnswer(Head(down[c]))
    BY <2>1, TailFacts DEF Quiet
  <2>3. /\ down[c] # <<>> /\ down' = [down EXCEPT ![c] = Tail(@)]
        /\ Notify(c, Head(down[c]))
        /\ UNCHANGED <<running, tree, slots, conn, listener>>
    BY <1>7, <2>2 DEF Read, IsAnswer, service
  <2>4. DOMAIN seen' = Clients /\ \A d \in Clients \ {c} : seen'[d] = seen[d] /\ down'[d] = down[d]
    BY <1>1, <2>3 DEF Notify, CacheInv, TypeOK
  <2>5. c \in slots => CopyOK(c)'
    BY <1>1, <2>2, <2>3, FrameRead DEF CacheInv, TypeOK
  <2>6. \A d \in slots \ {c} : CopyOK(d)'
    BY <1>1, <2>3, <2>4, CopyKept DEF CacheInv
  <2> QED BY <2>3, <2>4, <2>5, <2>6 DEF CacheInv
<1>8. ASSUME ReadEof(c) PROVE CacheInv'
  <2>1. c \notin slots
    BY <1>8 DEF ReadEof, CacheInv
  <2>2. \A d \in slots : conn'[d] = conn[d] /\ CopyOK(d)'
    BY <1>1, <1>8, <2>1, CopyKept DEF ReadEof, CacheInv, TypeOK, service
  <2> QED BY <1>8, <2>2 DEF ReadEof, CacheInv, service
<1>9. ASSUME Exit(c) PROVE CacheInv'
  <2>1. c \in slots => conn[c] = "open"
    BY <1>1, <1>9 DEF Exit, CacheInv, ControlOK
  <2>2. conn' = [conn EXCEPT ![c] = IF @ \in {"pending", "open"} THEN "half" ELSE "none"]
    BY <1>9 DEF Exit
  <2>3. c \in slots => conn'[c] = "half"
    BY <1>1, <2>1, <2>2 DEF TypeOK
  <2>4. \A d \in slots \ {c} : conn'[d] = conn[d] /\ CopyOK(d)'
    BY <1>1, <1>9, CopyKept DEF Exit, CacheInv, TypeOK, service
  <2>5. c \in slots => CopyOK(c)'
    BY <2>3 DEF CopyOK
  <2>6. \A d \in slots : conn'[d] \in {"open", "half"} /\ CopyOK(d)'
    BY <2>3, <2>4, <2>5 DEF CacheInv
  <2> QED BY <1>9, <2>6 DEF Exit, CacheInv, service
<1> QED BY <1>2, <1>3, <1>4, <1>5, <1>6, <1>7, <1>8, <1>9

(* fbus_service_on_client_connect: a client that gets a slot has nothing to read. *)
LEMMA AcceptCache ==
    ASSUME IInv, CacheInv, NEW c \in Clients, Accept(c)
    PROVE  CacheInv'
<1>1. TypeOK /\ ControlOK(c)
  BY DEF IInv
<1>2. /\ conn[c] = "pending" /\ conn' = [conn EXCEPT ![c] = "open"]
      /\ slots' \subseteq slots \cup {c}
      /\ seen' = IF listener[c] THEN [seen EXCEPT ![c] = Mem] ELSE seen
      /\ UNCHANGED <<running, tree, listener, down>> /\ running
  BY DEF Accept
<1>3. c \notin slots /\ down[c] = <<>> /\ DOMAIN seen = Clients /\ slots \subseteq Clients
  BY <1>1, <1>2 DEF CacheInv, ControlOK, TypeOK
<1>4. conn'[c] = "open" /\ CopyOK(c)'
  <2>1. ASSUME listener[c] PROVE seen'[c] = Mem /\ Mem' = Mem /\ down'[c] = <<>>
    BY <1>2, <1>3, <2>1 DEF Mem
  <2>2. ASSUME listener[c] PROVE After(seen'[c], down'[c]) = Mem'
    BY <2>1, <2>2, AfterNone
  <2> QED BY <1>1, <1>2, <2>2 DEF CopyOK, TypeOK
<1>5. \A d \in slots : conn'[d] = conn[d] /\ CopyOK(d)'
  BY <1>1, <1>2, <1>3, CopyKept DEF CacheInv, TypeOK
<1>6. DOMAIN seen' = Clients
  BY <1>2, <1>3
<1> QED BY <1>2, <1>4, <1>5, <1>6 DEF CacheInv

(* What is pushed to a slot is the change of the tree. *)
LEMMA ServeChanges ==
    ASSUME IInv, NEW c \in Clients, Serve(c), NEW d \in slots, conn[d] = "open"
    PROVE  \E s \in Seq(Frame) : down'[d] = down[d] \o s /\ After(Mem, s) = Mem'
<1> DEFINE r == call[c]
<1>1. /\ TypeOK /\ TreeOK(tree) /\ d \in Clients /\ r \in Calls
  BY DEF IInv, ServiceOK, TypeOK, Serve, ControlOK
<1>2. ASSUME NEW pushes, NEW a \in Frame, IsAnswer(a), Write(c, pushes, a)
      PROVE  down'[d] = down[d] \o Frames(c, d, pushes, a)
  BY <1>1, <1>2 DEF Write
<1>3. ASSUME NEW a \in Frame, IsAnswer(a), Write(c, NoPushes, a), tree' = tree
      PROVE  \E s \in Seq(Frame) : down'[d] = down[d] \o s /\ After(Mem, s) = Mem'
  <2>1. NoPushes[d] = <<>>
    BY <1>1 DEF NoPushes
  <2>2. Mem' = Mem
    BY <1>3 DEF Mem
  <2> DEFINE s == Frames(c, d, NoPushes, a)
  <2>3. s \in Seq(Frame) /\ After(Mem, s) = Mem
    BY <1>3, <2>1, FramesChange
  <2>4. down'[d] = down[d] \o s
    BY <1>2, <1>3
  <2> HIDE DEF s
  <2> QED BY <2>2, <2>3, <2>4
<1>4. ASSUME NEW type \in {"set", "add", "remove"}, NEW path \in Keys \cup Roots,
             NEW v \in Values \cup {None}, NEW a \in Frame, IsAnswer(a),
             Write(c, Pushes(c, type, path, v), a),
             \A k \in Keys : Mem'[k] = IF type = "remove" /\ IsBelow(k, path) THEN None
                                       ELSE IF type # "remove" /\ k = path THEN v ELSE Mem[k]
      PROVE  \E s \in Seq(Frame) : down'[d] = down[d] \o s /\ After(Mem, s) = Mem'
  <2> DEFINE p == Push(IF d = c THEN "self" ELSE "other", type, path, v)
  <2>1. p \in Frame /\ ~IsAnswer(p) /\ Pushes(c, type, path, v)[d] = <<p>>
    BY <1>1, <1>4 DEF Push, Pushes, Frame, IsAnswer, Roots
  <2>2. p.type = type /\ p.path = path /\ p.value = v
    BY DEF Push
  <2> HIDE DEF p
  <2>3. Mem' = Changed(Mem, p)
    <3>1. Mem' = [k \in Keys |-> Mem'[k]]
      BY DEF Mem
    <3> QED BY <1>4, <2>2, <3>1 DEF Changed
  <2> DEFINE s == Frames(c, d, Pushes(c, type, path, v), a)
  <2>4. s \in Seq(Frame) /\ After(Mem, s) = Changed(Mem, p)
    BY <1>4, <2>1, FramesChange
  <2>5. down'[d] = down[d] \o s
    BY <1>2, <1>4
  <2> HIDE DEF s
  <2> QED BY <2>3, <2>4, <2>5
<1>5. Normal(RET_OK, None) \in Frame /\ IsAnswer(Normal(RET_OK, None))
  BY AnswerFrame DEF RET_OK
<1>6. CASE r.op = "set" /\ Set(c, r.path, r.value)
  <2>1. r.path \in Keys /\ r.value \in Values
    BY <1>1, <1>6, CallFacts
  <2>2. tree' = Add(tree, r.path, r.value)
    BY <1>6 DEF Set
  <2>3. MapOf(tree') = [MapOf(tree) EXCEPT ![r.path] = r.value]
    BY <1>1, <2>1, <2>2, AddFacts
  <2> DEFINE type == IF Find(tree, r.path) THEN "set" ELSE "add"
  <2>4. Write(c, Pushes(c, type, r.path, r.value), Normal(RET_OK, None))
    BY <1>6 DEF Set
  <2>5. type \in {"set", "add", "remove"} /\ type # "remove"
    OBVIOUS
  <2> HIDE DEF type, r
  <2>6. \A k \in Keys : Mem'[k] = IF type = "remove" /\ IsBelow(k, r.path) THEN None
                                  ELSE IF type # "remove" /\ k = r.path THEN r.value ELSE Mem[k]
    BY <2>1, <2>3, <2>5, MemIsMap, MemPrimeIsMap DEF MapOf
  <2>7. r.path \in Keys \cup Roots /\ r.value \in Values \cup {None}
    BY <2>1
  <2> QED BY ONLY <1>4, <1>5, <2>4, <2>5, <2>6, <2>7, ZenonT(30)
<1>7. CASE r.op = "remove" /\ Remove(c, r.path)
  <2>1. r.path \in Keys \cup Roots
    BY <1>1, <1>7, CallFacts
  <2>2. tree' = Destroy(tree, r.path)
    BY <1>7 DEF Remove
  <2>3. MapOf(tree') = [k \in Keys |-> IF k = r.path \/ <<k[1]>> = r.path THEN None
                                       ELSE MapOf(tree)[k]]
    BY <1>1, <2>1, <2>2, DestroyFacts
  <2>4. Write(c, Pushes(c, "remove", r.path, None), Normal(RET_OK, None))
    BY <1>7 DEF Remove
  <2> DEFINE type == "remove"
  <2>5. type \in {"set", "add", "remove"} /\ type = "remove"
    OBVIOUS
  <2>6. \A k \in Keys : IsBelow(k, r.path) <=> k = r.path \/ <<k[1]>> = r.path
    BY <2>1, CoveredIsBelow
  <2> HIDE DEF type, r
  <2>7. \A k \in Keys : Mem'[k] = IF type = "remove" /\ IsBelow(k, r.path) THEN None
                                  ELSE IF type # "remove" /\ k = r.path THEN None ELSE Mem[k]
    BY <2>3, <2>5, <2>6, MemIsMap, MemPrimeIsMap
  <2>8. None \in Values \cup {None}
    OBVIOUS
  <2> QED BY ONLY <1>4, <1>5, <2>1, <2>4, <2>5, <2>7, <2>8, ZenonT(30)
<1>8. CASE r.op = "get" /\ Get(c, r.path)
  <2>1. r.path \in Keys
    BY <1>1, <1>8, CallFacts
  <2>2. tree[r.path] \in Values
    BY <1>1, <1>8, <2>1 DEF Get, Mem, TreeOK, Find
  <2>3. Normal(RET_OK, tree[r.path]) \in Frame /\ IsAnswer(Normal(RET_OK, tree[r.path]))
    BY <2>2, AnswerFrame DEF RET_OK
  <2>4. Write(c, NoPushes, Normal(RET_OK, tree[r.path])) /\ tree' = tree
    BY <1>8 DEF Get
  <2> QED BY <1>3, <2>3, <2>4
<1>9. CASE Refuse(c)
  <2>1. Code(call[c]) \in 0..4
    BY <1>1, CallFacts DEF Code
  <2>2. Normal(Code(call[c]), None) \in Frame /\ IsAnswer(Normal(Code(call[c]), None))
    BY <2>1, AnswerFrame
  <2>3. Write(c, NoPushes, Normal(Code(call[c]), None)) /\ tree' = tree
    BY <1>9 DEF Refuse
  <2> QED BY <1>3, <2>2, <2>3
<1> QED BY <1>6, <1>7, <1>8, <1>9 DEF Serve

(* fbus_source_service_dispatch: every copy is told of what it changes. *)
LEMMA ServeCache ==
    ASSUME IInv, CacheInv, NEW c \in Clients, Serve(c)
    PROVE  CacheInv'
<1>1. UNCHANGED <<running, slots, conn, listener, seen>>
  BY DEF Serve
<1>2. ASSUME NEW d \in slots, conn[d] = "open", listener[d]
      PROVE  After(seen[d], down'[d]) = Mem'
  <2>1. PICK s \in Seq(Frame) : down'[d] = down[d] \o s /\ After(Mem, s) = Mem'
    BY <1>2, ServeChanges
  <2>2. down[d] \in Seq(Frame)
    BY DEF IInv, TypeOK
  <2>3. After(seen[d], down[d]) = Mem
    BY <1>2 DEF CacheInv, CopyOK
  <2> QED BY <2>1, <2>2, <2>3, AfterBoth
<1>3. \A d \in slots : CopyOK(d)'
  BY <1>1, <1>2 DEF CopyOK
<1> QED BY <1>1, <1>3 DEF CacheInv

(* The other steps of the service. *)
LEMMA ServiceCache ==
    ASSUME IInv, CacheInv,
           \/ \E c \in Clients : Disconnect(c)
           \/ Save \/ Crash \/ CrashInSave \/ Start
    PROVE  CacheInv'
<1>1. ASSUME NEW c \in Clients, Disconnect(c) PROVE CacheInv'
  <2>1. /\ slots' = slots \ {c} /\ conn' = [conn EXCEPT ![c] = "none"]
        /\ UNCHANGED <<running, tree, listener, down, seen>>
    BY <1>1 DEF Disconnect
  <2>2. \A d \in slots' : conn'[d] = conn[d] /\ CopyOK(d)'
    BY <2>1, CopyKept DEF CacheInv, IInv, TypeOK
  <2> QED BY <2>1, <2>2 DEF CacheInv
<1>2. ASSUME Save PROVE CacheInv'
  BY <1>2, IdleCache DEF Save, client
<1>3. ASSUME Die PROVE CacheInv'
  BY <1>3 DEF Die, CacheInv
<1>4. ASSUME Start PROVE CacheInv'
  BY <1>4 DEF Start, CacheInv, client
<1> QED BY <1>1, <1>2, <1>3, <1>4 DEF Crash, CrashInSave

(* Every step keeps the copies. *)
LEMMA CacheStep ==
    ASSUME IInv, CacheInv, [Next]_vars
    PROVE  CacheInv'
<1>1. ASSUME UNCHANGED vars PROVE CacheInv'
  BY <1>1, IdleCache DEF vars, service, client
<1> QED BY <1>1, ClientCache, AcceptCache, ServeCache, ServiceCache DEF Next

(* A client that listens and has a slot can keep a copy of the settings. *)
THEOREM CachesCatchUp == Spec => []CacheCatchesUp
<1>1. Init => CacheInv
  BY DEF Init, CacheInv
<1>2. CacheInv => CacheCatchesUp
  BY DEF CacheInv, CopyOK, CacheCatchesUp
<1>3. IInv /\ CacheInv /\ [Next]_vars => CacheInv'
  BY CacheStep
<1> QED BY <1>1, <1>2, <1>3, Invariance, PTL DEF Spec

-----------------------------------------------------------------------------
(* Who waits for whom.                                                     *)

(* What c waits for: its request is before the service, or its answer before it. *)
WaitOK(c) ==
    /\ at[c] = "call" /\ ~sent[c] => conn[c] = "eof" \/ HasAnswer(down[c])
    /\ conn[c] \in {"pending", "open", "half"} => running
    /\ conn[c] \in {"pending", "open"} => (listener[c] <=> c \in Listeners)

(* What holds of every client. *)
WaitInv == \A c \in Clients : WaitOK(c)

(* Steps that leave a client alone keep its part. *)
LEMMA WaitKept ==
    ASSUME NEW d \in Clients, WaitOK(d), running' = running,
           conn'[d] = conn[d], at'[d] = at[d], listener'[d] = listener[d],
           sent'[d] = sent[d], HasAnswer(down[d]) => HasAnswer(down'[d])
    PROVE  WaitOK(d)'
BY DEF WaitOK

(* The steps of a client keep what it waits for. *)
LEMMA ClientWaits ==
    ASSUME IInv, WaitInv, NEW c \in Clients,
           \/ Connect(c) \/ NextPass(c) \/ (\E r \in Requests : Call(c, r))
           \/ Receive(c) \/ ReceiveEof(c) \/ Read(c) \/ ReadEof(c) \/ Exit(c)
    PROVE  WaitInv'
<1>1. TypeOK /\ ControlOK(c) /\ StreamOK(c) /\ WaitOK(c)
  BY DEF IInv, WaitInv
<1>2. ASSUME NEW d \in Clients, d # c PROVE WaitOK(d)'
  <2>1. /\ running' = running /\ conn'[d] = conn[d] /\ at'[d] = at[d]
        /\ listener'[d] = listener[d] /\ sent'[d] = sent[d] /\ down'[d] = down[d]
    BY <1>1, <1>2 DEF TypeOK, service, Connect, NextPass, Call, Receive, ReceiveEof, Read,
       ReadEof, Exit
  <2> QED BY <2>1, WaitKept DEF WaitInv
<1>3. WaitOK(c)'
  <2>1. CASE Connect(c)
    <3>1. /\ running /\ running' = running /\ conn'[c] = "pending" /\ at'[c] = "handler"
          /\ listener'[c] = (c \in Listeners)
      BY <1>1, <2>1 DEF Connect, TypeOK, service
    <3> QED BY <3>1 DEF WaitOK
  <2>2. CASE NextPass(c)
    <3>1. at'[c] # "call" /\ UNCHANGED <<running, conn, listener>>
      BY <1>1, <2>2 DEF NextPass, TypeOK, service
    <3> QED BY <1>1, <3>1 DEF WaitOK
  <2>3. CASE \E r \in Requests : Call(c, r)
    <3>1. sent'[c] = (conn[c] # "eof") /\ UNCHANGED <<running, conn, listener>>
      BY <1>1, <2>3 DEF Call, TypeOK, service
    <3> QED BY <1>1, <3>1 DEF WaitOK
  <2>4. CASE Receive(c)
    <3>1. /\ down[c] \in Seq(Frame) /\ down[c] # <<>> /\ down'[c] = Tail(down[c])
          /\ UNCHANGED <<running, conn, listener, sent>>
      BY <1>1, <2>4 DEF Receive, TypeOK, service
    <3>2. CASE IsAnswer(Head(down[c]))
      <4>1. at'[c] = "handler"
        BY <1>1, <2>4, <3>2 DEF Receive, IsAnswer, TypeOK
      <4> QED BY <1>1, <3>1, <4>1 DEF WaitOK
    <3>3. CASE ~IsAnswer(Head(down[c]))
      <4>1. at' = at
        BY <2>4, <3>3 DEF Receive, IsAnswer
      <4>2. OneCall(down[c], call[c])
        BY <1>1, QuietFacts DEF StreamOK
      <4>3. HasAnswer(Tail(down[c])) <=> HasAnswer(down[c])
        BY <3>1, <3>3, <4>2, TailFacts
      <4> QED BY <1>1, <3>1, <4>1, <4>3 DEF WaitOK
    <3> QED BY <3>2, <3>3
  <2>5. CASE ReceiveEof(c)
    <3>1. at'[c] # "call" /\ UNCHANGED <<running, conn, listener>>
      BY <1>1, <2>5 DEF ReceiveEof, TypeOK, service
    <3> QED BY <1>1, <3>1 DEF WaitOK
  <2>6. CASE Read(c)
    <3>1. down[c] \in Seq(Frame) /\ down[c] # <<>> /\ Quiet(down[c])
      BY <1>1, <2>6 DEF TypeOK, StreamOK, Read
    <3>2. ~IsAnswer(Head(down[c]))
      BY <3>1, TailFacts DEF Quiet
    <3>3. at'[c] # "call" /\ UNCHANGED <<running, conn, listener>>
      BY <1>1, <2>6, <3>2 DEF Read, IsAnswer, TypeOK, service
    <3> QED BY <1>1, <3>3 DEF WaitOK
  <2>7. CASE ReadEof(c)
    <3>1. conn[c] = "eof" /\ conn'[c] = "eof" /\ at'[c] # "call"
      BY <1>1, <2>7 DEF ReadEof, TypeOK
    <3> QED BY <3>1 DEF WaitOK
  <2>8. CASE Exit(c)
    <3>1. /\ at'[c] # "call" /\ running' = running
          /\ conn' = [conn EXCEPT ![c] = IF @ \in {"pending", "open"} THEN "half" ELSE "none"]
      BY <1>1, <2>8 DEF Exit, TypeOK, service
    <3>2. conn'[c] = IF conn[c] \in {"pending", "open"} THEN "half" ELSE "none"
      BY <1>1, <3>1 DEF TypeOK
    <3> QED BY <1>1, <3>1, <3>2 DEF WaitOK
  <2> QED BY <2>1, <2>2, <2>3, <2>4, <2>5, <2>6, <2>7, <2>8
<1> QED BY <1>2, <1>3 DEF WaitInv

(* The service answers who waits for it, with a slot or without. *)
LEMMA ServeWaits ==
    ASSUME IInv, WaitInv, NEW c \in Clients, Serve(c)
    PROVE  WaitInv'
<1>1. PICK a : Served(c, a)
  BY ServeAnswers
<1>2. /\ conn[c] \in {"open", "half"} /\ sent[c]
      /\ sent' = [sent EXCEPT ![c] = FALSE]
      /\ UNCHANGED <<running, conn, at, listener>>
  BY DEF Serve
<1>3. ASSUME NEW d \in Clients PROVE WaitOK(d)'
  <2>1. TypeOK /\ ControlOK(d) /\ StreamOK(d) /\ WaitOK(d)
    BY DEF IInv, WaitInv
  <2>2. CASE d # c
    <3>1. OneCall(down[d], call[d])
      BY <2>1, QuietFacts DEF StreamOK
    <3>2. HasAnswer(down'[d]) <=> HasAnswer(down[d])
      BY <1>1, <2>2, <3>1 DEF Served, Delivered, Extended
    <3>3. sent'[d] = sent[d]
      BY <1>2, <2>1, <2>2 DEF TypeOK
    <3> QED BY <1>2, <2>1, <3>2, <3>3, WaitKept
  <2>3. CASE d = c /\ conn[c] = "open"
    <3>1. HasAnswer(down'[c])
      BY <1>1, <2>3 DEF Served, Delivered
    <3> QED BY <1>2, <2>1, <2>3, <3>1 DEF WaitOK
  <2>4. CASE d = c /\ conn[c] = "half"
    <3>1. at[c] = "off"
      BY <2>1, <2>4 DEF ControlOK
    <3> QED BY <1>2, <2>1, <2>4, <3>1 DEF WaitOK
  <2> QED BY <1>2, <2>2, <2>3, <2>4
<1> QED BY <1>3 DEF WaitInv

(* The other steps of the service. *)
LEMMA ServiceWaits ==
    ASSUME IInv, WaitInv,
           \/ \E c \in Clients : Accept(c) \/ Disconnect(c)
           \/ Save \/ Crash \/ CrashInSave \/ Start
    PROVE  WaitInv'
<1>1. TypeOK /\ \A d \in Clients : ControlOK(d)
  BY DEF IInv
<1>2. ASSUME NEW c \in Clients, Accept(c) PROVE WaitInv'
  <2>1. /\ running /\ conn[c] = "pending" /\ conn' = [conn EXCEPT ![c] = "open"]
        /\ UNCHANGED <<running, at, listener, sent, down>>
    BY <1>2 DEF Accept
  <2>2. ASSUME NEW d \in Clients, d # c PROVE WaitOK(d)'
    BY <1>1, <2>1, <2>2, WaitKept DEF WaitInv, TypeOK
  <2>3. WaitOK(c)'
    BY <1>1, <2>1 DEF WaitInv, WaitOK, TypeOK
  <2> QED BY <2>2, <2>3 DEF WaitInv
<1>3. ASSUME NEW c \in Clients, Disconnect(c) PROVE WaitInv'
  <2>1. /\ conn[c] = "half" /\ conn' = [conn EXCEPT ![c] = "none"] /\ at[c] = "off"
        /\ UNCHANGED <<running, at, listener, sent, down>>
    BY <1>1, <1>3 DEF Disconnect, ControlOK
  <2>2. ASSUME NEW d \in Clients, d # c PROVE WaitOK(d)'
    BY <1>1, <2>1, <2>2, WaitKept DEF WaitInv, TypeOK
  <2>3. WaitOK(c)'
    BY <1>1, <2>1 DEF WaitOK, TypeOK
  <2> QED BY <2>2, <2>3 DEF WaitInv
<1>4. ASSUME Save PROVE WaitInv'
  BY <1>4, WaitKept DEF Save, client, WaitInv
<1>5. ASSUME Die PROVE WaitInv'
  <2>1. ASSUME NEW d \in Clients PROVE WaitOK(d)'
    <3>1. /\ conn'[d] = CASE conn[d] \in {"pending", "open"} -> "eof"
                          [] conn[d] = "half" -> "none"
                          [] OTHER -> conn[d]
          /\ at' = at
      BY <1>5, DieFacts
    <3>2. conn[d] \in Connections
      BY <1>1 DEF TypeOK
    <3>3. conn'[d] \in {"eof", "none"}
      BY <3>1, <3>2 DEF Connections
    <3>4. at[d] = "call" => conn'[d] = "eof"
      BY <1>1, <3>1, <3>2 DEF ControlOK, Connections
    <3> QED BY <3>1, <3>3, <3>4 DEF WaitOK
  <2> QED BY <2>1 DEF WaitInv
<1>6. ASSUME Start PROVE WaitInv'
  BY <1>6 DEF Start, client, WaitInv, WaitOK
<1> QED BY <1>2, <1>3, <1>4, <1>5, <1>6 DEF Crash, CrashInSave

(* Every step keeps what is waited for. *)
LEMMA WaitStep ==
    ASSUME IInv, WaitInv, [Next]_vars
    PROVE  WaitInv'
<1>1. ASSUME UNCHANGED vars PROVE WaitInv'
  BY <1>1, WaitKept DEF vars, service, client, WaitInv
<1> QED BY <1>1, ClientWaits, ServeWaits, ServiceWaits DEF Next

(* No client and service wait for each other. *)
THEOREM CallsAndServiceMove == Spec => []NoCircularWait
<1>1. Init => WaitInv
  BY DEF Init, WaitInv, WaitOK
<1>2. ASSUME IInv, WaitInv PROVE NoCircularWait
  <2>1. ~HasAnswer(<<>>)
    BY DEF HasAnswer
  <2>2. ASSUME NEW c \in Clients, at[c] = "call", down[c] = <<>>
        PROVE  conn[c] = "eof" \/ (running /\ sent[c] /\ conn[c] \in {"pending", "open"})
    <3>1. WaitOK(c) /\ ControlOK(c)
      BY <1>2 DEF IInv, WaitInv
    <3> QED BY <2>1, <2>2, <3>1 DEF WaitOK, ControlOK
  <2>3. ASSUME NEW c \in Clients, c \in Listeners, conn[c] = "open" PROVE listener[c]
    BY <1>2, <2>3 DEF WaitInv, WaitOK
  <2> QED BY <2>2, <2>3 DEF NoCircularWait
<1>3. IInv /\ WaitInv /\ [Next]_vars => WaitInv'
  BY WaitStep
<1> QED BY <1>1, <1>2, <1>3, Invariance, PTL DEF Spec

=============================================================================
