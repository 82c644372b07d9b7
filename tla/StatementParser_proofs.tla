------------------------- MODULE StatementParser_proofs -------------------------
(***************************************************************************)
(* Who owns the nodes of the statements, and what text their tree stands   *)
(* for: theorems about StatementParser.  The lemmas speak of any frames fs *)
(* and any nodes hp; the theorems instantiate them with the state and its  *)
(* successor.                                                              *)
(*                                                                         *)
(* The first half is about Sound: every node is held once, by the member   *)
(* or list of a production or by an older node.  The second is about       *)
(* Speaks: what was consumed is a text of what the waiting productions     *)
(* have read, each up to its call (Waiting), followed by one of what the   *)
(* last has read (Said).  An if that may still meet its else has to be     *)
(* followed in both ways, so a text is kept for each of the Closings.      *)
(***************************************************************************)
EXTENDS StatementTexts, Ownership_proofs, SequenceTheorems, TLAPS

---------------------------------------------------------------------------
(* The invariant.                                                          *)

Stages == {"statements", "statement", "block", "block_body", "semicolon", "target", "assign",
           "assigned_value", "returned_value", "return_type", "declared_type", "variable",
           "array", "array_close", "initial_value", "declared_value", "if_round",
           "if_condition", "if_close", "then", "otherwise", "else", "for_round",
           "initializer", "initializers", "for_condition", "condition_end", "update",
           "updates", "for_close", "update_block", "for_body", "function_name",
           "function_round", "parameters", "parameter_type", "parameter_name",
           "FunctionParameter", "function_body", "Return", "Assignment",
           "VariableDeclaration", "Block", "If", "For", "Function"}
Kinds == Simple \cup Compound \cup {"FunctionParameter", "Expression", "Target", "Variable"}

FrameType == [stage : Stages, parts : Seq(Nat), list : Seq(Nat), gobble : BOOLEAN]
NodeType == [kind : Kinds, kids : Seq(Nat)]

\* The stages at which a vector may have elements, those of the productions that
\* have no members, and those at which a production waits for another.
Listing == Collecting \cup {"for_close", "update_block", "function_body", "Function"}
Bare == {"parameter_type", "parameter_name", "FunctionParameter"}
Suspended == {"statements", "block_body", "Block", "otherwise", "If", "parameters",
              "For", "Function", "initializers", "updates"}

\* What a frame holds where: a production that returned now would drop nothing.
\* A frame that waits for its semicolon holds the finished statement alone.
FrameOK(f, hp) ==
  /\ f.stage \notin Listing => f.list = <<>>
  /\ f.stage \in Bare => f.parts = <<>>
  /\ f.stage = "semicolon" => /\ Len(f.parts) = 1
                              /\ f.parts[1] \in 1..Len(hp)
                              /\ hp[f.parts[1]].kind \in Simple

\* The outermost frame is that of parse(), and the others were called by a frame
\* that waits for them.
Shaped(fs, hp) ==
  /\ fs \in Seq(FrameType)
  /\ Len(fs) > 0
  /\ \A i \in 1..Len(fs) : fs[i].stage = "statements" <=> i = 1
  /\ \A i \in 1..(Len(fs) - 1) : fs[i].stage \in Suspended
  /\ \A i \in 1..Len(fs) : FrameOK(fs[i], hp)

OwnsOlder(hp) == \A n \in 1..Len(hp) : Range(hp[n].kids) \subseteq 1..(n - 1)

\* What may be an owner, at whatever depth and for any number of nodes, and what
\* every holder has; nothing where there is no such owner.
Holder == {"parts", "list", "node"} \X Nat
HoldingOf(fs, hp) ==
  [h \in Holder |->
     CASE h[1] = "parts" -> IF h[2] \in 1..Len(fs) THEN fs[h[2]].parts ELSE <<>>
       [] h[1] = "list"  -> IF h[2] \in 1..Len(fs) THEN fs[h[2]].list ELSE <<>>
       [] h[1] = "node"  -> IF h[2] \in 1..Len(hp) THEN hp[h[2]].kids ELSE <<>>]

\* The inductive invariant: the shape of the frames, nodes that own older ones,
\* and all that the holders have together is every node, once.
Sound(fs, hp) == /\ hp \in Seq(NodeType)
                 /\ Shaped(fs, hp)
                 /\ OwnsOlder(hp)
                 /\ Owned(Holder, HoldingOf(fs, hp), 1..Len(hp))
---------------------------------------------------------------------------
(* Stacks.                                                                 *)

\* A frame is pushed.
LEMMA Pushed ==
  ASSUME NEW S, NEW s \in Seq(S), NEW e \in S
  PROVE  /\ Append(s, e) \in Seq(S)
         /\ Len(Append(s, e)) = Len(s) + 1
         /\ Append(s, e)[Len(s) + 1] = e
         /\ \A i \in 1..Len(s) : Append(s, e)[i] = s[i]
         /\ Len(s) \in Nat
BY AppendProperties, LenProperties

\* A frame is popped.
LEMMA Popped ==
  ASSUME NEW S, NEW s \in Seq(S), Len(s) > 0
  PROVE  /\ Pop(s) \in Seq(S)
         /\ Len(Pop(s)) = Len(s) - 1
         /\ \A i \in 1..(Len(s) - 1) : Pop(s)[i] = s[i]
         /\ Len(s) \in Nat
<1>1. Len(s) \in Nat
  BY LenProperties
<1> DEFINE n == Len(s) - 1
           q == SubSeq(s, 1, n)
<1>2. n \in Int /\ 1 \in Int /\ \A i \in 1..n : s[i] \in S
  BY <1>1, ElementOfSeq
<1>3. /\ q \in Seq(S)
      /\ Len(q) = IF 1 <= n THEN n - 1 + 1 ELSE 0
      /\ \A i \in 1..(n - 1 + 1) : q[i] = s[1 + i - 1]
  <2> HIDE DEF n
  <2> QED
    BY <1>2, SubSeqProperties
<1>4. Pop(s) = q
  BY DEF Pop
<1>5. n \in Nat
  BY <1>1
<1> HIDE DEF n, q
<1>6. Len(q) = n /\ \A i \in 1..n : q[i] = s[i]
  BY <1>3, <1>5
<1> QED
  BY <1>1, <1>3, <1>4, <1>6 DEF n

---------------------------------------------------------------------------
(* Holders and what they hold.                                             *)

\* Holders are pairs.
LEMMA HolderIsPair ==
  /\ \A h \in Holder : /\ h[1] \in {"parts", "list", "node"} /\ h[2] \in Nat
                       /\ h = <<h[1], h[2]>>
  /\ \A d \in Nat : <<"parts", d>> \in Holder /\ <<"list", d>> \in Holder /\ <<"node", d>> \in Holder
BY DEF Holder

\* Whatever the frames hold, it can be compared.
LEMMA HoldingIsFunction ==
  ASSUME NEW fs, NEW hp
  PROVE \E V : HoldingOf(fs, hp) \in [Holder -> V]
<1>1. HoldingOf(fs, hp) \in [Holder -> {HoldingOf(fs, hp)[h] : h \in Holder}]
  BY DEF HoldingOf
<1> QED
  BY <1>1

\* Two holdings that differ at two holders at most.
LEMMA TwoHolders ==
  ASSUME NEW V, NEW F \in [Holder -> V], NEW W, NEW H \in [Holder -> W],
         NEW x \in Holder, NEW y \in Holder, x # y,
         \A h \in Holder : h # x /\ h # y => F[h] = H[h]
  PROVE  F = [H EXCEPT ![x] = F[x], ![y] = F[y]]
<1> DEFINE G == [H EXCEPT ![x] = F[x], ![y] = F[y]]
<1>1. F \in [Holder -> V \cup W] /\ G \in [Holder -> V \cup W]
  OBVIOUS
<1>2. \A h \in Holder : F[h] = G[h]
  OBVIOUS
<1> HIDE DEF G
<1>3. F = G
  BY <1>1, <1>2
<1> QED
  BY <1>3 DEF G

\* Frames that differ in the frame i only.
Differ(fs, gs, i) == Len(gs) = Len(fs) /\ \A j \in 1..Len(fs) : j # i => gs[j] = fs[j]

\* Holdings change where the state does: in one frame,
LEMMA HoldFrame ==
  ASSUME NEW fs, Len(fs) \in Nat, NEW i \in 1..Len(fs), NEW gs, Differ(fs, gs, i), NEW hp
  PROVE  HoldingOf(gs, hp)
           = [HoldingOf(fs, hp) EXCEPT ![<<"parts", i>>] = gs[i].parts,
                                       ![<<"list", i>>] = gs[i].list]
<1> USE DEF Differ
<1> DEFINE p == gs[i].parts
           l == gs[i].list
           F == HoldingOf(gs, hp)
           H == HoldingOf(fs, hp)
           x == <<"parts", i>>
           y == <<"list", i>>
<1>1. PICK V, W : F \in [Holder -> V] /\ H \in [Holder -> W]
  BY HoldingIsFunction
<1>2. x \in Holder /\ y \in Holder /\ x # y
  BY DEF Holder
<1>3. ASSUME NEW h \in Holder, h # x, h # y PROVE F[h] = H[h]
  <2>1. h[1] \in {"parts", "list", "node"} /\ h[2] \in Nat /\ h = <<h[1], h[2]>>
    BY HolderIsPair
  <2>2. h[1] \in {"parts", "list"} => h[2] # i
    BY <1>3, <2>1
  <2>3. h[2] # i /\ h[2] \in 1..Len(fs) => gs[h[2]] = fs[h[2]]
    OBVIOUS
  <2> QED
    BY <2>1, <2>2, <2>3 DEF HoldingOf
<1>4. F[x] = p /\ F[y] = l
  BY <1>2 DEF HoldingOf
<1> HIDE DEF F, H, x, y, p, l
<1>5. F = [H EXCEPT ![x] = p, ![y] = l]
  BY <1>1, <1>2, <1>3, <1>4, TwoHolders
<1> QED
  BY <1>5 DEF F, H, x, y, p, l

\* in the last frame, when it is popped,
LEMMA HoldDrop ==
  ASSUME NEW fs, Len(fs) \in Nat, Len(fs) > 0, NEW gs, Len(gs) = Len(fs) - 1,
         \A j \in 1..Len(gs) : gs[j] = fs[j], NEW hp
  PROVE  HoldingOf(gs, hp)
           = [HoldingOf(fs, hp) EXCEPT ![<<"parts", Len(fs)>>] = <<>>, ![<<"list", Len(fs)>>] = <<>>]
<1> DEFINE F == HoldingOf(gs, hp)
           H == HoldingOf(fs, hp)
           x == <<"parts", Len(fs)>>
           y == <<"list", Len(fs)>>
<1>1. PICK V, W : F \in [Holder -> V] /\ H \in [Holder -> W]
  BY HoldingIsFunction
<1>2. x \in Holder /\ y \in Holder /\ x # y
  BY DEF Holder
<1>3. ASSUME NEW h \in Holder, h # x, h # y PROVE F[h] = H[h]
  <2>1. h[1] \in {"parts", "list", "node"} /\ h[2] \in Nat /\ h = <<h[1], h[2]>>
    BY HolderIsPair
  <2>2. h[1] \in {"parts", "list"} => h[2] # Len(fs)
    BY <1>3, <2>1
  <2>3. h[2] # Len(fs) => (h[2] \in 1..Len(gs) <=> h[2] \in 1..Len(fs))
    BY <2>1
  <2>4. h[2] \in 1..Len(gs) => gs[h[2]] = fs[h[2]]
    OBVIOUS
  <2> QED
    BY <2>1, <2>2, <2>3, <2>4 DEF HoldingOf
<1>4. F[x] = <<>> /\ F[y] = <<>>
  <2>1. Len(fs) \notin 1..Len(gs)
    OBVIOUS
  <2> QED
    BY <1>2, <2>1 DEF HoldingOf
<1> HIDE DEF F, H, x, y
<1>5. F = [H EXCEPT ![x] = <<>>, ![y] = <<>>]
  BY <1>1, <1>2, <1>3, <1>4, TwoHolders
<1> QED
  BY <1>5 DEF F, H, x, y

\* in no frame, when one is pushed that holds nothing,
LEMMA HoldPush ==
  ASSUME NEW fs, Len(fs) \in Nat, NEW gs, Len(gs) = Len(fs) + 1,
         \A j \in 1..Len(fs) : gs[j] = fs[j],
         gs[Len(fs) + 1].parts = <<>>, gs[Len(fs) + 1].list = <<>>, NEW hp
  PROVE  HoldingOf(gs, hp) = HoldingOf(fs, hp)
<1> DEFINE F == HoldingOf(gs, hp)
           H == HoldingOf(fs, hp)
<1>1. PICK V, W : F \in [Holder -> V] /\ H \in [Holder -> W]
  BY HoldingIsFunction
<1>2. ASSUME NEW h \in Holder PROVE F[h] = H[h]
  <2>1. h[1] \in {"parts", "list", "node"} /\ h[2] \in Nat /\ h = <<h[1], h[2]>>
    BY HolderIsPair
  <2>2. CASE h[2] = Len(fs) + 1
    <3>1. h[2] \in 1..Len(gs) /\ h[2] \notin 1..Len(fs)
      BY <2>1, <2>2
    <3> QED
      BY <2>1, <2>2, <3>1 DEF HoldingOf
  <2>3. CASE h[2] # Len(fs) + 1
    <3>1. h[2] \in 1..Len(gs) <=> h[2] \in 1..Len(fs)
      BY <2>1, <2>3
    <3>2. h[2] \in 1..Len(fs) => gs[h[2]] = fs[h[2]]
      OBVIOUS
    <3> QED
      BY <2>1, <3>1, <3>2 DEF HoldingOf
  <2> QED
    BY <2>2, <2>3
<1> HIDE DEF F, H
<1>3. F \in [Holder -> V \cup W] /\ H \in [Holder -> V \cup W]
  BY <1>1
<1>4. F = H
  BY <1>2, <1>3
<1> QED
  BY <1>4 DEF F, H

\* and in a new node that holds k.
OneMore(hp, hq, k) == /\ Len(hq) = Len(hp) + 1
                      /\ hq[Len(hp) + 1].kids = k
                      /\ \A i \in 1..Len(hp) : hq[i] = hp[i]

LEMMA HoldNode ==
  ASSUME NEW hp, Len(hp) \in Nat, NEW fs, NEW hq, NEW k, OneMore(hp, hq, k)
  PROVE  HoldingOf(fs, hq) = [HoldingOf(fs, hp) EXCEPT ![<<"node", Len(hp) + 1>>] = k]
<1> USE DEF OneMore
<1> DEFINE F == HoldingOf(fs, hq)
           H == HoldingOf(fs, hp)
           x == <<"node", Len(hp) + 1>>
<1>1. PICK V, W : F \in [Holder -> V] /\ H \in [Holder -> W]
  BY HoldingIsFunction
<1>2. x \in Holder
  BY DEF Holder
<1>3. ASSUME NEW h \in Holder, h # x PROVE F[h] = H[h]
  <2>1. h[1] \in {"parts", "list", "node"} /\ h[2] \in Nat /\ h = <<h[1], h[2]>>
    BY HolderIsPair
  <2>2. h[1] = "node" => h[2] # Len(hp) + 1
    BY <1>3, <2>1
  <2>3. h[2] # Len(hp) + 1 => (h[2] \in 1..Len(hq) <=> h[2] \in 1..Len(hp))
    BY <2>1
  <2>4. h[2] \in 1..Len(hp) => hq[h[2]] = hp[h[2]]
    OBVIOUS
  <2> QED
    BY <2>1, <2>2, <2>3, <2>4 DEF HoldingOf
<1>4. F[x] = k
  BY <1>2 DEF HoldingOf
<1> DEFINE G == [H EXCEPT ![x] = k]
<1>5. F \in [Holder -> V \cup W \cup {k}] /\ G \in [Holder -> V \cup W \cup {k}]
  <2> HIDE DEF F, H, x
  <2> QED
    BY <1>1
<1>6. \A h \in Holder : F[h] = G[h]
  <2> HIDE DEF F, H, x
  <2> QED
    BY <1>1, <1>2, <1>3, <1>4
<1> HIDE DEF F, G
<1>7. F = G
  BY <1>5, <1>6
<1> QED
  BY <1>7 DEF F, G

---------------------------------------------------------------------------
(* What the productions do with the nodes, on any frames.                  *)

\* The holders of a frame and of the next node.
LEMMA HoldersHere ==
  ASSUME NEW fs, Len(fs) \in Nat, NEW i \in 1..Len(fs), NEW hp, Len(hp) \in Nat
  PROVE  /\ <<"parts", i>> \in Holder
         /\ <<"list", i>> \in Holder
         /\ <<"node", Len(hp) + 1>> \in Holder
         /\ HoldingOf(fs, hp)[<<"parts", i>>] = fs[i].parts
         /\ HoldingOf(fs, hp)[<<"list", i>>] = fs[i].list
         /\ HoldingOf(fs, hp)[<<"node", Len(hp) + 1>>] = <<>>
<1>1. /\ <<"parts", i>> \in Holder
      /\ <<"list", i>> \in Holder
      /\ <<"node", Len(hp) + 1>> \in Holder
  BY DEF Holder
<1> QED
  BY <1>1 DEF HoldingOf

\* One more node: its number is new.
LEMMA NextNode ==
  ASSUME NEW n \in Nat
  PROVE  1..(n + 1) = (1..n) \cup {n + 1} /\ n + 1 \notin 1..n
OBVIOUS

\* A holder that had nothing takes what two others have.
LEMMA TakeBoth ==
  ASSUME NEW H, NEW N, NEW K, Owned(H, K, N), NEW n \in H, NEW g \in H, NEW h \in H,
         n # g, n # h, g # h, K[n] = <<>>
  PROVE  Owned(H, [K EXCEPT ![n] = K[g] \o K[h], ![h] = <<>>, ![g] = <<>>], N)
<1> DEFINE A == [K EXCEPT ![n] = @ \o K[g], ![g] = <<>>]
           B == [A EXCEPT ![n] = @ \o A[h], ![h] = <<>>]
           L == [K EXCEPT ![n] = K[g] \o K[h], ![h] = <<>>, ![g] = <<>>]
<1>1. DOMAIN K = H /\ K[g] \in Seq(N) /\ K[h] \in Seq(N)
  BY DEF Owned
<1>2. <<>> \o K[g] = K[g]
  BY <1>1, ConcatEmptySeq
<1>3. Owned(H, A, N)
  BY Pour
<1>4. Owned(H, B, N)
  <2> HIDE DEF A
  <2> QED
    BY <1>3, Pour
<1>5. A[n] = K[g] /\ A[h] = K[h] /\ A[g] = <<>> /\ DOMAIN A = H
      /\ \A x \in H \ {n, g} : A[x] = K[x]
  BY <1>1, <1>2
<1>6. A = [K EXCEPT ![n] = K[g], ![g] = <<>>]
  BY <1>2
<1>7. B = L
  <2> DEFINE p == K[g] \o K[h]
             k == K[g]
  <2>1. B = [A EXCEPT ![n] = p, ![h] = <<>>]
    <3> HIDE DEF A
    <3> QED
      BY <1>5
  <2> HIDE DEF p, A, k
  <2>2. [A EXCEPT ![n] = p, ![h] = <<>>] = [K EXCEPT ![n] = p, ![h] = <<>>, ![g] = <<>>]
    BY <1>1, <1>6 DEF k
  <2> QED
    BY <2>1, <2>2 DEF p
<1> QED
  BY <1>4, <1>7

\* A new node is made of what the frame i holds.
LEMMA MakeFromFrame ==
  ASSUME NEW hp, Len(hp) \in Nat, NEW fs, Len(fs) \in Nat, NEW i \in 1..Len(fs),
         NEW hq, NEW k, OneMore(hp, hq, k)
  PROVE  /\ k = fs[i].list \o fs[i].parts
         /\ Owned(Holder, HoldingOf(fs, hp), 1..Len(hp))
         => Owned(Holder,
                  [HoldingOf(fs, hq) EXCEPT ![<<"parts", i>>] = <<>>, ![<<"list", i>>] = <<>>],
                  1..Len(hp))
<1> DEFINE K == HoldingOf(fs, hp)
           M == HoldingOf(fs, hq)
           n == <<"node", Len(hp) + 1>>
           p == <<"parts", i>>
           l == <<"list", i>>
           N == 1..Len(hp)
<1>1. /\ p \in Holder /\ l \in Holder /\ n \in Holder
      /\ K[p] = fs[i].parts /\ K[l] = fs[i].list /\ K[n] = <<>>
  BY HoldersHere, SMTT(30)
<1>2. p # l /\ p # n /\ l # n
  OBVIOUS
<1>3. M = [K EXCEPT ![n] = k]
  BY HoldNode
<1> SUFFICES ASSUME k = fs[i].list \o fs[i].parts, Owned(Holder, K, N)
             PROVE  Owned(Holder, [M EXCEPT ![p] = <<>>, ![l] = <<>>], N)
  BY Zenon
<1> HIDE DEF K, M, n, p, l, N
<1>4. Owned(Holder, [K EXCEPT ![n] = K[l] \o K[p], ![p] = <<>>, ![l] = <<>>], N)
  BY <1>1, <1>2, TakeBoth
<1>5. K[l] \o K[p] = k
  BY <1>1
<1>6. [M EXCEPT ![p] = <<>>, ![l] = <<>>] = [K EXCEPT ![n] = K[l] \o K[p], ![p] = <<>>, ![l] = <<>>]
  BY <1>3, <1>5
<1> QED
  BY <1>4, <1>6

\* One of the two holders of a frame gets x.
Gets(f, g, x) == \/ g.parts = Append(f.parts, x) /\ g.list = f.list
                 \/ g.list = Append(f.list, x) /\ g.parts = f.parts

\* The frame i gets a node that nothing holds.
LEMMA GiveFrame ==
  ASSUME NEW fs, Len(fs) \in Nat, NEW i \in 1..Len(fs), NEW gs, Differ(fs, gs, i),
         NEW hp, Len(hp) \in Nat, NEW x, Gets(fs[i], gs[i], x), NEW N
  PROVE  Owned(Holder, HoldingOf(fs, hp), N) /\ x \notin N
           => Owned(Holder, HoldingOf(gs, hp), N \cup {x})
<1> DEFINE K == HoldingOf(fs, hp)
           L == HoldingOf(gs, hp)
           p == <<"parts", i>>
           l == <<"list", i>>
           f == fs[i]
           g == gs[i]
<1>1. p \in Holder /\ l \in Holder /\ K[p] = f.parts /\ K[l] = f.list
      /\ <<"node", Len(hp) + 1>> \in Holder /\ K[<<"node", Len(hp) + 1>>] = <<>>
  BY HoldersHere
<1>2. L = [K EXCEPT ![p] = g.parts, ![l] = g.list]
  BY HoldFrame
<1>3. p # l /\ Gets(f, g, x)
  OBVIOUS
<1> SUFFICES ASSUME Owned(Holder, K, N), x \notin N PROVE Owned(Holder, L, N \cup {x})
  OBVIOUS
<1> HIDE DEF K, L, p, l, f, g
<1>4. DOMAIN K = Holder
  BY DEF Owned
<1>5. Owned(Holder, [K EXCEPT ![p] = Append(@, x)], N \cup {x})
  BY <1>1, Give
<1>6. Owned(Holder, [K EXCEPT ![l] = Append(@, x)], N \cup {x})
  BY <1>1, Give
<1>7. CASE g.parts = Append(f.parts, x) /\ g.list = f.list
  <2>1. L = [K EXCEPT ![p] = Append(@, x)]
    BY <1>1, <1>2, <1>3, <1>4, <1>7
  <2> QED
    BY <1>5, <2>1
<1>8. CASE g.list = Append(f.list, x) /\ g.parts = f.parts
  <2>1. L = [K EXCEPT ![l] = Append(@, x)]
    BY <1>1, <1>2, <1>3, <1>4, <1>8
  <2> QED
    BY <1>6, <2>1
<1> QED
  BY <1>3, <1>7, <1>8 DEF Gets

\* The last frame hands its only node, x, to the frame before it.
LEMMA HandUp ==
  ASSUME NEW fs, Len(fs) \in Nat, Len(fs) > 1, NEW ps, Len(ps) = Len(fs) - 1,
         \A j \in 1..Len(ps) : ps[j] = fs[j],
         NEW gs, Differ(ps, gs, Len(ps)), NEW hp, Len(hp) \in Nat,
         NEW x, Gets(ps[Len(ps)], gs[Len(ps)], x), NEW N
  PROVE  /\ fs[Len(fs)].parts = <<x>> /\ fs[Len(fs)].list = <<>>
         /\ Owned(Holder, HoldingOf(fs, hp), N)
         => Owned(Holder, HoldingOf(gs, hp), N)
<1> DEFINE K == HoldingOf(fs, hp)
           M == HoldingOf(ps, hp)
           L == HoldingOf(gs, hp)
           b == Len(ps)
           p == <<"parts", b>>
           l == <<"list", b>>
           P == <<"parts", Len(fs)>>
           Q == <<"list", Len(fs)>>
           f == ps[b]
           g == gs[b]
<1>0. b \in 1..Len(ps) /\ b \in 1..Len(fs) /\ Len(fs) \in 1..Len(fs) /\ b # Len(fs)
      /\ b \in Nat /\ ps[b] = fs[b] /\ Len(ps) \in Nat /\ Differ(ps, gs, b)
  OBVIOUS
<1>1. /\ P \in Holder /\ Q \in Holder
      /\ K[P] = fs[Len(fs)].parts /\ K[Q] = fs[Len(fs)].list
      /\ <<"node", Len(hp) + 1>> \in Holder /\ K[<<"node", Len(hp) + 1>>] = <<>>
  BY <1>0, HoldersHere
<1>2. /\ p \in Holder /\ l \in Holder
      /\ M[p] = f.parts /\ M[l] = f.list
      /\ <<"node", Len(hp) + 1>> \in Holder /\ M[<<"node", Len(hp) + 1>>] = <<>>
  <2> HIDE DEF b
  <2> QED
    BY <1>0, HoldersHere
<1>3. M = [K EXCEPT ![P] = <<>>, ![Q] = <<>>]
  BY HoldDrop
<1>4. L = [M EXCEPT ![p] = g.parts, ![l] = g.list]
  <2> HIDE DEF b
  <2> QED
    BY <1>0, HoldFrame
<1>5. p # l /\ P # Q /\ p # P /\ p # Q /\ l # P /\ l # Q /\ Gets(f, g, x)
  BY <1>0
<1> SUFFICES ASSUME K[P] = <<x>>, K[Q] = <<>>, Owned(Holder, K, N) PROVE Owned(Holder, L, N)
  BY <1>1
<1> HIDE DEF K, L, M, p, l, P, Q, f, g, b
<1>6. DOMAIN K = Holder /\ K[P] \in Seq(N) /\ K[p] \in Seq(N) /\ K[l] \in Seq(N)
  BY <1>1, <1>2 DEF Owned
<1>7. K[p] = f.parts /\ K[l] = f.list
  BY <1>2, <1>3, <1>5, <1>6
<1>8. x \in N
  <2>1. 1 \in 1..Len(<<x>>) /\ <<x>>[1] = x /\ <<x>> \in Seq(N)
    BY <1>6
  <2> QED
    BY <2>1, ElementOfSeq
<1>9. Append(f.parts, x) = f.parts \o <<x>> /\ Append(f.list, x) = f.list \o <<x>>
  BY <1>6, <1>7, <1>8, AppendIsConcat
<1>10. /\ Owned(Holder, [K EXCEPT ![p] = @ \o K[P], ![P] = <<>>], N)
       /\ Owned(Holder, [K EXCEPT ![l] = @ \o K[P], ![P] = <<>>], N)
  BY <1>1, <1>2, <1>5, Pour
<1>11. CASE g.parts = Append(f.parts, x) /\ g.list = f.list
  <2> DEFINE s == f.parts \o <<x>>
  <2>1. g.parts = s /\ K[p] \o K[P] = s
    BY <1>7, <1>9, <1>11
  <2> HIDE DEF s
  <2>2. L = [K EXCEPT ![p] = K[p] \o K[P], ![P] = <<>>]
    BY <1>1, <1>2, <1>3, <1>4, <1>5, <1>6, <1>7, <1>11, <2>1
  <2> QED
    BY <1>10, <2>2
<1>12. CASE g.list = Append(f.list, x) /\ g.parts = f.parts
  <2> DEFINE s == f.list \o <<x>>
  <2>1. g.list = s /\ K[l] \o K[P] = s
    BY <1>7, <1>9, <1>12
  <2> HIDE DEF s
  <2>2. L = [K EXCEPT ![l] = K[l] \o K[P], ![P] = <<>>]
    BY <1>1, <1>2, <1>3, <1>4, <1>5, <1>6, <1>7, <1>12, <2>1
  <2> QED
    BY <1>10, <2>2
<1> QED
  BY <1>5, <1>11, <1>12 DEF Gets

---------------------------------------------------------------------------
(* The shape of the frames.                                                *)

\* The nodes hq are the nodes hp and perhaps more.
Extends(hp, hq) == Len(hq) >= Len(hp) /\ \A i \in 1..Len(hp) : hq[i] = hp[i]

LEMMA FrameStaysOK ==
  ASSUME NEW f, NEW hp, NEW hq, FrameOK(f, hp), Extends(hp, hq), Len(hp) \in Nat, Len(hq) \in Nat
  PROVE  FrameOK(f, hq)
BY DEF FrameOK, Extends

\* The last frame.
LEMMA TopFrame ==
  ASSUME NEW fs, NEW hp, Shaped(fs, hp)
  PROVE  /\ Len(fs) \in Nat /\ Len(fs) > 0 /\ Len(fs) \in 1..Len(fs)
         /\ fs[Len(fs)] \in FrameType
         /\ FrameOK(fs[Len(fs)], hp)
         /\ fs[Len(fs)].stage = "statements" <=> Len(fs) = 1
<1>1. fs \in Seq(FrameType) /\ Len(fs) \in Nat /\ Len(fs) > 0
  BY LenProperties DEF Shaped
<1>2. Len(fs) \in 1..Len(fs)
  BY <1>1
<1> QED
  BY <1>1, <1>2, ElementOfSeq DEF Shaped

\* It is replaced by r.
Over(fs, r) == [fs EXCEPT ![Len(fs)] = r]

LEMMA ShapedTop ==
  ASSUME NEW fs, NEW hp, Shaped(fs, hp), NEW hq, Extends(hp, hq), Len(hp) \in Nat, Len(hq) \in Nat,
         NEW r \in FrameType, FrameOK(r, hq), r.stage = "statements" <=> Len(fs) = 1
  PROVE  /\ Shaped(Over(fs, r), hq)
         /\ Differ(fs, Over(fs, r), Len(fs))
         /\ Over(fs, r)[Len(fs)] = r
<1> DEFINE gs == Over(fs, r)
<1>1. fs \in Seq(FrameType) /\ Len(fs) \in Nat /\ Len(fs) > 0 /\ Len(fs) \in 1..Len(fs)
  BY TopFrame DEF Shaped
<1>2. /\ gs \in Seq(FrameType) /\ Len(gs) = Len(fs)
      /\ \A j \in 1..Len(fs) : gs[j] = IF j = Len(fs) THEN r ELSE fs[j]
  BY <1>1, ExceptSeq DEF Over
<1> HIDE DEF gs
<1>3. /\ \A i \in 1..Len(fs) : fs[i].stage = "statements" <=> i = 1
      /\ \A i \in 1..(Len(fs) - 1) : fs[i].stage \in Suspended
      /\ \A i \in 1..Len(fs) : FrameOK(fs[i], hp)
  BY DEF Shaped
<1>4. \A i \in 1..Len(fs) : FrameOK(fs[i], hq)
  BY <1>3, FrameStaysOK
<1>5. \A i \in 1..Len(gs) : gs[i].stage = "statements" <=> i = 1
  BY <1>1, <1>2, <1>3
<1>6. \A i \in 1..(Len(gs) - 1) : gs[i].stage \in Suspended
  BY <1>1, <1>2, <1>3
<1>7. \A i \in 1..Len(gs) : FrameOK(gs[i], hq)
  BY <1>1, <1>2, <1>4
<1> QED
  BY <1>1, <1>2, <1>5, <1>6, <1>7 DEF Shaped, Differ, gs

\* It waits, and g is pushed.
Called(fs, g) == Append(fs, g)

LEMMA ShapedCall ==
  ASSUME NEW fs, NEW hp, Shaped(fs, hp), fs[Len(fs)].stage \in Suspended,
         NEW g \in FrameType, FrameOK(g, hp), g.stage # "statements"
  PROVE  /\ Shaped(Called(fs, g), hp)
         /\ Len(Called(fs, g)) = Len(fs) + 1
         /\ Called(fs, g)[Len(fs) + 1] = g
         /\ \A j \in 1..Len(fs) : Called(fs, g)[j] = fs[j]
<1> DEFINE gs == Called(fs, g)
<1>1. fs \in Seq(FrameType) /\ Len(fs) \in Nat /\ Len(fs) > 0
  BY TopFrame DEF Shaped
<1>2. /\ gs \in Seq(FrameType) /\ Len(gs) = Len(fs) + 1 /\ gs[Len(fs) + 1] = g
      /\ \A j \in 1..Len(fs) : gs[j] = fs[j]
  BY <1>1, Pushed DEF Called
<1> HIDE DEF gs
<1>3. /\ \A i \in 1..Len(fs) : fs[i].stage = "statements" <=> i = 1
      /\ \A i \in 1..(Len(fs) - 1) : fs[i].stage \in Suspended
      /\ \A i \in 1..Len(fs) : FrameOK(fs[i], hp)
  BY DEF Shaped
<1>4. ASSUME NEW i \in 1..Len(gs)
      PROVE  (gs[i].stage = "statements" <=> i = 1) /\ FrameOK(gs[i], hp)
  <2>1. CASE i \in 1..Len(fs)
    BY <1>2, <1>3, <2>1
  <2>2. CASE i = Len(fs) + 1
    BY <1>1, <1>2, <2>2
  <2> QED
    BY <1>1, <1>2, <2>1, <2>2
<1>5. ASSUME NEW i \in 1..(Len(gs) - 1) PROVE gs[i].stage \in Suspended
  <2>1. i \in 1..Len(fs) /\ gs[i] = fs[i]
    BY <1>1, <1>2
  <2>2. i \in 1..(Len(fs) - 1) \/ i = Len(fs)
    BY <1>1, <2>1
  <2> QED
    BY <1>3, <2>1, <2>2
<1> QED
  BY <1>1, <1>2, <1>4, <1>5 DEF Shaped, gs

\* It is popped, and the frame before it is replaced by r.
LEMMA ShapedReturn ==
  ASSUME NEW fs, NEW hp, Shaped(fs, hp), Len(fs) > 1,
         NEW hq, Extends(hp, hq), Len(hp) \in Nat, Len(hq) \in Nat,
         NEW r \in FrameType, FrameOK(r, hq), r.stage = fs[Len(fs) - 1].stage
  PROVE  /\ Len(Pop(fs)) = Len(fs) - 1
         /\ \A j \in 1..(Len(fs) - 1) : Pop(fs)[j] = fs[j]
         /\ Shaped(Over(Pop(fs), r), hq)
         /\ Differ(Pop(fs), Over(Pop(fs), r), Len(Pop(fs)))
         /\ Over(Pop(fs), r)[Len(Pop(fs))] = r
<1> DEFINE ps == Pop(fs)
           b == Len(fs) - 1
<1>1. /\ fs \in Seq(FrameType) /\ Len(fs) \in Nat /\ Len(fs) > 0
      /\ \A i \in 1..Len(fs) : fs[i].stage = "statements" <=> i = 1
      /\ \A i \in 1..(Len(fs) - 1) : fs[i].stage \in Suspended
      /\ \A i \in 1..Len(fs) : FrameOK(fs[i], hp)
  BY TopFrame DEF Shaped
<1>2. ps \in Seq(FrameType) /\ Len(ps) = b /\ \A j \in 1..b : ps[j] = fs[j]
  BY <1>1, Popped
<1>3. b \in Nat /\ b > 0 /\ b \in 1..b /\ 1..b \subseteq 1..Len(fs)
  BY <1>1
<1> HIDE DEF ps
<1>4. Shaped(ps, hp)
  <2>1. \A i \in 1..Len(ps) : (ps[i].stage = "statements" <=> i = 1) /\ FrameOK(ps[i], hp)
    BY <1>1, <1>2, <1>3
  <2>2. \A i \in 1..(Len(ps) - 1) : ps[i] = fs[i] /\ i \in 1..(Len(fs) - 1)
    BY <1>1, <1>2, <1>3
  <2>3. \A i \in 1..(Len(ps) - 1) : ps[i].stage \in Suspended
    BY <1>1, <2>2
  <2> QED
    BY <1>2, <1>3, <2>1, <2>3 DEF Shaped
<1>5. r.stage = "statements" <=> Len(ps) = 1
  BY <1>1, <1>2, <1>3
<1>6. /\ Shaped(Over(ps, r), hq)
      /\ Differ(ps, Over(ps, r), Len(ps))
      /\ Over(ps, r)[Len(ps)] = r
  BY <1>4, <1>5, ShapedTop
<1> QED
  BY <1>2, <1>6 DEF ps

---------------------------------------------------------------------------
(* The invariant and what the productions do.                              *)

\* What it says of the nodes and of the last frame.
LEMMA SoundTop ==
  ASSUME NEW fs, NEW hp, Sound(fs, hp)
  PROVE  /\ hp \in Seq(NodeType) /\ Len(hp) \in Nat
         /\ Shaped(fs, hp) /\ OwnsOlder(hp) /\ Owned(Holder, HoldingOf(fs, hp), 1..Len(hp))
         /\ Len(fs) \in Nat /\ Len(fs) > 0 /\ Len(fs) \in 1..Len(fs)
         /\ fs[Len(fs)].parts \in Seq(1..Len(hp)) /\ fs[Len(fs)].list \in Seq(1..Len(hp))
<1>1. /\ hp \in Seq(NodeType) /\ Len(hp) \in Nat
      /\ Shaped(fs, hp) /\ OwnsOlder(hp) /\ Owned(Holder, HoldingOf(fs, hp), 1..Len(hp))
  BY LenProperties DEF Sound
<1>2. Len(fs) \in Nat /\ Len(fs) > 0 /\ Len(fs) \in 1..Len(fs)
  BY <1>1, TopFrame
<1>3. HoldingOf(fs, hp) \in [Holder -> Seq(1..Len(hp))]
  BY <1>1 DEF Owned
<1>4. /\ <<"parts", Len(fs)>> \in Holder
      /\ <<"list", Len(fs)>> \in Holder
      /\ <<"node", Len(hp) + 1>> \in Holder
      /\ HoldingOf(fs, hp)[<<"parts", Len(fs)>>] = fs[Len(fs)].parts
      /\ HoldingOf(fs, hp)[<<"list", Len(fs)>>] = fs[Len(fs)].list
      /\ HoldingOf(fs, hp)[<<"node", Len(hp) + 1>>] = <<>>
  BY <1>1, <1>2, HoldersHere, SMTT(30)
<1>5. fs[Len(fs)].parts \in Seq(1..Len(hp)) /\ fs[Len(fs)].list \in Seq(1..Len(hp))
  BY <1>3, <1>4
<1> QED
  BY <1>1, <1>2, <1>5

\* A node that is made of older ones.
Made(hp, kind, k) == Append(hp, Node(kind, k))

LEMMA HeapGrows ==
  ASSUME NEW hp \in Seq(NodeType), OwnsOlder(hp), NEW kind \in Kinds, NEW k \in Seq(1..Len(hp))
  PROVE  /\ Made(hp, kind, k) \in Seq(NodeType)
         /\ Len(Made(hp, kind, k)) = Len(hp) + 1
         /\ Made(hp, kind, k)[Len(hp) + 1].kind = kind
         /\ OneMore(hp, Made(hp, kind, k), k)
         /\ Extends(hp, Made(hp, kind, k))
         /\ OwnsOlder(Made(hp, kind, k))
<1> DEFINE r == Node(kind, k)
           hq == Made(hp, kind, k)
<1>0. Len(hp) \in Nat
  BY LenProperties
<1>1. k \in Seq(Nat)
  <2>1. 1..Len(hp) \subseteq Nat
    OBVIOUS
  <2> QED
    BY <2>1, SeqMonotonic
<1>2. r \in NodeType /\ r.kind = kind /\ r.kids = k
  BY <1>1 DEF Node, NodeType
<1> HIDE DEF r
<1>3. /\ Append(hp, r) \in Seq(NodeType) /\ Len(Append(hp, r)) = Len(hp) + 1
      /\ Append(hp, r)[Len(hp) + 1] = r
      /\ \A i \in 1..Len(hp) : Append(hp, r)[i] = hp[i]
      /\ Len(hp) \in Nat
  BY <1>2, Pushed
<1>4. hq = Append(hp, r)
  BY DEF Made, r
<1> HIDE DEF hq
<1>5. /\ hq \in Seq(NodeType) /\ Len(hq) = Len(hp) + 1 /\ hq[Len(hp) + 1] = r
      /\ \A i \in 1..Len(hp) : hq[i] = hp[i]
  BY <1>3, <1>4
<1>6. OwnsOlder(hq)
  <2> SUFFICES ASSUME NEW n \in 1..Len(hq) PROVE Range(hq[n].kids) \subseteq 1..(n - 1)
    BY DEF OwnsOlder
  <2>1. CASE n \in 1..Len(hp)
    BY <1>5, <2>1 DEF OwnsOlder
  <2>2. CASE n = Len(hp) + 1
    <3>1. Range(k) \subseteq 1..Len(hp)
      BY RangeOf
    <3> QED
      BY <1>0, <1>2, <1>5, <2>2, <3>1
  <2> QED
    BY <1>0, <1>5, <2>1, <2>2
<1> QED
  BY <1>0, <1>2, <1>5, <1>6 DEF hq, OneMore, Extends

\* The last frame goes on, and what it holds stays.
LEMMA Moves ==
  ASSUME NEW fs, NEW hp, Sound(fs, hp), NEW r \in FrameType, FrameOK(r, hp),
         r.parts = fs[Len(fs)].parts, r.list = fs[Len(fs)].list,
         r.stage = "statements" <=> Len(fs) = 1
  PROVE  Sound(Over(fs, r), hp)
<1> DEFINE gs == Over(fs, r)
           i == Len(fs)
           K == HoldingOf(fs, hp)
<1>1. /\ hp \in Seq(NodeType) /\ Len(hp) \in Nat
      /\ Shaped(fs, hp) /\ OwnsOlder(hp) /\ Owned(Holder, K, 1..Len(hp))
      /\ i \in Nat /\ i > 0 /\ i \in 1..i
  BY SoundTop
<1>2. Shaped(gs, hp) /\ Differ(fs, gs, i) /\ gs[i] = r
  <2>1. Extends(hp, hp)
    BY <1>1 DEF Extends
  <2> QED
    BY <1>1, <2>1, ShapedTop
<1> HIDE DEF gs
<1>3. HoldingOf(gs, hp) = [K EXCEPT ![<<"parts", i>>] = gs[i].parts, ![<<"list", i>>] = gs[i].list]
  BY <1>1, <1>2, HoldFrame
<1>4. /\ <<"parts", i>> \in Holder
      /\ <<"list", i>> \in Holder
      /\ <<"node", Len(hp) + 1>> \in Holder
      /\ K[<<"parts", i>>] = fs[i].parts
      /\ K[<<"list", i>>] = fs[i].list
      /\ K[<<"node", Len(hp) + 1>>] = <<>>
  BY <1>1, HoldersHere
<1>5. K \in [Holder -> Seq(1..Len(hp))]
  BY <1>1 DEF Owned
<1> HIDE DEF K
<1>6. HoldingOf(gs, hp) = K
  BY <1>2, <1>3, <1>4, <1>5
<1> QED
  BY <1>1, <1>2, <1>6 DEF Sound, gs

\* The last frame waits for g, which is called.
LEMMA Calls ==
  ASSUME NEW fs, NEW hp, Sound(fs, hp), fs[Len(fs)].stage \in Suspended,
         NEW g \in FrameType, g.parts = <<>>, g.list = <<>>,
         g.stage \notin {"statements", "semicolon"}
  PROVE  Sound(Called(fs, g), hp)
<1> DEFINE gs == Called(fs, g)
<1>1. /\ hp \in Seq(NodeType) /\ Len(hp) \in Nat
      /\ Shaped(fs, hp) /\ OwnsOlder(hp) /\ Owned(Holder, HoldingOf(fs, hp), 1..Len(hp))
      /\ Len(fs) \in Nat
  BY SoundTop
<1>2. FrameOK(g, hp)
  BY DEF FrameOK
<1>3. /\ Shaped(gs, hp) /\ Len(gs) = Len(fs) + 1 /\ gs[Len(fs) + 1] = g
      /\ \A j \in 1..Len(fs) : gs[j] = fs[j]
  BY <1>1, <1>2, ShapedCall
<1> HIDE DEF gs
<1>4. gs[Len(fs) + 1].parts = <<>> /\ gs[Len(fs) + 1].list = <<>>
  BY <1>3
<1>5. HoldingOf(gs, hp) = HoldingOf(fs, hp)
  BY <1>1, <1>3, <1>4, HoldPush
<1> QED
  BY <1>1, <1>3, <1>5 DEF Sound, gs

\* A new node without children is given to the last frame.
LEMMA Grows ==
  ASSUME NEW fs, NEW hp, Sound(fs, hp), NEW kind \in Kinds,
         NEW r \in FrameType, FrameOK(r, Made(hp, kind, <<>>)),
         Gets(fs[Len(fs)], r, Len(hp) + 1),
         r.stage = "statements" <=> Len(fs) = 1
  PROVE  Sound(Over(fs, r), Made(hp, kind, <<>>))
<1> DEFINE gs == Over(fs, r)
           hq == Made(hp, kind, <<>>)
           i == Len(fs)
           K == HoldingOf(fs, hp)
           n == <<"node", Len(hp) + 1>>
<1>1. /\ hp \in Seq(NodeType) /\ Len(hp) \in Nat
      /\ Shaped(fs, hp) /\ OwnsOlder(hp) /\ Owned(Holder, K, 1..Len(hp))
      /\ i \in Nat /\ i > 0 /\ i \in 1..i
  BY SoundTop
<1>2. <<>> \in Seq(1..Len(hp))
  OBVIOUS
<1>3. /\ hq \in Seq(NodeType) /\ Len(hq) = Len(hp) + 1 /\ hq[Len(hp) + 1].kind = kind
      /\ OneMore(hp, hq, <<>>) /\ Extends(hp, hq) /\ OwnsOlder(hq)
  BY <1>1, <1>2, HeapGrows
<1> HIDE DEF hq
<1>4. Shaped(gs, hq) /\ Differ(fs, gs, i) /\ gs[i] = r
  BY <1>1, <1>3, ShapedTop DEF hq
<1> HIDE DEF gs
<1>5. /\ <<"parts", i>> \in Holder
      /\ <<"list", i>> \in Holder
      /\ n \in Holder
      /\ K[<<"parts", i>>] = fs[i].parts
      /\ K[<<"list", i>>] = fs[i].list
      /\ K[n] = <<>>
  BY <1>1, HoldersHere, SMTT(60)
<1>6. HoldingOf(fs, hq) = [K EXCEPT ![n] = <<>>]
  BY <1>1, <1>3, HoldNode
<1>7. K \in [Holder -> Seq(1..Len(hp))]
  BY <1>1 DEF Owned
<1> HIDE DEF K, n
<1>8. HoldingOf(fs, hq) = K
  BY <1>5, <1>6, <1>7
<1>9. Owned(Holder, HoldingOf(gs, hq), (1..Len(hp)) \cup {Len(hp) + 1})
  <2>1. Owned(Holder, HoldingOf(fs, hq), 1..Len(hp)) /\ Len(hp) + 1 \notin 1..Len(hp)
        /\ Len(hq) \in Nat /\ Gets(fs[i], gs[i], Len(hp) + 1)
    BY <1>1, <1>3, <1>4, <1>8
  <2> QED
    BY <1>1, <1>4, <2>1, GiveFrame
<1>10. 1..Len(hq) = (1..Len(hp)) \cup {Len(hp) + 1}
  BY <1>1, <1>3, NextNode
<1> QED
  BY <1>3, <1>4, <1>9, <1>10 DEF Sound, gs, hq

\* A new node is made of the vector of the last frame and becomes its member.
LEMMA Wraps ==
  ASSUME NEW fs, NEW hp, Sound(fs, hp), NEW kind \in Kinds,
         NEW r \in FrameType, FrameOK(r, Made(hp, kind, fs[Len(fs)].list)),
         r.parts = Append(fs[Len(fs)].parts, Len(hp) + 1), r.list = <<>>,
         r.stage = "statements" <=> Len(fs) = 1
  PROVE  Sound(Over(fs, r), Made(hp, kind, fs[Len(fs)].list))
<1> DEFINE gs == Over(fs, r)
           k == fs[Len(fs)].list
           hq == Made(hp, kind, k)
           i == Len(fs)
           K == HoldingOf(fs, hp)
           n == <<"node", Len(hp) + 1>>
           p == <<"parts", i>>
           l == <<"list", i>>
           x == Len(hp) + 1
           N == 1..Len(hp)
<1>1. /\ hp \in Seq(NodeType) /\ Len(hp) \in Nat
      /\ Shaped(fs, hp) /\ OwnsOlder(hp) /\ Owned(Holder, K, N)
      /\ i \in Nat /\ i > 0 /\ i \in 1..i /\ k \in Seq(N)
  BY SoundTop
<1>2. /\ hq \in Seq(NodeType) /\ Len(hq) = Len(hp) + 1
      /\ OneMore(hp, hq, k) /\ Extends(hp, hq) /\ OwnsOlder(hq)
  <2> HIDE DEF k
  <2> QED
    BY <1>1, HeapGrows
<1> HIDE DEF hq
<1>3. Shaped(gs, hq) /\ Differ(fs, gs, i) /\ gs[i] = r
  BY <1>1, <1>2, ShapedTop DEF hq
<1> HIDE DEF gs
<1>4. /\ p \in Holder /\ l \in Holder /\ n \in Holder
      /\ K[p] = fs[i].parts /\ K[l] = k /\ K[n] = <<>>
  BY <1>1, HoldersHere, ZenonT(40)
<1>5. HoldingOf(fs, hq) = [K EXCEPT ![n] = k]
  <2> HIDE DEF k
  <2> QED
    BY <1>1, <1>2, HoldNode
<1>6. HoldingOf(gs, hq) = [HoldingOf(fs, hq) EXCEPT ![p] = gs[i].parts, ![l] = gs[i].list]
  BY <1>1, <1>3, HoldFrame
<1>7. p # l /\ p # n /\ l # n /\ x \notin N
  OBVIOUS
<1>8. gs[i].parts = Append(K[p], x) /\ gs[i].list = <<>>
  BY <1>3, <1>4
<1>9. <<>> \o k = k
  BY <1>1, ConcatEmptySeq
<1>10. Owned(Holder, HoldingOf(gs, hq), N \cup {x})
  <2> HIDE DEF K, n, p, l, x, N, k
  <2> DEFINE A == [K EXCEPT ![n] = @ \o K[l], ![l] = <<>>]
  <2>1. Owned(Holder, A, N)
    BY <1>1, <1>4, <1>7, Pour
  <2>2. DOMAIN K = Holder
    BY <1>1 DEF Owned
  <2>3. A[p] = K[p] /\ A = [K EXCEPT ![n] = k, ![l] = <<>>]
    BY <1>4, <1>7, <1>9, <2>2
  <2> HIDE DEF A
  <2>4. Owned(Holder, [A EXCEPT ![p] = Append(@, x)], N \cup {x})
    BY <1>4, <1>7, <2>1, Give
  <2>5. [A EXCEPT ![p] = Append(@, x)] = [A EXCEPT ![p] = Append(K[p], x)]
    BY <2>3
  <2> DEFINE q == Append(K[p], x)
  <2> HIDE DEF q
  <2>6. HoldingOf(gs, hq) = [A EXCEPT ![p] = q]
    BY <1>4, <1>5, <1>6, <1>7, <1>8, <2>2, <2>3 DEF q
  <2> QED
    BY <2>4, <2>5, <2>6 DEF q
<1>11. 1..Len(hq) = N \cup {x}
  BY <1>1, <1>2, NextNode
<1> QED
  BY <1>2, <1>3, <1>10, <1>11 DEF Sound, gs, hq

\* A new node is made of all that the last frame holds and is then all it holds.
LEMMA Pends ==
  ASSUME NEW fs, NEW hp, Sound(fs, hp), NEW kind \in Kinds, NEW k,
         k = fs[Len(fs)].list \o fs[Len(fs)].parts,
         NEW r \in FrameType, FrameOK(r, Made(hp, kind, k)),
         r.parts = <<Len(hp) + 1>>, r.list = <<>>,
         r.stage = "statements" <=> Len(fs) = 1
  PROVE  Sound(Over(fs, r), Made(hp, kind, k))
<1> DEFINE gs == Over(fs, r)
           hq == Made(hp, kind, k)
           i == Len(fs)
           K == HoldingOf(fs, hp)
           M == HoldingOf(fs, hq)
           n == <<"node", Len(hp) + 1>>
           p == <<"parts", i>>
           l == <<"list", i>>
           x == Len(hp) + 1
           N == 1..Len(hp)
<1>1. /\ hp \in Seq(NodeType) /\ Len(hp) \in Nat
      /\ Shaped(fs, hp) /\ OwnsOlder(hp) /\ Owned(Holder, K, N)
      /\ i \in Nat /\ i > 0 /\ i \in 1..i
      /\ fs[i].parts \in Seq(N) /\ fs[i].list \in Seq(N)
  BY SoundTop
<1>2. k \in Seq(N)
  BY <1>1, ConcatProperties
<1>3. /\ hq \in Seq(NodeType) /\ Len(hq) = Len(hp) + 1
      /\ OneMore(hp, hq, k) /\ Extends(hp, hq) /\ OwnsOlder(hq)
  BY <1>1, <1>2, HeapGrows
<1> HIDE DEF hq
<1>4. Shaped(gs, hq) /\ Differ(fs, gs, i) /\ gs[i] = r
  BY <1>1, <1>3, ShapedTop DEF hq
<1> HIDE DEF gs
<1>5. /\ p \in Holder /\ l \in Holder /\ <<"node", Len(hq) + 1>> \in Holder
      /\ M[p] = fs[i].parts /\ M[l] = fs[i].list /\ M[<<"node", Len(hq) + 1>>] = <<>>
  <2>1. Len(hq) \in Nat
    BY <1>1, <1>3
  <2> QED
    BY <1>1, <2>1, HoldersHere
<1>6. HoldingOf(gs, hq) = [M EXCEPT ![p] = gs[i].parts, ![l] = gs[i].list]
  BY <1>1, <1>4, HoldFrame
<1>7. Owned(Holder, [M EXCEPT ![p] = <<>>, ![l] = <<>>], N)
  BY <1>1, <1>3, MakeFromFrame
<1>8. p # l /\ x \notin N /\ 1..Len(hq) = N \cup {x}
  BY <1>1, <1>3, NextNode
<1>9. gs[i].parts = <<x>> /\ gs[i].list = <<>>
  BY <1>4
<1>10. DOMAIN M = Holder
  BY DEF HoldingOf
<1>11. Owned(Holder, HoldingOf(gs, hq), N \cup {x})
  <2> HIDE DEF K, M, n, p, l, x, N
  <2> DEFINE A == [M EXCEPT ![p] = <<>>, ![l] = <<>>]
             q == <<x>>
  <2>1. A[p] = <<>> /\ Append(<<>>, x) = q
    BY <1>5, <1>8, <1>10
  <2>2. A = [M EXCEPT ![p] = <<>>, ![l] = <<>>] /\ Owned(Holder, A, N)
    BY <1>7
  <2> HIDE DEF A, q
  <2>3. Owned(Holder, [A EXCEPT ![p] = Append(@, x)], N \cup {x})
    BY <1>5, <1>8, <2>2, Give
  <2>4. [A EXCEPT ![p] = Append(@, x)] = [A EXCEPT ![p] = q]
    BY <2>1
  <2>5. HoldingOf(gs, hq) = [A EXCEPT ![p] = q]
    <3>1. gs[i].parts = q
      BY <1>9 DEF q
    <3> QED
      BY <1>5, <1>6, <1>8, <1>9, <1>10, <2>2, <3>1
  <2> QED
    BY <2>3, <2>4, <2>5
<1> QED
  BY <1>3, <1>4, <1>8, <1>11 DEF Sound, gs, hq

\* A new node is made of all that the last frame holds, and the frame returns it.
LEMMA Returns ==
  ASSUME NEW fs, NEW hp, Sound(fs, hp), Len(fs) > 1, NEW kind \in Kinds, NEW k,
         k = fs[Len(fs)].list \o fs[Len(fs)].parts,
         NEW r \in FrameType, FrameOK(r, Made(hp, kind, k)),
         Gets(fs[Len(fs) - 1], r, Len(hp) + 1), r.stage = fs[Len(fs) - 1].stage
  PROVE  Sound(Over(Pop(fs), r), Made(hp, kind, k))
<1> DEFINE ps == Pop(fs)
           gs == Over(ps, r)
           hq == Made(hp, kind, k)
           i == Len(fs)
           x == Len(hp) + 1
           N == 1..Len(hp)
<1>1. /\ hp \in Seq(NodeType) /\ Len(hp) \in Nat
      /\ Shaped(fs, hp) /\ OwnsOlder(hp) /\ Owned(Holder, HoldingOf(fs, hp), N)
      /\ i \in Nat /\ i > 0 /\ i \in 1..i
      /\ fs[i].parts \in Seq(N) /\ fs[i].list \in Seq(N)
  BY SoundTop
<1>2. k \in Seq(N)
  BY <1>1, ConcatProperties
<1>3. /\ hq \in Seq(NodeType) /\ Len(hq) = Len(hp) + 1
      /\ OneMore(hp, hq, k) /\ Extends(hp, hq) /\ OwnsOlder(hq)
  BY <1>1, <1>2, HeapGrows
<1> HIDE DEF hq
<1>4. /\ Len(ps) = i - 1 /\ \A j \in 1..(i - 1) : ps[j] = fs[j]
      /\ Shaped(gs, hq) /\ Differ(ps, gs, Len(ps)) /\ gs[Len(ps)] = r
  BY <1>1, <1>3, ShapedReturn DEF hq
<1> HIDE DEF gs, ps
<1>5. HoldingOf(ps, hq)
        = [HoldingOf(fs, hq) EXCEPT ![<<"parts", i>>] = <<>>, ![<<"list", i>>] = <<>>]
  <2>1. \A j \in 1..Len(ps) : ps[j] = fs[j]
    BY <1>4
  <2> QED
    BY <1>1, <1>4, <2>1, HoldDrop
<1>6. Owned(Holder, HoldingOf(ps, hq), N)
  <2>1. Owned(Holder, [HoldingOf(fs, hq) EXCEPT ![<<"parts", i>>] = <<>>, ![<<"list", i>>] = <<>>], N)
    BY <1>1, <1>3, MakeFromFrame
  <2> QED
    BY <1>5, <2>1
<1>7. Owned(Holder, HoldingOf(gs, hq), N \cup {x})
  <2>1. Len(ps) \in Nat /\ Len(ps) \in 1..Len(ps) /\ Len(hq) \in Nat /\ x \notin N
    BY <1>1, <1>3, <1>4
  <2>2. Gets(ps[Len(ps)], gs[Len(ps)], x)
    BY <1>4, <2>1
  <2> HIDE DEF x, N
  <2> QED
    BY <1>4, <1>6, <2>1, <2>2, GiveFrame
<1>8. 1..Len(hq) = N \cup {x}
  BY <1>1, <1>3, NextNode
<1> QED
  BY <1>3, <1>4, <1>7, <1>8 DEF Sound, gs, hq, ps

\* The last frame returns the node that it held alone.
LEMMA HandsUp ==
  ASSUME NEW fs, NEW hp, Sound(fs, hp), Len(fs) > 1, NEW x,
         fs[Len(fs)].parts = <<x>>, fs[Len(fs)].list = <<>>,
         NEW r \in FrameType, FrameOK(r, hp),
         Gets(fs[Len(fs) - 1], r, x), r.stage = fs[Len(fs) - 1].stage
  PROVE  Sound(Over(Pop(fs), r), hp)
<1> DEFINE ps == Pop(fs)
           gs == Over(ps, r)
           i == Len(fs)
           N == 1..Len(hp)
<1>1. /\ hp \in Seq(NodeType) /\ Len(hp) \in Nat
      /\ Shaped(fs, hp) /\ OwnsOlder(hp) /\ Owned(Holder, HoldingOf(fs, hp), N)
      /\ i \in Nat /\ i > 0 /\ i \in 1..i
  BY SoundTop
<1>2. /\ Len(ps) = i - 1 /\ \A j \in 1..(i - 1) : ps[j] = fs[j]
      /\ Shaped(gs, hp) /\ Differ(ps, gs, Len(ps)) /\ gs[Len(ps)] = r
  <2>1. Extends(hp, hp)
    BY <1>1 DEF Extends
  <2> QED
    BY <1>1, <2>1, ShapedReturn
<1> HIDE DEF gs, ps
<1>3. Owned(Holder, HoldingOf(gs, hp), N)
  <2>1. \A j \in 1..Len(ps) : ps[j] = fs[j]
    BY <1>2
  <2>2. Gets(ps[Len(ps)], gs[Len(ps)], x)
    BY <1>1, <1>2
  <2> HIDE DEF N
  <2> QED
    BY <1>1, <1>2, <2>1, <2>2, HandUp
<1> QED
  BY <1>1, <1>2, <1>3 DEF Sound, gs, ps

---------------------------------------------------------------------------
(* Steps that move no node.                                                *)

\* A frame may go from stage s to stage t with what it holds.
Goes(s, t) == \/ s = t
              \/ /\ s # "statements" /\ t \notin {"statements", "semicolon"}
                 /\ s \in Listing => t \in Listing
                 /\ t \in Bare => s \in Bare

LEMMA GotoKeeps ==
  ASSUME NEW fs, NEW hp, Sound(fs, hp), NEW t \in Stages, Goes(fs[Len(fs)].stage, t)
  PROVE  Sound([fs EXCEPT ![Len(fs)].stage = t], hp)
<1> DEFINE f == fs[Len(fs)]
           r == [f EXCEPT !.stage = t]
<1>1. /\ f \in FrameType /\ FrameOK(f, hp)
      /\ f.stage = "statements" <=> Len(fs) = 1
  BY SoundTop, TopFrame
<1>2. /\ r \in FrameType /\ r.parts = f.parts /\ r.list = f.list /\ r.stage = t
      /\ r.stage = "statements" <=> Len(fs) = 1
  BY <1>1 DEF FrameType, Goes
<1>3. FrameOK(r, hp)
  BY <1>1, <1>2 DEF FrameOK, Goes
<1>4. [fs EXCEPT ![Len(fs)].stage = t] = Over(fs, r)
  BY DEF Over
<1> HIDE DEF r
<1>5. Sound(Over(fs, r), hp)
  BY <1>2, <1>3, Moves
<1> QED
  BY <1>4, <1>5

\* It goes to stage t and calls a production that starts at stage.
Entered(fs, t, stage, gobble) == Append([fs EXCEPT ![Len(fs)].stage = t], Frame(stage, gobble))

LEMMA CallKeeps ==
  ASSUME NEW fs, NEW hp, Sound(fs, hp),
         NEW t \in Stages, t \in Suspended, Goes(fs[Len(fs)].stage, t),
         NEW stage \in Stages, stage \notin {"statements", "semicolon"}, NEW gobble \in BOOLEAN
  PROVE  /\ Sound(Entered(fs, t, stage, gobble), hp)
         /\ Entered(fs, t, stage, gobble)[Len(Entered(fs, t, stage, gobble))].stage = stage
<1> DEFINE g == Frame(stage, gobble)
           gs == [fs EXCEPT ![Len(fs)].stage = t]
<1>1. Sound(gs, hp)
  BY GotoKeeps
<1>2. g \in FrameType /\ g.stage = stage /\ g.parts = <<>> /\ g.list = <<>>
  BY DEF Frame, FrameType
<1>3. gs[Len(gs)].stage \in Suspended
  <2>1. fs \in Seq(FrameType) /\ fs[Len(fs)] \in FrameType /\ Len(fs) \in Nat /\ Len(fs) \in 1..Len(fs)
    BY SoundTop, TopFrame DEF Shaped
  <2> DEFINE r == [fs[Len(fs)] EXCEPT !.stage = t]
  <2>2. r \in FrameType /\ r.stage = t
    BY <2>1 DEF FrameType
  <2>3. gs = [fs EXCEPT ![Len(fs)] = r]
    OBVIOUS
  <2> HIDE DEF r, gs
  <2>4. Len(gs) = Len(fs) /\ gs[Len(fs)] = r
    BY <2>1, <2>2, <2>3, ExceptSeq
  <2> QED
    BY <2>2, <2>4
<1> HIDE DEF g, gs
<1>4. Sound(Called(gs, g), hp)
  BY <1>1, <1>2, <1>3, Calls
<1>5. Append(gs, g)[Len(Append(gs, g))] = g
  <2>1. gs \in Seq(FrameType)
    BY <1>1, SoundTop DEF Shaped
  <2> QED
    BY <1>2, <2>1, Pushed
<1> QED
  BY <1>2, <1>4, <1>5 DEF Called, Entered, g, gs

\* Where a frame goes when it finds the token it looks for, and when an
\* expression was read.
LEMMA ExpectedGoes ==
  ASSUME NEW s \in DOMAIN Expected
  PROVE  Expected[s].next \in Stages /\ Goes(s, Expected[s].next)
<1> DEFINE t == Expected[s].next
<1>1. s \in {"for_round", "condition_end", "for_close", "if_round", "if_close", "block",
            "return_type", "function_name", "function_round", "parameter_type",
            "parameter_name", "declared_type", "array_close", "assign"}
  BY DEF Expected
<1>2. /\ Expected.for_round.next = "initializer"
      /\ Expected.condition_end.next = "update"
      /\ Expected.for_close.next = "update_block"
      /\ Expected.if_round.next = "if_condition"
      /\ Expected.if_close.next = "then"
      /\ Expected.block.next = "block_body"
      /\ Expected.return_type.next = "function_name"
      /\ Expected.function_name.next = "function_round"
      /\ Expected.function_round.next = "parameters"
      /\ Expected.parameter_type.next = "parameter_name"
      /\ Expected.parameter_name.next = "FunctionParameter"
      /\ Expected.declared_type.next = "variable"
      /\ Expected.array_close.next = "initial_value"
      /\ Expected.assign.next = "assigned_value"
  BY DEF Expected, Wanted
<1> DEFINE u == Expected[s]
<1>3. /\ s \in {"for_round", "condition_end", "if_round", "if_close", "block", "return_type",
                 "function_name", "function_round", "declared_type", "array_close", "assign"}
           => u.next \in {"initializer", "update", "if_condition", "then", "block_body",
                         "function_name", "function_round", "parameters", "variable",
                         "initial_value", "assigned_value"}
      /\ s = "for_close" => u.next = "update_block"
      /\ s = "parameter_type" => u.next = "parameter_name"
      /\ s = "parameter_name" => u.next = "FunctionParameter"
  BY <1>2
<1> HIDE DEF t, u
<1>4. t = u.next
  BY DEF t, u
<1>5. t \in Stages
  BY <1>1, <1>3, <1>4 DEF Stages
<1>6. Goes(s, t)
  BY <1>1, <1>3, <1>4 DEF Goes, Listing, Collecting, Bare
<1> QED
  BY <1>5, <1>6 DEF t

\* The state.
LEMMA Now ==
  ASSUME Sound(frames, heap)
  PROVE  /\ Len(frames) \in Nat /\ Len(frames) > 0
         /\ Here = frames[Len(frames)] /\ Here \in FrameType
         /\ FrameOK(Here, heap)
         /\ Here.stage = "statements" <=> Len(frames) = 1
         /\ Fresh = Len(heap) + 1
BY SoundTop, TopFrame DEF Here, Top, Fresh

LEMMA GotoStep ==
  ASSUME Sound(frames, heap), NEW t \in Stages, Goes(Here.stage, t), Goto(t), UNCHANGED heap
  PROVE  Sound(frames, heap)'
<1>1. Sound([frames EXCEPT ![Len(frames)].stage = t], heap)
  BY Now, GotoKeeps
<1> QED
  BY <1>1 DEF Goto

LEMMA CallStep ==
  ASSUME Sound(frames, heap), NEW t \in Stages, t \in Suspended, Goes(Here.stage, t),
         NEW stage \in Stages, stage \notin {"statements", "semicolon"}, NEW gobble \in BOOLEAN,
         Call(t, Frame(stage, gobble)), UNCHANGED heap
  PROVE  Sound(frames, heap)'
<1>1. Sound(Entered(frames, t, stage, gobble), heap)
  BY Now, CallKeeps
<1> QED
  BY <1>1 DEF Call, Entered

\* Tokens that are looked for.
LEMMA SoundToken ==
  Sound(frames, heap) /\ (ExpectToken \/ RejectToken \/ ReadSecret) => Sound(frames, heap)'
<1> SUFFICES ASSUME Sound(frames, heap) PROVE (ExpectToken \/ RejectToken \/ ReadSecret) => Sound(frames, heap)'
  OBVIOUS
<1>1. CASE ExpectToken
  <2>1. /\ Here.stage \in DOMAIN Expected /\ Goto(Expected[Here.stage].next) /\ UNCHANGED heap
    BY <1>1 DEF ExpectToken, At, Here
  <2> QED
    BY <2>1, ExpectedGoes, GotoStep
<1>2. CASE RejectToken \/ ReadSecret
  <2>1. UNCHANGED <<frames, heap>>
    BY <1>2 DEF RejectToken, ReadSecret, Throw
  <2> QED
    BY <2>1
<1> QED
  BY <1>1, <1>2

\* The statement is told by its first token, and declarations.
LEMMA SoundDispatch ==
  Sound(frames, heap) /\ (DispatchKeyword \/ Dispatch \/ ReturnNothing \/ OpenArray \/ DeclareOnly
                          \/ Initialize \/ RejectDeclaration \/ RejectSemicolon)
    => Sound(frames, heap)'
<1> SUFFICES ASSUME Sound(frames, heap)
             PROVE  DispatchKeyword \/ Dispatch \/ ReturnNothing \/ OpenArray \/ DeclareOnly
                      \/ Initialize \/ RejectDeclaration \/ RejectSemicolon => Sound(frames, heap)'
  OBVIOUS
<1> USE DEF Goes, Listing, Collecting, Bare, Stages
<1>1. CASE DispatchKeyword
  <2>1. Here.stage = "statement" /\ it \in DOMAIN Opened /\ Goto(Opened[it]) /\ UNCHANGED heap
    BY <1>1 DEF DispatchKeyword, At, Here
  <2>2. Opened[it] \in Stages /\ Goes("statement", Opened[it])
    BY <2>1 DEF Opened
  <2> QED
    BY <2>1, <2>2, GotoStep
<1>2. CASE Dispatch
  <2> DEFINE t == CASE it = "{"                  -> "block"
                    [] it \in {"secret", "type"} -> "declared_type"
                    [] OTHER                     -> "target"
  <2>1. Here.stage = "statement" /\ Goto(t) /\ UNCHANGED heap
    BY <1>2 DEF Dispatch, At, Here
  <2>2. t \in {"block", "declared_type", "target"}
    OBVIOUS
  <2> HIDE DEF t
  <2>3. t \in Stages /\ Goes(Here.stage, t)
    BY <2>1, <2>2
  <2> QED
    BY <2>1, <2>3, GotoStep
<1>3. CASE ReturnNothing
  <2>1. Here.stage = "returned_value" /\ Goto("Return") /\ UNCHANGED heap
    BY <1>3 DEF ReturnNothing, At, Here
  <2>2. "Return" \in Stages /\ Goes(Here.stage, "Return")
    BY <2>1
  <2> QED
    BY <2>1, <2>2, GotoStep
<1>4. CASE OpenArray
  <2>1. Here.stage = "array" /\ Goto("array_close") /\ UNCHANGED heap
    BY <1>4 DEF OpenArray, At, Here
  <2>2. "array_close" \in Stages /\ Goes(Here.stage, "array_close")
    BY <2>1
  <2> QED
    BY <2>1, <2>2, GotoStep
<1>5. CASE DeclareOnly
  <2>1. Here.stage \in {"array", "initial_value"} /\ Goto("VariableDeclaration") /\ UNCHANGED heap
    BY <1>5 DEF DeclareOnly, At, Here
  <2>2. "VariableDeclaration" \in Stages /\ Goes(Here.stage, "VariableDeclaration")
    BY <2>1
  <2> QED
    BY <2>1, <2>2, GotoStep
<1>6. CASE Initialize
  <2>1. Here.stage \in {"array", "initial_value"} /\ Goto("declared_value") /\ UNCHANGED heap
    BY <1>6 DEF Initialize, At, Here
  <2>2. "declared_value" \in Stages /\ Goes(Here.stage, "declared_value")
    BY <2>1
  <2> QED
    BY <2>1, <2>2, GotoStep
<1>7. CASE RejectDeclaration \/ RejectSemicolon
  <2>1. UNCHANGED <<frames, heap>>
    BY <1>7 DEF RejectDeclaration, RejectSemicolon, Throw
  <2> QED
    BY <2>1
<1> QED
  BY <1>1, <1>2, <1>3, <1>4, <1>5, <1>6, <1>7

\* Blocks, branches, parameters and the lists of a for, but for their nodes.
LEMMA SoundGoto ==
  Sound(frames, heap) /\ (CloseBlock \/ Otherwise \/ CloseParameters \/ EndUpdates \/ Finish)
    => Sound(frames, heap)'
<1> SUFFICES ASSUME Sound(frames, heap)
             PROVE  CloseBlock \/ Otherwise \/ CloseParameters \/ EndUpdates \/ Finish
                      => Sound(frames, heap)'
  OBVIOUS
<1> USE DEF Goes, Listing, Collecting, Bare, Stages
<1>1. CASE CloseBlock
  <2>1. Here.stage = "block_body" /\ Goto("Block") /\ UNCHANGED heap
    BY <1>1 DEF CloseBlock, At, Here
  <2>2. "Block" \in Stages /\ Goes(Here.stage, "Block")
    BY <2>1
  <2> QED
    BY <2>1, <2>2, GotoStep
<1>2. CASE Otherwise
  <2>1. Here.stage = "otherwise" /\ (Goto("else") \/ Goto("If")) /\ UNCHANGED heap
    BY <1>2 DEF Otherwise, At, Here
  <2>2. /\ "else" \in Stages /\ Goes(Here.stage, "else")
        /\ "If" \in Stages /\ Goes(Here.stage, "If")
    BY <2>1
  <2>3. CASE Goto("else")
    BY <2>1, <2>2, <2>3, GotoStep
  <2>4. CASE Goto("If")
    BY <2>1, <2>2, <2>4, GotoStep
  <2> QED
    BY <2>1, <2>3, <2>4
<1>3. CASE CloseParameters
  <2>1. Here.stage = "parameters" /\ Goto("function_body") /\ UNCHANGED heap
    BY <1>3 DEF CloseParameters, At, Here
  <2>2. "function_body" \in Stages /\ Goes(Here.stage, "function_body")
    BY <2>1
  <2> QED
    BY <2>1, <2>2, GotoStep
<1>4. CASE EndUpdates
  <2>1. Here.stage \in {"update", "updates"} /\ Goto("for_close") /\ UNCHANGED heap
    BY <1>4 DEF EndUpdates, At, Here
  <2>2. "for_close" \in Stages /\ Goes(Here.stage, "for_close")
    BY <2>1
  <2> QED
    BY <2>1, <2>2, GotoStep
<1>5. CASE Finish
  BY <1>5 DEF Finish
<1> QED
  BY <1>1, <1>2, <1>3, <1>4, <1>5

LEMMA SoundCall ==
  Sound(frames, heap) /\ (NextStatement \/ NextParameter \/ Body \/ FirstListed \/ NextListed)
    => Sound(frames, heap)'
<1> SUFFICES ASSUME Sound(frames, heap)
             PROVE  NextStatement \/ NextParameter \/ Body \/ FirstListed \/ NextListed
                      => Sound(frames, heap)'
  OBVIOUS
<1> USE DEF Goes, Listing, Collecting, Bare, Stages, Suspended
<1>1. CASE NextStatement
  <2>1. /\ Here.stage \in {"statements", "block_body"}
        /\ Call(Here.stage, Frame("statement", TRUE)) /\ UNCHANGED heap
    BY <1>1 DEF NextStatement, At, Here
  <2>2. /\ Here.stage \in Stages /\ Here.stage \in Suspended /\ Goes(Here.stage, Here.stage)
        /\ "statement" \in Stages /\ "statement" \notin {"statements", "semicolon"}
        /\ TRUE \in BOOLEAN
    BY <2>1
  <2> QED
    BY <2>1, <2>2, CallStep
<1>2. CASE NextParameter
  <2>1. /\ Here.stage = "parameters"
        /\ Call("parameters", Frame("parameter_type", TRUE)) /\ UNCHANGED heap
    BY <1>2 DEF NextParameter, At, Here
  <2>2. /\ "parameters" \in Stages /\ "parameters" \in Suspended /\ Goes(Here.stage, "parameters")
        /\ "parameter_type" \in Stages /\ "parameter_type" \notin {"statements", "semicolon"}
        /\ TRUE \in BOOLEAN
    BY <2>1
  <2> QED
    BY <2>1, <2>2, CallStep
<1>3. CASE Body
  <2> DEFINE t == IF Here.stage = "for_body" THEN "For" ELSE "Function"
  <2>1. /\ Here.stage \in {"function_body", "for_body"}
        /\ Call(t, Frame("block", TRUE)) /\ UNCHANGED heap
    BY <1>3 DEF Body, At, Here
  <2>2. /\ t \in Stages /\ t \in Suspended /\ Goes(Here.stage, t)
        /\ "block" \in Stages /\ "block" \notin {"statements", "semicolon"}
        /\ TRUE \in BOOLEAN
    BY <2>1
  <2> HIDE DEF t
  <2> QED
    BY <2>1, <2>2, CallStep
<1>4. CASE FirstListed
  <2> DEFINE t == IF Here.stage = "update" THEN "updates" ELSE "initializers"
             b == t = "initializers"
  <2>1. /\ Here.stage \in {"initializer", "update"}
        /\ Call(t, Frame("statement", b)) /\ UNCHANGED heap
    BY <1>4 DEF FirstListed, ListedStatement, At, Here
  <2>2. /\ t \in Stages /\ t \in Suspended /\ Goes(Here.stage, t)
        /\ "statement" \in Stages /\ "statement" \notin {"statements", "semicolon"}
    BY <2>1
  <2>3. b \in BOOLEAN
    OBVIOUS
  <2> HIDE DEF t, b
  <2> QED
    BY <2>1, <2>2, <2>3, CallStep, SMTT(30)
<1>5. CASE NextListed
  <2> DEFINE b == Here.stage = "initializers"
  <2>1. /\ Here.stage \in {"initializers", "updates"}
        /\ Call(Here.stage, Frame("statement", b)) /\ UNCHANGED heap
    BY <1>5 DEF NextListed, ListedStatement, At, Here
  <2>2. /\ Here.stage \in Stages /\ Here.stage \in Suspended /\ Goes(Here.stage, Here.stage)
        /\ "statement" \in Stages /\ "statement" \notin {"statements", "semicolon"}
    BY <2>1
  <2>3. b \in BOOLEAN
    OBVIOUS
  <2> HIDE DEF b
  <2> QED
    BY <2>1, <2>2, <2>3, CallStep, SMTT(30)
<1> QED
  BY <1>1, <1>2, <1>3, <1>4, <1>5

\* A branch: one call, or two at once.
LEMMA SoundBranch == Sound(frames, heap) /\ Branch => Sound(frames, heap)'
<1> SUFFICES ASSUME Sound(frames, heap), Branch PROVE Sound(frames, heap)'
  OBVIOUS
<1> DEFINE t == IF Here.stage = "then" THEN "otherwise" ELSE "If"
           called == [frames EXCEPT ![Len(frames)].stage = t]
           Pushes(stage) == Entered(frames, t, stage, TRUE)
<1>1. /\ Here.stage \in {"then", "else"} /\ UNCHANGED heap
      /\ frames' = called \o (IF it = "{" THEN <<Frame("block", TRUE)>>
                              ELSE <<Frame("Block", TRUE), Frame("statement", TRUE)>>)
  BY DEF Branch, At, Here
<1>2. t \in Stages /\ t \in Suspended /\ Goes(Here.stage, t)
  BY <1>1 DEF Goes, Listing, Collecting, Bare, Stages, Suspended
<1>3. /\ "block" \in Stages /\ "Block" \in Stages /\ "statement" \in Stages /\ TRUE \in BOOLEAN
      /\ "block" \notin {"statements", "semicolon"} /\ "Block" \notin {"statements", "semicolon"}
      /\ "statement" \notin {"statements", "semicolon"} /\ "Block" \in Suspended
  BY DEF Stages, Suspended
<1>4. Here = frames[Len(frames)]
  BY Now
<1> HIDE DEF t
<1>5. ASSUME NEW stage \in {"block", "Block"}
      PROVE  Sound(Pushes(stage), heap) /\ Pushes(stage)[Len(Pushes(stage))].stage = stage
  <2> DEFINE b == TRUE
  <2>1. b \in BOOLEAN /\ stage \in Stages /\ stage \notin {"statements", "semicolon"}
    BY <1>3
  <2> HIDE DEF b
  <2>2. Sound(Entered(frames, t, stage, b), heap)
        /\ Entered(frames, t, stage, b)[Len(Entered(frames, t, stage, b))].stage = stage
    BY <1>2, <1>4, <2>1, CallKeeps
  <2> QED
    BY <2>2 DEF b
<1>6. \A g, h : /\ g \in FrameType => called \o <<g>> = Append(called, g)
                /\ g \in FrameType /\ h \in FrameType
                     => called \o <<g, h>> = Append(Append(called, g), h)
  <2>1. Sound(called, heap)
    BY <1>2, <1>4, GotoKeeps
  <2>2. called \in Seq(FrameType)
    BY <2>1, SoundTop DEF Shaped
  <2> HIDE DEF called
  <2> SUFFICES ASSUME NEW g \in FrameType
               PROVE  /\ called \o <<g>> = Append(called, g)
                      /\ \A h \in FrameType : called \o <<g, h>> = Append(Append(called, g), h)
    OBVIOUS
  <2>3. called \o <<g>> = Append(called, g) /\ <<g>> \in Seq(FrameType)
    BY <2>2, AppendIsConcat
  <2>4. ASSUME NEW h \in FrameType PROVE called \o <<g, h>> = Append(Append(called, g), h)
    <3>1. <<g, h>> = <<g>> \o <<h>> /\ <<h>> \in Seq(FrameType)
      OBVIOUS
    <3>2. called \o (<<g>> \o <<h>>) = (called \o <<g>>) \o <<h>>
      BY <2>2, <2>3, <3>1, ConcatAssociative
    <3>3. Append(called, g) \in Seq(FrameType)
      BY <2>2
    <3>4. Append(Append(called, g), h) = Append(called, g) \o <<h>>
      BY <3>3, AppendIsConcat
    <3> QED
      BY <2>3, <3>1, <3>2, <3>4
  <2> QED
    BY <2>3, <2>4
<1>7. \A stage \in Stages : Frame(stage, TRUE) \in FrameType
  BY DEF Frame, FrameType
<1>8. CASE it = "{"
  <2>1. frames' = Pushes("block")
    BY <1>1, <1>3, <1>6, <1>7, <1>8 DEF Entered
  <2> QED
    BY <1>1, <1>5, <2>1
<1>9. CASE it # "{"
  <2> DEFINE gs == Pushes("Block")
             hs == [gs EXCEPT ![Len(gs)].stage = "Block"]
  <2>1. frames' = Append(gs, Frame("statement", TRUE))
    BY <1>1, <1>3, <1>6, <1>7, <1>9 DEF Entered
  <2>2. Sound(gs, heap) /\ gs[Len(gs)].stage = "Block"
    BY <1>5
  <2> HIDE DEF gs
  <2>3. Sound(Entered(gs, "Block", "statement", TRUE), heap)
    <3>1. Goes(gs[Len(gs)].stage, "Block")
      BY <2>2 DEF Goes
    <3> QED
      BY <1>3, <2>2, <3>1, CallKeeps
  <2>4. hs = gs
    <3>1. gs \in Seq(FrameType) /\ gs[Len(gs)] \in FrameType /\ Len(gs) \in 1..Len(gs)
      BY <2>2, SoundTop, TopFrame DEF Shaped
    <3> DEFINE f == gs[Len(gs)]
    <3>2. [f EXCEPT !.stage = "Block"] = f
      BY <2>2, <3>1 DEF FrameType
    <3>3. [gs EXCEPT ![Len(gs)] = f] = gs
      BY <3>1
    <3> QED
      BY <3>2, <3>3
  <2> QED
    BY <1>1, <2>1, <2>3, <2>4 DEF Entered
<1> QED
  BY <1>8, <1>9

---------------------------------------------------------------------------
(* Steps that make a node or hand one over.                                *)

\* A node without children is made and held in a member.
LEMMA HoldStep ==
  ASSUME Sound(frames, heap), NEW kind \in Kinds,
         NEW t \in Stages, t \notin Bare, t \notin {"statements", "semicolon"},
         Here.stage # "statements", Here.stage \in Listing => t \in Listing,
         heap' = Append(heap, Node(kind, <<>>)), Hold(Fresh, t)
  PROVE  Sound(frames, heap)'
<1> DEFINE r == [Here EXCEPT !.stage = t, !.parts = Append(@, Fresh)]
           hq == Made(heap, kind, <<>>)
<1>1. /\ Len(frames) \in Nat /\ Len(frames) > 0
      /\ Here = frames[Len(frames)] /\ Here \in FrameType
      /\ FrameOK(Here, heap)
      /\ Here.stage = "statements" <=> Len(frames) = 1
      /\ Fresh = Len(heap) + 1
  BY Now
<1>2. Fresh \in Nat
  BY <1>1, SoundTop
<1>3. /\ r \in FrameType /\ r.stage = t /\ r.parts = Append(Here.parts, Fresh)
      /\ r.list = Here.list
  <2> DEFINE p == Append(Here.parts, Fresh)
  <2>1. p \in Seq(Nat)
    BY <1>1, <1>2 DEF FrameType
  <2> HIDE DEF p
  <2>2. r = [Here EXCEPT !.stage = t, !.parts = p]
    BY DEF p
  <2> HIDE DEF r
  <2>3. /\ r \in FrameType /\ r.stage = t /\ r.parts = p /\ r.list = Here.list
    BY <1>1, <2>1, <2>2 DEF FrameType
  <2> QED
    BY <2>3 DEF p
<1>4. FrameOK(r, hq)
  BY <1>1, <1>3 DEF FrameOK
<1>5. frames' = Over(frames, r)
  BY <1>1 DEF Hold, Over
<1> HIDE DEF r, hq
<1>6. Gets(frames[Len(frames)], r, Len(heap) + 1)
  BY <1>1, <1>3 DEF Gets
<1>7. r.stage = "statements" <=> Len(frames) = 1
  BY <1>1, <1>3
<1>8. Sound(Over(frames, r), hq)
  BY <1>3, <1>4, <1>6, <1>7, Grows DEF hq
<1> QED
  BY <1>5, <1>8 DEF hq, Made

LEMMA SoundRead ==
  Sound(frames, heap) /\ (ReadExpression \/ ReadTarget \/ DeclareVariable) => Sound(frames, heap)'
<1> SUFFICES ASSUME Sound(frames, heap)
             PROVE  ReadExpression \/ ReadTarget \/ DeclareVariable => Sound(frames, heap)'
  OBVIOUS
<1> USE DEF Listing, Collecting, Bare, Stages
<1>1. CASE ReadExpression
  <2> DEFINE t == AfterExpression[Here.stage]
  <2>1. /\ Here.stage \in DOMAIN AfterExpression
        /\ heap' = Append(heap, Node("Expression", <<>>)) /\ Hold(Fresh, t)
    BY <1>1 DEF ReadExpression, At, Here
  <2>2. /\ Here.stage \in {"if_condition", "for_condition", "returned_value", "assigned_value",
                           "declared_value"}
        /\ t \in {"if_close", "condition_end", "Return", "Assignment", "VariableDeclaration"}
    BY <2>1 DEF AfterExpression
  <2> HIDE DEF t
  <2>3. /\ t \in Stages /\ t \notin Bare /\ t \notin {"statements", "semicolon"}
        /\ Here.stage # "statements" /\ Here.stage \notin Listing
    BY <2>2
  <2>4. "Expression" \in Kinds
    BY DEF Kinds
  <2> QED
    BY <2>1, <2>3, <2>4, HoldStep
<1>2. CASE ReadTarget
  <2>1. /\ Here.stage = "target"
        /\ heap' = Append(heap, Node("Target", <<>>)) /\ Hold(Fresh, "assign")
    BY <1>2 DEF ReadTarget, At, Here
  <2>2. /\ "assign" \in Stages /\ "assign" \notin Bare /\ "assign" \notin {"statements", "semicolon"}
        /\ Here.stage # "statements" /\ Here.stage \notin Listing
    BY <2>1
  <2>3. "Target" \in Kinds
    BY DEF Kinds
  <2> QED
    BY <2>1, <2>2, <2>3, HoldStep
<1>3. CASE DeclareVariable
  <2>1. /\ Here.stage = "variable"
        /\ heap' = Append(heap, Node("Variable", <<>>)) /\ Hold(Fresh, "array")
    BY <1>3 DEF DeclareVariable, At, Here
  <2>2. /\ "array" \in Stages /\ "array" \notin Bare /\ "array" \notin {"statements", "semicolon"}
        /\ Here.stage # "statements" /\ Here.stage \notin Listing
    BY <2>1
  <2>3. "Variable" \in Kinds
    BY DEF Kinds
  <2> QED
    BY <2>1, <2>2, <2>3, HoldStep
<1> QED
  BY <1>1, <1>2, <1>3

\* The statements of a list become a Block, which is held in a member.
LEMMA WrapStep ==
  ASSUME Sound(frames, heap), NEW t \in Stages, t \notin Bare,
         t \notin {"statements", "semicolon"}, Here.stage # "statements", Wrap(t)
  PROVE  Sound(frames, heap)'
<1> DEFINE r == [Here EXCEPT !.stage = t, !.parts = Append(@, Fresh), !.list = <<>>]
           hq == Made(heap, "Block", Here.list)
<1>1. /\ Len(frames) \in Nat /\ Len(frames) > 0
      /\ Here = frames[Len(frames)] /\ Here \in FrameType
      /\ FrameOK(Here, heap)
      /\ Here.stage = "statements" <=> Len(frames) = 1
      /\ Fresh = Len(heap) + 1
  BY Now
<1>2. Fresh \in Nat
  BY <1>1, SoundTop
<1>3. /\ r \in FrameType /\ r.stage = t /\ r.parts = Append(Here.parts, Fresh)
      /\ r.list = <<>>
  <2> DEFINE p == Append(Here.parts, Fresh)
             e == <<>>
  <2>1. p \in Seq(Nat) /\ e \in Seq(Nat)
    BY <1>1, <1>2 DEF FrameType
  <2> HIDE DEF p, e
  <2>2. r = [Here EXCEPT !.stage = t, !.parts = p, !.list = e]
    BY DEF p, e
  <2> HIDE DEF r
  <2>3. /\ r \in FrameType /\ r.stage = t /\ r.parts = p /\ r.list = e
    BY <1>1, <2>1, <2>2 DEF FrameType
  <2> QED
    BY <2>3 DEF p, e
<1>4. FrameOK(r, hq)
  BY <1>3 DEF FrameOK
<1>5. frames' = Over(frames, r) /\ heap' = hq
  BY <1>1 DEF Wrap, Over, Made
<1> HIDE DEF r
<1>6. r.stage = "statements" <=> Len(frames) = 1
  BY <1>1, <1>3
<1>7. "Block" \in Kinds
  BY DEF Kinds, Compound
<1>8. Sound(Over(frames, r), hq)
  <2> DEFINE kind == "Block"
  <2>1. /\ kind \in Kinds /\ FrameOK(r, Made(heap, kind, frames[Len(frames)].list))
        /\ r.parts = Append(frames[Len(frames)].parts, Len(heap) + 1)
    BY <1>1, <1>3, <1>4, <1>7
  <2> HIDE DEF kind
  <2>2. Sound(Over(frames, r), Made(heap, kind, frames[Len(frames)].list))
    BY <1>3, <1>6, <2>1, Wraps
  <2> QED
    BY <1>1, <2>2 DEF kind
<1> QED
  BY <1>5, <1>8

LEMMA SoundWrap ==
  Sound(frames, heap) /\ (NoInitializer \/ EndInitializers \/ WrapUpdates)
    => Sound(frames, heap)'
<1> SUFFICES ASSUME Sound(frames, heap), NoInitializer \/ EndInitializers \/ WrapUpdates
             PROVE  Sound(frames, heap)'
  OBVIOUS
<1>1. /\ Here.stage # "statements"
      /\ Wrap("for_condition") \/ Wrap("for_body")
  BY DEF NoInitializer, EndInitializers, WrapUpdates, At, Here
<1>2. \A t \in {"for_condition", "for_body"} :
        t \in Stages /\ t \notin Bare /\ t \notin {"statements", "semicolon"}
  BY DEF Stages, Bare
<1>3. ASSUME NEW t \in {"for_condition", "for_body"}, Wrap(t) PROVE Sound(frames, heap)'
  BY <1>1, <1>2, <1>3, WrapStep
<1> QED
  BY <1>1, <1>3

\* The frame that waits for the active one, and what it is with the node n.
LEMMA Caller ==
  ASSUME Sound(frames, heap), Here.stage # "statements", NEW n \in Nat
  PROVE  LET f == frames[Len(frames) - 1]
         IN  /\ Len(frames) > 1
             /\ Received(f, n) \in FrameType
             /\ Received(f, n).stage = f.stage
             /\ Gets(f, Received(f, n), n)
             /\ \A hq : FrameOK(Received(f, n), hq)
             /\ Return(n) => frames' = Over(Pop(frames), Received(f, n))
<1> DEFINE f == frames[Len(frames) - 1]
           r == Received(f, n)
           l == Append(f.list, n)
           p == Append(f.parts, n)
<1>1. /\ Len(frames) \in Nat /\ Len(frames) > 1
      /\ frames \in Seq(FrameType) /\ Shaped(frames, heap)
  BY Now, SoundTop DEF Shaped
<1>2. Len(frames) - 1 \in 1..Len(frames) /\ Len(frames) - 1 \in 1..(Len(frames) - 1)
  BY <1>1
<1>3. f \in FrameType /\ f.stage \in Suspended /\ FrameOK(f, heap)
  BY <1>1, <1>2, ElementOfSeq DEF Shaped
<1>4. p \in Seq(Nat) /\ l \in Seq(Nat)
  BY <1>3 DEF FrameType
<1>5. \/ f.stage \in Collecting /\ r = [f EXCEPT !.list = l]
      \/ f.stage \notin Collecting /\ r = [f EXCEPT !.parts = p]
  BY DEF Received
<1>6. Pop(frames)[Len(frames) - 1] = f /\ Len(Pop(frames)) = Len(frames) - 1
  BY <1>1, <1>2, Popped
<1>7. Return(n) => frames' = Over(Pop(frames), r)
  BY <1>6 DEF Return, Over
<1> HIDE DEF f, r, l, p
<1>8. /\ r \in FrameType /\ r.stage = f.stage
      /\ \/ f.stage \in Collecting /\ r.list = l /\ r.parts = f.parts
         \/ f.stage \notin Collecting /\ r.list = f.list /\ r.parts = p
  BY <1>3, <1>4, <1>5 DEF FrameType
<1>9. Gets(f, r, n)
  BY <1>8 DEF Gets, l, p
<1>10. \A hq : FrameOK(r, hq)
  BY <1>3, <1>8 DEF FrameOK, Suspended, Bare, Listing
<1> QED
  BY <1>1, <1>7, <1>8, <1>9, <1>10 DEF f, r

\* A node is made of all that the active production holds, and is returned.
LEMMA ReturnStep ==
  ASSUME Sound(frames, heap), Here.stage # "statements", NEW kind \in Kinds,
         heap' = Append(heap, Node(kind, Here.list \o Here.parts)), Return(Fresh)
  PROVE  Sound(frames, heap)'
<1> DEFINE f == frames[Len(frames) - 1]
           r == Received(f, Fresh)
           k == Here.list \o Here.parts
<1>1. Here = frames[Len(frames)] /\ Fresh = Len(heap) + 1 /\ Fresh \in Nat
  BY Now, SoundTop
<1>2. /\ Len(frames) > 1 /\ r \in FrameType /\ r.stage = f.stage /\ Gets(f, r, Fresh)
      /\ \A hq : FrameOK(r, hq)
      /\ frames' = Over(Pop(frames), r)
  BY <1>1, Caller
<1>3. k = frames[Len(frames)].list \o frames[Len(frames)].parts /\ heap' = Made(heap, kind, k)
  BY <1>1 DEF Made
<1> HIDE DEF r, k
<1>4. Sound(Over(Pop(frames), r), Made(heap, kind, k))
  BY <1>1, <1>2, <1>3, Returns
<1> QED
  BY <1>2, <1>3, <1>4

LEMMA SoundParameter == Sound(frames, heap) /\ BuildParameter => Sound(frames, heap)'
<1> SUFFICES ASSUME Sound(frames, heap), BuildParameter PROVE Sound(frames, heap)'
  OBVIOUS
<1>1. /\ Here.stage = "FunctionParameter"
      /\ heap' = Append(heap, Node("FunctionParameter", <<>>))
      /\ Return(Fresh)
  BY DEF BuildParameter, At, Here
<1>2. Here.list = <<>> /\ Here.parts = <<>>
  BY <1>1, Now DEF FrameOK, Listing, Collecting, Bare
<1>3. Here.list \o Here.parts = <<>>
  BY <1>2
<1>4. heap' = Append(heap, Node("FunctionParameter", Here.list \o Here.parts))
  BY <1>1, <1>3
<1>5. "FunctionParameter" \in Kinds /\ Here.stage # "statements"
  BY <1>1 DEF Kinds
<1> QED
  BY <1>1, <1>4, <1>5, ReturnStep

LEMMA SoundBuild == Sound(frames, heap) /\ Build => Sound(frames, heap)'
<1> SUFFICES ASSUME Sound(frames, heap), Build PROVE Sound(frames, heap)'
  OBVIOUS
<1> DEFINE kind == Here.stage
           k == Here.list \o Here.parts
           hq == Made(heap, kind, k)
<1>1. /\ kind \in Simple \cup Compound
      /\ heap' = Append(heap, Node(kind, k))
      /\ IF kind \in Simple /\ Here.gobble
         THEN frames' = [frames EXCEPT ![Len(frames)] =
                           [Here EXCEPT !.stage = "semicolon", !.parts = <<Fresh>>]]
         ELSE Return(Fresh)
  BY Now DEF Build, At, Here, Top
<1>2. kind \in Kinds /\ Here.stage # "statements"
  BY <1>1 DEF Kinds, Simple, Compound
<1>3. CASE ~(kind \in Simple /\ Here.gobble)
  BY <1>1, <1>2, <1>3, ReturnStep
<1>4. CASE kind \in Simple /\ Here.gobble
  <2> DEFINE p == <<Fresh>>
             t == "semicolon"
             r == [Here EXCEPT !.stage = t, !.parts = p]
  <2>1. /\ Len(frames) \in Nat /\ Len(frames) > 0
        /\ Here = frames[Len(frames)] /\ Here \in FrameType
        /\ FrameOK(Here, heap)
        /\ Here.stage = "statements" <=> Len(frames) = 1
        /\ Fresh = Len(heap) + 1
    BY Now
  <2>2. Fresh \in Nat /\ heap \in Seq(NodeType) /\ OwnsOlder(heap) /\ k \in Seq(1..Len(heap))
    BY <2>1, SoundTop, ConcatProperties
  <2>3. Here.list = <<>>
    BY <1>4, <2>1 DEF FrameOK, Simple, Listing, Collecting
  <2>4. p \in Seq(Nat) /\ t \in Stages
    BY <2>2 DEF Stages
  <2>5. frames' = Over(frames, r)
    BY <1>1, <1>4 DEF Over
  <2> HIDE DEF p
  <2>6. r \in FrameType /\ r.stage = t /\ r.parts = p /\ r.list = <<>>
    BY <2>1, <2>3, <2>4 DEF FrameType
  <2> HIDE DEF r
  <2>7. hq[Len(heap) + 1].kind = kind /\ Len(hq) = Len(heap) + 1
    <3> HIDE DEF k, kind
    <3>1. /\ Made(heap, kind, k) \in Seq(NodeType)
          /\ Len(Made(heap, kind, k)) = Len(heap) + 1
          /\ Made(heap, kind, k)[Len(heap) + 1].kind = kind
          /\ OneMore(heap, Made(heap, kind, k), k)
          /\ Extends(heap, Made(heap, kind, k))
          /\ OwnsOlder(Made(heap, kind, k))
      BY <1>2, <2>2, HeapGrows
    <3> QED
      BY <3>1
  <2>8. FrameOK(r, hq)
    <3>1. Len(p) = 1 /\ p[1] = Len(heap) + 1 /\ Len(heap) \in Nat
      BY <2>1, <2>2, LenProperties DEF p
    <3>2. p[1] \in 1..Len(hq) /\ hq[p[1]].kind \in Simple
      BY <1>4, <2>7, <3>1
    <3> HIDE DEF hq
    <3> QED
      BY <2>6, <3>1, <3>2 DEF FrameOK, Bare
  <2>9. r.stage = "statements" <=> Len(frames) = 1
    BY <1>2, <2>1, <2>6
  <2>10. k = frames[Len(frames)].list \o frames[Len(frames)].parts /\ r.parts = <<Len(heap) + 1>>
    BY <2>1, <2>6 DEF p
  <2> HIDE DEF k, kind
  <2>11. Sound(Over(frames, r), Made(heap, kind, k))
    BY <1>2, <2>6, <2>8, <2>9, <2>10, Pends
  <2> QED
    BY <1>1, <2>5, <2>11 DEF Made
<1> QED
  BY <1>3, <1>4

LEMMA SoundGobble == Sound(frames, heap) /\ GobbleSemicolon => Sound(frames, heap)'
<1> SUFFICES ASSUME Sound(frames, heap), GobbleSemicolon PROVE Sound(frames, heap)'
  OBVIOUS
<1> DEFINE x == Here.parts[1]
           f == frames[Len(frames) - 1]
           r == Received(f, x)
<1>1. Here.stage = "semicolon" /\ Return(x) /\ UNCHANGED heap
  BY DEF GobbleSemicolon, At, Here
<1>2. /\ Here = frames[Len(frames)] /\ Here \in FrameType
      /\ Len(Here.parts) = 1 /\ x \in 1..Len(heap) /\ Here.list = <<>>
  BY <1>1, Now DEF FrameOK, Listing, Collecting
<1>3. Here.parts = <<x>>
  BY <1>2 DEF FrameType
<1>4. x \in Nat
  BY <1>2
<1> HIDE DEF x
<1>5. /\ Len(frames) > 1 /\ r \in FrameType /\ r.stage = f.stage /\ Gets(f, r, x)
      /\ \A hq : FrameOK(r, hq)
      /\ frames' = Over(Pop(frames), r)
  BY <1>1, <1>4, Caller
<1> HIDE DEF r
<1>6. Sound(Over(Pop(frames), r), heap)
  BY <1>2, <1>3, <1>5, HandsUp
<1> QED
  BY <1>1, <1>5, <1>6

\* The steps that throw: with the frames as they are, or past a raw pointer.
Throws == \/ RejectToken \/ RejectExpression \/ RejectTarget \/ RejectSemicolon \/ RejectDeclaration
          \/ LoseParameter \/ RefuseLexeme
PassesRaw == /\ Here.stage # "semicolon"
             /\ \E how \in {"threw", "refused"} : \E kind \in Pointed["raw"] : ThrowRaw(how, kind)

LEMMA ThrowsHow ==
  ASSUME Throws
  PROVE  /\ pc = "parse" /\ pc' \in {"threw", "refused"}
         /\ pc' = "refused" <=> LoseParameter \/ RefuseLexeme
         /\ Stay
         /\ UNCHANGED <<heap, frames>> \/ PassesRaw
<1>1. Pointed["raw"] = {"Expression", "Target", "FunctionParameter"}
  BY DEF Pointed
<1>2. CASE RejectToken \/ RejectSemicolon \/ RejectDeclaration
  <2>1. Throw /\ pc = "parse"
    BY <1>2 DEF RejectToken, RejectSemicolon, RejectDeclaration, At
  <2>2. ~LoseParameter /\ ~RefuseLexeme
    BY <2>1 DEF LoseParameter, RefuseLexeme, ThrowRaw, Throw
  <2> QED
    BY <2>1, <2>2 DEF Throw
<1>3. CASE RejectExpression \/ RejectTarget
  <2>1. /\ pc = "parse" /\ Here.stage # "semicolon"
        /\ \/ Throw
           \/ \E kind \in Pointed["raw"] : ThrowRaw("threw", kind)
    BY <1>1, <1>3 DEF RejectExpression, RejectTarget, At, Here, AfterExpression
  <2>2. pc' = "threw" /\ Stay /\ (UNCHANGED <<heap, frames>> \/ PassesRaw)
    BY <2>1 DEF Throw, ThrowRaw, PassesRaw
  <2>3. ~LoseParameter /\ ~RefuseLexeme
    BY <2>2 DEF LoseParameter, RefuseLexeme, ThrowRaw
  <2> QED
    BY <2>1, <2>2, <2>3
<1>4. CASE LoseParameter
  <2>1. pc = "parse" /\ Here.stage # "semicolon" /\ ThrowRaw("refused", "FunctionParameter")
    BY <1>4 DEF LoseParameter, At, Here
  <2> QED
    BY <1>1, <1>4, <2>1 DEF ThrowRaw, PassesRaw
<1>5. CASE RefuseLexeme
  BY <1>5 DEF RefuseLexeme, Stay, At
<1> QED
  BY <1>2, <1>3, <1>4, <1>5 DEF Throws

LEMMA SoundStep == Sound(frames, heap) /\ [Next]_vars => Sound(frames, heap)' \/ PassesRaw
<1> SUFFICES ASSUME Sound(frames, heap), [Next]_vars PROVE Sound(frames, heap)' \/ PassesRaw
  OBVIOUS
<1>1. CASE UNCHANGED vars
  BY <1>1 DEF vars
<1>2. CASE Throws
  BY <1>2, ThrowsHow
<1>3. CASE Step /\ ~Throws
  BY <1>3, SoundToken, SoundDispatch, SoundGoto, SoundCall, SoundBranch, SoundRead, SoundWrap,
     SoundBuild, SoundParameter, SoundGobble DEF Step, Throws
<1> QED
  BY <1>1, <1>2, <1>3 DEF Next, Finished

LEMMA RunningNow ==
  ASSUME Step
  PROVE  pc = "parse"
<1>1. CASE \/ ExpectToken \/ ReadSecret \/ ReadExpression \/ ReadTarget
           \/ DispatchKeyword \/ Dispatch \/ Build \/ GobbleSemicolon
           \/ ReturnNothing \/ DeclareVariable \/ OpenArray \/ DeclareOnly \/ Initialize
  BY <1>1 DEF ExpectToken, ReadSecret, ReadExpression, ReadTarget, DispatchKeyword, Dispatch, Build,
              GobbleSemicolon, ReturnNothing, DeclareVariable, OpenArray, DeclareOnly, Initialize, At
<1>2. CASE \/ NextStatement \/ CloseBlock \/ Branch \/ Otherwise
           \/ NextParameter \/ BuildParameter \/ CloseParameters \/ Body
           \/ NoInitializer \/ FirstListed \/ NextListed \/ EndInitializers \/ EndUpdates \/ WrapUpdates
  BY <1>2 DEF NextStatement, CloseBlock, Branch, Otherwise, NextParameter, BuildParameter, CloseParameters,
              Body, NoInitializer, FirstListed, NextListed, EndInitializers, EndUpdates, WrapUpdates, At
<1>3. CASE Throws \/ Finish
  BY <1>3, ThrowsHow DEF Finish, At
<1> QED
  BY <1>1, <1>2, <1>3 DEF Step, Throws

\* A state behind an exception that passed a raw pointer.
RawFrame(x) == [Frame("raw", FALSE) EXCEPT !.parts = <<x>>]
Torn == /\ pc \in {"threw", "refused"}
        /\ \E fs, hp : \E kind \in Pointed["raw"] :
             /\ Sound(fs, hp) /\ fs[Len(fs)].stage # "semicolon"
             /\ frames = Append(fs, RawFrame(Len(hp) + 1))
             /\ heap = Made(hp, kind, <<>>)

\* Every state is sound, or was until an exception came.
LEMMA SoundOrTorn ==
  (Sound(frames, heap) \/ Torn) /\ [Next]_vars => (Sound(frames, heap) \/ Torn)'
<1> SUFFICES ASSUME Sound(frames, heap) \/ Torn, [Next]_vars PROVE (Sound(frames, heap) \/ Torn)'
  OBVIOUS
<1>1. CASE PassesRaw /\ Sound(frames, heap)
  <2>1. PICK how \in {"threw", "refused"}, kind \in Pointed["raw"] : ThrowRaw(how, kind)
    BY <1>1 DEF PassesRaw
  <2>2. /\ pc' \in {"threw", "refused"}
        /\ frames' = Append(frames, RawFrame(Len(heap) + 1))
        /\ heap' = Made(heap, kind, <<>>)
    BY <2>1 DEF ThrowRaw, RawFrame, Fresh, Made
  <2>3. frames[Len(frames)].stage # "semicolon"
    BY <1>1 DEF PassesRaw, Here, Top
  <2> QED
    BY <1>1, <2>2, <2>3 DEF Torn
<1>2. CASE Torn
  <2>1. UNCHANGED vars
    BY <1>2, RunningNow DEF Torn, Next, Finished
  <2> QED
    BY <1>2, <2>1 DEF Torn, vars
<1> QED
  BY <1>1, <1>2, SoundStep

LEMMA SoundInit == Init => Sound(frames, heap)
<1> SUFFICES ASSUME Init PROVE Sound(frames, heap)
  OBVIOUS
<1> DEFINE f == Frame("statements", FALSE)
<1>1. heap = <<>> /\ frames = <<f>>
  BY DEF Init
<1>2. f \in FrameType /\ f.stage = "statements" /\ f.parts = <<>> /\ f.list = <<>>
  BY DEF Frame, FrameType, Stages
<1> HIDE DEF f
<1>3. /\ heap \in Seq(NodeType) /\ Len(heap) = 0 /\ frames \in Seq(FrameType)
      /\ Len(frames) = 1 /\ frames[1] = f
  BY <1>1, <1>2
<1>4. FrameOK(f, heap)
  BY <1>2 DEF FrameOK
<1>5. Shaped(frames, heap)
  BY <1>2, <1>3, <1>4 DEF Shaped
<1>6. HoldingOf(frames, heap) \in [Holder -> {<<>>}]
  <2>1. ASSUME NEW h \in Holder PROVE HoldingOf(frames, heap)[h] = <<>>
    <3>1. h[1] \in {"parts", "list", "node"} /\ h[2] \in Nat
      BY HolderIsPair
    <3>2. h[2] \in 1..Len(frames) => frames[h[2]] = f
      BY <1>3
    <3> QED
      BY <1>2, <1>3, <3>1, <3>2 DEF HoldingOf
  <2> QED
    BY <2>1 DEF HoldingOf
<1>7. Owned(Holder, HoldingOf(frames, heap), 1..Len(heap))
  <2>1. 1..Len(heap) = {}
    BY <1>3
  <2> QED
    BY <1>6, <2>1, NothingOwned
<1> QED
  BY <1>3, <1>5, <1>7 DEF Sound, OwnsOlder

---------------------------------------------------------------------------
(* What an exception leaves behind.                                        *)

\* The nodes that the production f holds, and those that all of them hold.
HeldBy(f) == Range(f.parts) \cup Range(f.list)
Roots(F) == UNION {HeldBy(frames[f]) : f \in F}

\* What sound states and those behind an exception have in common.
Keeping == /\ Len(heap) \in Nat /\ Len(frames) \in Nat
           /\ OwnsOlder(heap)
           /\ Owned(Holder, HoldingOf(frames, heap), NodeIds)

LEMMA SoundKeeps == Sound(frames, heap) => Keeping
BY SoundTop DEF Keeping, NodeIds

\* The raw pointer holds the newest node.
LEMMA RawKeeps ==
  ASSUME NEW fs, NEW hp, Sound(fs, hp), NEW kind \in Pointed["raw"],
         frames = Append(fs, RawFrame(Len(hp) + 1)), heap = Made(hp, kind, <<>>)
  PROVE  /\ Keeping
         /\ Len(frames) = Len(fs) + 1
         /\ \A j \in 1..Len(fs) : frames[j] = fs[j]
         /\ Here = RawFrame(Len(hp) + 1) /\ frames[Len(frames)] = Here
         /\ heap[Len(hp) + 1].kind = kind
<1> DEFINE n == Len(fs)
           x == Len(hp) + 1
           e == Frame("raw", FALSE)
           r == RawFrame(x)
           es == Append(fs, e)
           S == FrameType \cup {e, r}
<1>1. /\ hp \in Seq(NodeType) /\ Len(hp) \in Nat /\ OwnsOlder(hp)
      /\ Owned(Holder, HoldingOf(fs, hp), 1..Len(hp)) /\ fs \in Seq(FrameType) /\ n \in Nat
  BY SoundTop DEF Shaped
<1>2. fs \in Seq(S) /\ e \in S /\ r \in S
  BY <1>1, SeqMonotonic
<1>3. /\ e.parts = <<>> /\ e.list = <<>> /\ r.parts = <<x>> /\ r.list = <<>>
      /\ <<x>> = Append(<<>>, x)
  BY DEF Frame, RawFrame
<1>4. kind \in Kinds /\ <<>> \in Seq(1..Len(hp))
  BY DEF Pointed, Kinds
<1> HIDE DEF e, r, S, x, n
<1>5. /\ Len(es) = n + 1 /\ es[n + 1] = e /\ \A j \in 1..n : es[j] = fs[j]
  BY <1>2, Pushed DEF n
<1>6. /\ Len(frames) = n + 1 /\ frames[n + 1] = r /\ \A j \in 1..n : frames[j] = fs[j]
  BY <1>2, Pushed DEF n, r, x
<1>7. /\ Len(heap) = Len(hp) + 1 /\ heap[Len(hp) + 1].kind = kind
      /\ OneMore(hp, heap, <<>>) /\ OwnsOlder(heap)
  BY <1>1, <1>4, HeapGrows
<1> HIDE DEF es
<1>8. HoldingOf(fs, heap) = HoldingOf(fs, hp)
  <2> DEFINE K == HoldingOf(fs, hp)
             y == <<"node", Len(hp) + 1>>
  <2>1. HoldingOf(fs, heap) = [K EXCEPT ![y] = <<>>]
    BY <1>1, <1>7, HoldNode
  <2>2. y \in Holder /\ K[y] = <<>>
    BY <1>1 DEF Holder, HoldingOf
  <2>3. K \in [Holder -> Seq(1..Len(hp))]
    BY <1>1 DEF Owned
  <2> HIDE DEF K, y
  <2> QED
    BY <2>1, <2>2, <2>3 DEF K
<1>9. HoldingOf(es, heap) = HoldingOf(fs, heap)
  BY <1>1, <1>3, <1>5, HoldPush DEF n
<1>10. Owned(Holder, HoldingOf(frames, heap), (1..Len(hp)) \cup {x})
  <2>1. Differ(es, frames, n + 1)
    <3>1. \A j \in 1..(n + 1) : j # n + 1 => j \in 1..n
      BY <1>1
    <3> QED
      BY <1>5, <1>6, <3>1 DEF Differ
  <2>2. Gets(es[n + 1], frames[n + 1], x)
    BY <1>3, <1>5, <1>6 DEF Gets
  <2>3. x \notin 1..Len(hp) /\ n + 1 \in 1..Len(es) /\ Len(es) \in Nat /\ Len(heap) \in Nat
    BY <1>1, <1>5, <1>7 DEF x
  <2>4. Owned(Holder, HoldingOf(es, heap), 1..Len(hp))
    BY <1>1, <1>8, <1>9
  <2> QED
    BY <2>1, <2>2, <2>3, <2>4, GiveFrame
<1>11. NodeIds = (1..Len(hp)) \cup {x}
  BY <1>1, <1>7, NextNode DEF NodeIds, x
<1>12. Len(frames) \in Nat /\ Len(heap) \in Nat
  BY <1>1, <1>6, <1>7
<1>13. Keeping
  BY <1>7, <1>10, <1>11, <1>12 DEF Keeping
<1> QED
  BY <1>6, <1>7, <1>13 DEF n, r, x, Here, Top

\* A node has a production or a parent, and not two of them.
LEMMA HeldOnce ==
  ASSUME Keeping
  PROVE  /\ \A f \in 1..Len(frames) : HeldBy(frames[f]) \subseteq NodeIds
         /\ \A n \in NodeIds : \/ \E f \in 1..Len(frames) : n \in HeldBy(frames[f])
                               \/ \E p \in NodeIds : n \in Range(heap[p].kids)
         /\ \A f \in 1..Len(frames) : \A n \in HeldBy(frames[f]) :
              \A p \in NodeIds : n \notin Range(heap[p].kids)
         /\ \A p, q \in NodeIds : p # q => Range(heap[p].kids) \cap Range(heap[q].kids) = {}
         /\ \A f, g \in 1..Len(frames) : f # g => HeldBy(frames[f]) \cap HeldBy(frames[g]) = {}
<1> DEFINE K == HoldingOf(frames, heap)
           P(f) == <<"parts", f>>
           L(f) == <<"list", f>>
           N(n) == <<"node", n>>
<1>1. /\ Len(heap) \in Nat /\ Len(frames) \in Nat
      /\ UNION {Range(K[h]) : h \in Holder} = NodeIds
      /\ \A g, h \in Holder : g # h => Range(K[g]) \cap Range(K[h]) = {}
  <2>1. Len(heap) \in Nat /\ Len(frames) \in Nat /\ Owned(Holder, K, NodeIds)
    BY DEF Keeping
  <2> QED
    BY <2>1 DEF Owned
<1>2. /\ \A f \in Nat : P(f) \in Holder /\ L(f) \in Holder
      /\ \A n \in Nat : N(n) \in Holder
      /\ \A f \in 1..Len(frames) : f \in Nat /\ K[P(f)] = frames[f].parts /\ K[L(f)] = frames[f].list
      /\ \A n \in NodeIds : n \in Nat /\ K[N(n)] = heap[n].kids
  <2>1. /\ \A f \in Nat : P(f) \in Holder /\ L(f) \in Holder
        /\ \A n \in Nat : N(n) \in Holder
    BY HolderIsPair
  <2>2. ASSUME NEW f \in 1..Len(frames)
        PROVE  f \in Nat /\ K[P(f)] = frames[f].parts /\ K[L(f)] = frames[f].list
    <3>1. f \in Nat /\ P(f) \in Holder /\ L(f) \in Holder
      BY <1>1, <2>1
    <3> QED
      BY <3>1 DEF HoldingOf
  <2>3. ASSUME NEW n \in NodeIds PROVE n \in Nat /\ K[N(n)] = heap[n].kids
    <3>1. n \in Nat /\ n \in 1..Len(heap) /\ N(n) \in Holder
      BY <1>1, <2>1 DEF NodeIds
    <3> QED
      BY <3>1 DEF HoldingOf
  <2> HIDE DEF K
  <2> QED
    BY <2>1, <2>2, <2>3
<1>3. \A h \in Holder : \/ \E f \in 1..Len(frames) : Range(K[h]) \subseteq HeldBy(frames[f])
                        \/ \E n \in NodeIds : Range(K[h]) = Range(heap[n].kids)
                        \/ Range(K[h]) = {}
  <2> SUFFICES ASSUME NEW h \in Holder
               PROVE  \/ \E f \in 1..Len(frames) : Range(K[h]) \subseteq HeldBy(frames[f])
                      \/ \E n \in NodeIds : Range(K[h]) = Range(heap[n].kids)
                      \/ Range(K[h]) = {}
    OBVIOUS
  <2>1. h[1] \in {"parts", "list", "node"} /\ h[2] \in Nat
    BY HolderIsPair
  <2>2. \/ \E f \in 1..Len(frames) : K[h] = frames[f].parts \/ K[h] = frames[f].list
        \/ \E n \in NodeIds : K[h] = heap[n].kids
        \/ K[h] = <<>>
    BY <2>1 DEF HoldingOf, NodeIds
  <2> HIDE DEF K
  <2> QED
    BY <2>2, RangeEmpty DEF HeldBy
<1> HIDE DEF K
<1>4. \A f \in 1..Len(frames) : HeldBy(frames[f]) \subseteq NodeIds
  <2> SUFFICES ASSUME NEW f \in 1..Len(frames) PROVE HeldBy(frames[f]) \subseteq NodeIds
    OBVIOUS
  <2>1. P(f) \in Holder /\ L(f) \in Holder /\ K[P(f)] = frames[f].parts /\ K[L(f)] = frames[f].list
    BY <1>2
  <2> QED
    BY <1>1, <2>1 DEF HeldBy
<1>5. \A n \in NodeIds : \/ \E f \in 1..Len(frames) : n \in HeldBy(frames[f])
                         \/ \E p \in NodeIds : n \in Range(heap[p].kids)
  BY <1>1, <1>3
<1>6. ASSUME NEW f \in 1..Len(frames), NEW n \in HeldBy(frames[f]), NEW p \in NodeIds
      PROVE  n \notin Range(heap[p].kids)
  <2>1. /\ P(f) \in Holder /\ L(f) \in Holder /\ N(p) \in Holder
        /\ K[P(f)] = frames[f].parts /\ K[L(f)] = frames[f].list /\ K[N(p)] = heap[p].kids
    BY <1>2
  <2>2. P(f) # N(p) /\ L(f) # N(p)
    OBVIOUS
  <2> QED
    BY <1>1, <2>1, <2>2 DEF HeldBy
<1>7. ASSUME NEW p \in NodeIds, NEW q \in NodeIds, p # q
      PROVE  Range(heap[p].kids) \cap Range(heap[q].kids) = {}
  <2>1. /\ N(p) \in Holder /\ N(q) \in Holder
        /\ K[N(p)] = heap[p].kids /\ K[N(q)] = heap[q].kids
    BY <1>2
  <2>2. N(p) # N(q)
    BY <1>7
  <2> QED
    BY <1>1, <2>1, <2>2
<1>8. ASSUME NEW f \in 1..Len(frames), NEW g \in 1..Len(frames), f # g
      PROVE  HeldBy(frames[f]) \cap HeldBy(frames[g]) = {}
  <2>1. /\ P(f) \in Holder /\ L(f) \in Holder /\ P(g) \in Holder /\ L(g) \in Holder
        /\ K[P(f)] = frames[f].parts /\ K[L(f)] = frames[f].list
        /\ K[P(g)] = frames[g].parts /\ K[L(g)] = frames[g].list
    BY <1>2
  <2>2. P(f) # P(g) /\ P(f) # L(g) /\ L(f) # P(g) /\ L(f) # L(g)
    BY <1>8
  <2> QED
    BY <1>1, <2>1, <2>2 DEF HeldBy
<1> QED
  BY <1>4, <1>5, <1>6, <1>7, <1>8

\* What goes with the nodes that productions hold: everything, each once.
LEMMA BelowRoots ==
  ASSUME Keeping
  PROVE  /\ \A n \in NodeIds : n \in Below[n] /\ Below[n] \subseteq NodeIds
         /\ \A n \in NodeIds : \E r \in Roots(1..Len(frames)) : n \in Below[r]
         /\ \A r, s \in Roots(1..Len(frames)) : r # s => Below[r] \cap Below[s] = {}
         /\ Roots(1..Len(frames)) \subseteq NodeIds
<1> DEFINE C == [n \in NodeIds |-> Range(heap[n].kids)]
           R == Roots(1..Len(frames))
<1>1. /\ NodeIds = 1..Len(heap) /\ Len(heap) \in Nat /\ \A n \in NodeIds : C[n] \subseteq 1..(n - 1)
  BY DEF Keeping, NodeIds, OwnsOlder
<1>2. \E B : B = [n \in NodeIds |-> {n} \cup UNION {B[k] : k \in Range(heap[n].kids)}]
  <2>1. \A n \in NodeIds : C[n] \subseteq NodeIds
    BY <1>1
  <2>2. PICK B : TreesOf(NodeIds, C, B)
    <3> HIDE DEF C
    <3> QED
      BY <2>1, TreesExist
  <2> QED
    BY <2>2 DEF TreesOf
<1>3. Below = [n \in NodeIds |-> {n} \cup UNION {Below[k] : k \in Range(heap[n].kids)}]
  BY <1>2, Zenon DEF Below
<1>4. TreesOf(1..Len(heap), C, Below)
  BY <1>1, <1>3 DEF TreesOf
<1>5. /\ R \subseteq NodeIds
      /\ \A n \in NodeIds : n \in R \/ \E p \in NodeIds : n \in C[p]
      /\ \A n \in R : \A p \in NodeIds : n \notin C[p]
      /\ \A p, q \in NodeIds : p # q => C[p] \cap C[q] = {}
  <2>1. /\ \A f \in 1..Len(frames) : HeldBy(frames[f]) \subseteq NodeIds
        /\ \A n \in NodeIds : \/ \E f \in 1..Len(frames) : n \in HeldBy(frames[f])
                              \/ \E p \in NodeIds : n \in Range(heap[p].kids)
        /\ \A f \in 1..Len(frames) : \A n \in HeldBy(frames[f]) :
             \A p \in NodeIds : n \notin Range(heap[p].kids)
        /\ \A p, q \in NodeIds : p # q => Range(heap[p].kids) \cap Range(heap[q].kids) = {}
    BY HeldOnce
  <2>2. \A p \in NodeIds : C[p] = Range(heap[p].kids)
    OBVIOUS
  <2>3. \A n : n \in R <=> \E f \in 1..Len(frames) : n \in HeldBy(frames[f])
    BY DEF Roots
  <2> HIDE DEF C, R
  <2>4. R \subseteq NodeIds
    BY <2>1, <2>3
  <2>5. \A n \in NodeIds : n \in R \/ \E p \in NodeIds : n \in C[p]
    BY <2>1, <2>2, <2>3
  <2>6. ASSUME NEW n \in R, NEW p \in NodeIds PROVE n \notin C[p]
    BY <2>1, <2>2, <2>3
  <2>7. ASSUME NEW p \in NodeIds, NEW q \in NodeIds, p # q PROVE C[p] \cap C[q] = {}
    BY <2>1, <2>2, <2>7
  <2> QED
    BY <2>4, <2>5, <2>6, <2>7
<1> HIDE DEF C, R
<1>6. \A n \in NodeIds : n \in Below[n] /\ Below[n] \subseteq NodeIds
  <2>1. \A n \in 1..Len(heap) : C[n] \subseteq 1..(n - 1)
    BY <1>1
  <2>2. \A n \in 1..Len(heap) : n \in Below[n] /\ Below[n] \subseteq 1..Len(heap)
    BY <1>1, <1>4, <2>1, Trees
  <2> QED
    BY <1>1, <2>2
<1>7. /\ \A n \in NodeIds : \E r \in R : n \in Below[r]
      /\ \A r, s \in R : r # s => Below[r] \cap Below[s] = {}
  <2>1. (\A n \in 1..Len(heap) : C[n] \subseteq 1..(n - 1)) /\ RootsOf(1..Len(heap), C, R)
    BY <1>1, <1>5 DEF RootsOf
  <2>2. /\ \A n \in 1..Len(heap) : \E r \in R : n \in Below[r]
        /\ \A r, s \in R : r # s => Below[r] \cap Below[s] = {}
    BY <1>1, <1>4, <2>1, Forest
  <2> QED
    BY <1>1, <2>2
<1> QED
  BY <1>5, <1>6, <1>7 DEF R

\* Where no frame but the last has raw pointers, and it has one, the tree below that
\* is all that is lost.
LEMMA LastLeaks ==
  ASSUME Keeping, Len(frames) > 0,
         \A g \in 1..(Len(frames) - 1) : frames[g].stage \notin DOMAIN Pointed,
         NEW x, Here.stage \in DOMAIN Pointed => HeldBy(frames[Len(frames)]) = {x},
         NodeIds \ Freed # {}
  PROVE  Here.stage \in DOMAIN Pointed /\ NodeIds \ Freed = Below[x]
<1> DEFINE i == Len(frames)
           all == 1..i
           unwound == {g \in all : frames[g].stage \notin DOMAIN Pointed}
<1>1. i \in Nat /\ i \in all /\ \A g \in all : g # i => g \in unwound
  <2>1. i \in Nat /\ i \in all
    BY DEF Keeping
  <2>2. \A g \in all : g # i => g \in 1..(i - 1)
    BY <2>1
  <2> QED
    BY <2>1, <2>2
<1>2. Freed = UNION {Below[n] : n \in Roots(unwound)}
  BY DEF Freed, Roots, HeldBy
<1>3. /\ \A n \in NodeIds : \E r \in Roots(all) : n \in Below[r]
      /\ \A r, s \in Roots(all) : r # s => Below[r] \cap Below[s] = {}
      /\ \A n \in NodeIds : n \in Below[n] /\ Below[n] \subseteq NodeIds
      /\ Roots(all) \subseteq NodeIds
  BY BelowRoots
<1>4. Here.stage \in DOMAIN Pointed
  <2> SUFFICES ASSUME Here.stage \notin DOMAIN Pointed PROVE FALSE
    OBVIOUS
  <2>1. i \in unwound
    BY <1>1 DEF Here, Top
  <2>2. unwound = all
    BY <1>1, <2>1
  <2> HIDE DEF unwound, all
  <2> QED
    BY <1>2, <1>3, <2>2
<1>5. HeldBy(frames[i]) = {x} /\ i \notin unwound
  BY <1>4 DEF Here, Top
<1>6. Roots(all) = Roots(unwound) \cup {x} /\ x \notin Roots(unwound)
  <2>1. \A f, g \in all : f # g => HeldBy(frames[f]) \cap HeldBy(frames[g]) = {}
    BY HeldOnce
  <2>2. unwound \subseteq all /\ all = unwound \cup {i}
    BY <1>1
  <2> HIDE DEF unwound, all
  <2>3. Roots(all) = Roots(unwound) \cup HeldBy(frames[i])
    BY <2>2 DEF Roots
  <2>4. ASSUME NEW g \in unwound PROVE x \notin HeldBy(frames[g])
    <3>1. g \in all /\ g # i
      BY <1>5, <2>2
    <3>2. HeldBy(frames[g]) \cap HeldBy(frames[i]) = {}
      BY <1>1, <2>1, <3>1
    <3> QED
      BY <1>5, <3>2
  <2>5. x \notin Roots(unwound)
    BY <2>4 DEF Roots
  <2> QED
    BY <1>5, <2>3, <2>5
<1>7. NodeIds \ Freed = Below[x]
  <2> HIDE DEF unwound, all
  <2>1. ASSUME NEW n \in NodeIds \ Freed PROVE n \in Below[x]
    BY <1>2, <1>3, <1>6
  <2>2. ASSUME NEW n \in Below[x] PROVE n \in NodeIds \ Freed
    BY <1>2, <1>3, <1>6
  <2> QED
    BY <2>1, <2>2
<1> QED
  BY <1>4, <1>7

\* A frame that holds one node, in its members.
LEMMA HeldOne ==
  ASSUME NEW f, NEW S, f.parts \in Seq(S), Len(f.parts) = 1, f.list = <<>>
  PROVE  HeldBy(f) = {f.parts[1]}
<1>1. DOMAIN f.parts = {1}
  BY LenProperties
<1>2. Range(f.parts) = {f.parts[1]}
  BY <1>1 DEF Range
<1> QED
  BY <1>2, RangeEmpty DEF HeldBy

LEMMA PointedAre ==
  /\ DOMAIN Pointed = {"semicolon", "raw"}
  /\ Pointed["semicolon"] = Simple
  /\ Suspended \cap DOMAIN Pointed = {}
  /\ "raw" \notin Stages
BY DEF Pointed, Suspended, Stages

\* Behind an exception that has passed no raw pointer but that to a statement,
LEMMA SoundLeaks == Sound(frames, heap) => LeaksOneRawTree
<1> SUFFICES ASSUME Sound(frames, heap), NodeIds \ Freed # {}
             PROVE  /\ Here.stage \in DOMAIN Pointed
                    /\ heap[Here.parts[1]].kind \in Pointed[Here.stage]
                    /\ NodeIds \ Freed = Below[Here.parts[1]]
  BY DEF LeaksOneRawTree
<1> DEFINE x == Here.parts[1]
<1>1. /\ Shaped(frames, heap) /\ FrameOK(Here, heap) /\ Here \in FrameType
      /\ Here = frames[Len(frames)] /\ Len(frames) > 0
  BY SoundTop, Now
<1>2. \A g \in 1..(Len(frames) - 1) : frames[g].stage \notin DOMAIN Pointed
  BY <1>1, PointedAre DEF Shaped
<1>3. Here.stage \in DOMAIN Pointed
        => HeldBy(frames[Len(frames)]) = {x} /\ heap[x].kind \in Pointed[Here.stage]
  <2> SUFFICES ASSUME Here.stage \in DOMAIN Pointed
               PROVE  HeldBy(Here) = {x} /\ heap[x].kind \in Pointed[Here.stage]
    BY <1>1
  <2>1. Here.stage = "semicolon" /\ Here.parts \in Seq(Nat)
    BY <1>1, PointedAre DEF FrameType
  <2>2. Here.list = <<>> /\ Len(Here.parts) = 1 /\ heap[x].kind \in Simple
    BY <1>1, <2>1 DEF FrameOK, Listing, Collecting
  <2>3. HeldBy(Here) = {x}
    <3> HIDE DEF Here
    <3> QED
      BY <2>1, <2>2, HeldOne
  <2> QED
    BY <2>1, <2>2, <2>3, PointedAre
<1> HIDE DEF x
<1>4. Here.stage \in DOMAIN Pointed /\ NodeIds \ Freed = Below[x]
  BY <1>1, <1>2, <1>3, SoundKeeps, LastLeaks
<1> QED
  BY <1>3, <1>4 DEF x

\* and behind one that has.
LEMMA TornLeaks == Torn => LeaksOneRawTree
<1> SUFFICES ASSUME NEW fs, NEW hp, NEW kind \in Pointed["raw"], Sound(fs, hp),
                    fs[Len(fs)].stage # "semicolon",
                    frames = Append(fs, RawFrame(Len(hp) + 1)), heap = Made(hp, kind, <<>>),
                    NodeIds \ Freed # {}
             PROVE  /\ Here.stage \in DOMAIN Pointed
                    /\ heap[Here.parts[1]].kind \in Pointed[Here.stage]
                    /\ NodeIds \ Freed = Below[Here.parts[1]]
  BY DEF LeaksOneRawTree, Torn
<1> DEFINE x == Len(hp) + 1
<1>1. /\ Keeping /\ Len(frames) = Len(fs) + 1 /\ \A j \in 1..Len(fs) : frames[j] = fs[j]
      /\ Here = RawFrame(x) /\ frames[Len(frames)] = Here /\ heap[x].kind = kind
  BY RawKeeps
<1>2. Shaped(fs, hp) /\ Len(fs) \in Nat /\ Len(fs) > 0 /\ fs \in Seq(FrameType) /\ Len(hp) \in Nat
  BY SoundTop DEF Shaped
<1>3. \A g \in 1..(Len(frames) - 1) : frames[g].stage \notin DOMAIN Pointed
  <2> SUFFICES ASSUME NEW g \in 1..Len(fs) PROVE fs[g].stage \notin {"semicolon", "raw"}
    BY <1>1, <1>2, PointedAre
  <2>1. fs[g].stage # "raw"
    <3>1. fs[g] \in FrameType
      BY <1>2, ElementOfSeq
    <3>2. fs[g].stage \in Stages
      BY <3>1 DEF FrameType
    <3> QED
      BY <3>2, PointedAre
  <2>2. g \in 1..(Len(fs) - 1) => fs[g].stage \in Suspended
    BY <1>2 DEF Shaped
  <2>3. g \in 1..(Len(fs) - 1) \/ g = Len(fs)
    BY <1>2
  <2> QED
    BY <2>1, <2>2, <2>3, PointedAre
<1>4. /\ Here.stage = "raw" /\ Here.list = <<>> /\ Here.parts = <<x>> /\ Here.parts[1] = x
      /\ Here.parts \in Seq({x}) /\ Len(Here.parts) = 1
  BY <1>1 DEF RawFrame, Frame
<1> HIDE DEF x, Here
<1>5. HeldBy(frames[Len(frames)]) = {x}
  BY <1>1, <1>4, HeldOne
<1>6. Here.stage \in DOMAIN Pointed /\ NodeIds \ Freed = Below[x]
  BY <1>1, <1>2, <1>3, <1>5, LastLeaks
<1> QED
  BY <1>1, <1>4, <1>6

---------------------------------------------------------------------------
(* What every reachable state has.                                         *)

\* What the holders have is what the owners have.
LEMMA KeepingOwns == Keeping => NodesAreHeld
<1> SUFFICES ASSUME Keeping
             PROVE  OwnedOnce(Owns, NodeIds) /\ OwnsOlder(heap)
  BY DEF NodesAreHeld, OwnsOlder, NodeIds
<1> DEFINE K == HoldingOf(frames, heap)
<1>1. /\ Owned(Holder, K, NodeIds) /\ OwnsOlder(heap)
      /\ Len(frames) \in Nat /\ Len(heap) \in Nat
  BY DEF Keeping
<1>2. DOMAIN Owns = Owners /\ Owners \subseteq Holder
  BY <1>1 DEF Owns, Owners, Holder, NodeIds
<1>3. ASSUME NEW h \in Owners PROVE Owns[h] = K[h]
  <2>1. \/ h[1] \in {"parts", "list"} /\ h[2] \in 1..Len(frames)
        \/ h[1] = "node" /\ h[2] \in NodeIds
    BY DEF Owners
  <2>2. h \in Holder
    BY <1>2
  <2>3. CASE h[1] = "parts"
    BY <1>1, <2>1, <2>2, <2>3 DEF Owns, HoldingOf
  <2>4. CASE h[1] = "list"
    BY <1>1, <2>1, <2>2, <2>4 DEF Owns, HoldingOf
  <2>5. CASE h[1] = "node"
    BY <1>1, <2>1, <2>2, <2>5 DEF Owns, HoldingOf, NodeIds
  <2> QED
    BY <2>1, <2>3, <2>4, <2>5
<1>4. ASSUME NEW h \in Holder \ Owners PROVE K[h] = <<>>
  <2>1. h[1] \in {"parts", "list", "node"} /\ h[2] \in Nat /\ h = <<h[1], h[2]>>
    BY HolderIsPair
  <2>2. /\ h[1] \in {"parts", "list"} => h[2] \notin 1..Len(frames)
        /\ h[1] = "node" => h[2] \notin NodeIds
    BY <2>1 DEF Owners
  <2> QED
    BY <1>1, <2>1, <2>2 DEF HoldingOf, NodeIds
<1> HIDE DEF K
<1> QED
  BY <1>1, <1>2, <1>3, <1>4, OwnedByOwners

LEMMA TornKeeps == Torn => Keeping
BY RawKeeps DEF Torn

\* Whatever the text, every node that the productions have made is held once, by
\* an active production or a parent, also when an exception has been thrown.
THEOREM EveryNodeIsHeld == Spec => []NodesAreHeld
BY SoundInit, SoundOrTorn, SoundKeeps, TornKeeps, KeepingOwns, PTL DEF Spec

\* Whatever the text and wherever it is in error: what is lost is one tree that the
\* innermost function had in a raw pointer, and nothing of the productions around it.
THEOREM AtMostOneRawTreeLeaks == Spec => []LeaksOneRawTree
BY SoundInit, SoundOrTorn, SoundLeaks, TornLeaks, PTL DEF Spec

\* What a production has read before the token that is looked at: at the stages at
\* which it has no children yet that the text depends on,
ForOpen == Tok("for") ** Tok("(")
Declared == Datatype ** Tok("id")
Public == Tok("public") ** Datatype
Plain == {"statement", "target", "block", "assign", "assigned_value", "returned_value",
          "declared_type", "parameter_type", "variable", "parameter_name", "array",
          "FunctionParameter", "array_close", "initial_value", "declared_value", "if_round",
          "if_condition", "if_close", "then", "for_round", "initializer", "return_type",
          "function_name", "function_round"}
PlainText(stage) ==
  CASE stage \in {"statement", "target", "block"} -> {<<>>}
    [] stage = "assign"         -> Tok("target")
    [] stage = "assigned_value" -> Tok("target") ** Tok("=")
    [] stage = "returned_value" -> Tok("return")
    [] stage \in {"declared_type", "parameter_type"} -> {<<>>} \cup Tok("secret")
    [] stage \in {"variable", "parameter_name"} -> Datatype
    [] stage \in {"array", "FunctionParameter"} -> Declared
    [] stage = "array_close"    -> Declared ** Tok("[")
    [] stage = "initial_value"  -> Declared ** Array
    [] stage = "declared_value" -> Declared ** Array ** Tok("=")
    [] stage = "if_round"       -> Tok("if")
    [] stage = "if_condition"   -> Tok("if") ** Tok("(")
    [] stage = "if_close"       -> Tok("if") ** Tok("(") ** Tok("expr")
    [] stage = "then"           -> Condition
    [] stage = "for_round"      -> Tok("for")
    [] stage = "initializer"    -> ForOpen
    [] stage = "return_type"    -> Tok("public") \cup (Tok("public") ** Tok("secret"))
    [] stage = "function_name"  -> Public
    [] stage = "function_round" -> Public ** Tok("id")

\* and at f with the texts of its children.
Said(T, hp, f, end) ==
  CASE f.stage \in Plain        -> PlainText(f.stage)
    [] f.stage \in Simple \cup Compound -> TextOf(T, hp, f.stage, f.list \o f.parts, end)
    [] f.stage = "statements"   -> Followed({<<>>}, Sentences(T, hp, f.list))
    [] f.stage = "block_body"   -> Followed(Tok("{"), Sentences(T, hp, f.list))
    [] f.stage = "semicolon"    -> T[f.parts[1]][end]
    [] f.stage = "otherwise"    -> Condition ** BranchText(T, hp, f.parts[2], end)
    [] f.stage = "else"         -> Condition ** BranchText(T, hp, f.parts[2], "closed") ** Tok("else")
    [] f.stage = "initializers" -> Followed(ForOpen, Sentences(T, hp, f.list))
    [] f.stage = "for_condition" -> ForStart(T, hp, f.parts[1])
    [] f.stage = "condition_end" -> ForStart(T, hp, f.parts[1]) ** Tok("expr")
    [] f.stage = "update"       -> ForHead(T, hp, f.parts[1])
    [] f.stage \in {"updates", "for_close"} ->
         Followed(ForHead(T, hp, f.parts[1]), Clauses(T, f.list))
    [] f.stage = "update_block" -> ForHeader(T, hp, f.parts[1], f.list)
    [] f.stage = "for_body"     -> ForHeader(T, hp, f.parts[1], hp[f.parts[3]].kids)
    [] f.stage = "parameters"   -> Signature(1..Len(f.list))
    [] f.stage = "function_body" -> Signature(1..Len(f.list)) ** Tok(")")

\* What it had read when it called the production that is active.
Waiting(T, hp, f) ==
  CASE f.stage = "Block"     -> {<<>>}
    [] f.stage = "otherwise" -> Condition
    [] f.stage = "If"        -> Condition ** BranchText(T, hp, f.parts[2], "closed") ** Tok("else")
    [] f.stage = "For"       -> ForHeader(T, hp, f.parts[1], hp[f.parts[3]].kids)
    [] f.stage = "Function"  -> Signature(1..Len(f.list)) ** Tok(")")
    [] OTHER                 -> Said(T, hp, f, "any")

\* A branch without braces: its Block has no text of its own yet.
Braceless(fs) ==
  LET f == fs[Len(fs)]
  IN  /\ f.stage = "Block" /\ Len(f.list) = 1
      /\ Len(fs) > 1 /\ fs[Len(fs) - 1].stage \in {"otherwise", "If"}
Spoken(T, hp, fs, end) ==
  LET f == fs[Len(fs)]
  IN  Said(T, hp, f, end)
        \cup IF Braceless(fs) THEN Sentence(T, hp, f.list[1], end) ELSE {}

\* The texts of the productions that wait, and of all of them.
WaitingOf(T, hp, fs, n) == Followed({<<>>}, [i \in 1..n |-> Waiting(T, hp, fs[i])])
Outer(T, hp, fs) == WaitingOf(T, hp, fs, Len(fs) - 1)
Heard(T, hp, fs, end) == Outer(T, hp, fs) ** Spoken(T, hp, fs, end)

\* How many members a production has at a stage, and when it waits.
One == {"assign", "assigned_value", "array", "array_close", "initial_value", "declared_value",
        "if_close", "then", "for_condition", "semicolon", "Function"}
Two == {"Assignment", "otherwise", "else", "condition_end", "update", "updates", "for_close",
        "update_block"}
Members(stage) ==
  CASE stage = "Return" -> {0, 1}
    [] stage = "VariableDeclaration" -> {1, 2}
    [] stage = "If" -> {2, 3}
    [] stage = "for_body" -> {3}
    [] stage = "For" -> {4}
    [] stage \in One -> {1}
    [] stage \in Two -> {2}
    [] OTHER -> {0}
WaitingMembers(stage) ==
  CASE stage = "otherwise" -> {1}
    [] stage = "If" -> {2}
    [] stage = "For" -> {3}
    [] stage = "Function" -> {0}
    [] OTHER -> Members(stage)

\* The callers of statements, with and without the semicolon, and of blocks.
Gobbling == {"statements", "block_body", "Block", "initializers"}
Lists == {"initializers", "updates"}
Branching == {"otherwise", "If", "For", "Function"}
\* g may have been called by f.
Fits(f, g) ==
  /\ g.stage \in Bare <=> f.stage = "parameters"
  /\ f.stage \in Gobbling => g.gobble
  /\ f.stage = "updates" => ~g.gobble
  /\ f.stage \in Branching => g.stage \in {"block", "block_body", "Block"}

\* A production that waits: a Block only for the single statement of a branch, and
\* the lists of a for after their first statement only where the comma, which is not
\* gobbled, will make the second one fail.
WaitsWell(fs, look, i) ==
  /\ Len(fs[i].parts) \in WaitingMembers(fs[i].stage)
  /\ Fits(fs[i], fs[i + 1])
  /\ fs[i].stage = "Block" => fs[i].list = <<>> /\ i > 1 /\ fs[i - 1].stage \in {"otherwise", "If"}
  /\ fs[i].stage \in Lists =>
       \/ fs[i].list = <<>>
       \/ /\ Len(fs[i].list) = 1
          /\ i + 1 = Len(fs) /\ fs[i + 1].stage \in {"statement", "target"} /\ look = ","
WorksWell(f) ==
  /\ Len(f.parts) \in Members(f.stage)
  /\ f.stage \in Lists => Len(f.list) = 1
  /\ f.stage = "semicolon" => f.gobble
Formed(fs, look) ==
  /\ \A i \in 1..(Len(fs) - 1) : WaitsWell(fs, look, i)
  /\ WorksWell(fs[Len(fs)])

Closings(look) == {"any"} \cup (IF look = "else" THEN {"closed"} ELSE {})

---------------------------------------------------------------------------
(* Texts and sets of them.                                                 *)

Languages == SUBSET Seq(Symbols)

\* A text of A ** B is one of A with one of B behind it.
LEMMA Apart ==
  ASSUME NEW A, NEW B, NEW w \in A ** B
  PROVE  \E a \in A, b \in B : w = a \o b
BY DEF **

LEMMA Both ==
  ASSUME NEW A, NEW B, NEW a \in A, NEW b \in B
  PROVE  a \o b \in A ** B
BY DEF **

\* What is read is a set of texts,
LEMMA BehindType ==
  ASSUME NEW A \in Languages, NEW B \in Languages
  PROVE  A ** B \in Languages
<1>1. ASSUME NEW w \in A ** B PROVE w \in Seq(Symbols)
  <2>1. PICK a \in A, b \in B : w = a \o b
    BY Apart
  <2>2. a \in Seq(Symbols) /\ b \in Seq(Symbols)
    BY DEF Languages
  <2> QED
    BY <2>1, <2>2, ConcatProperties
<1> QED
  BY <1>1 DEF Languages

\* in which only the order matters,
LEMMA Associative ==
  ASSUME NEW A \in Languages, NEW B \in Languages, NEW C \in Languages
  PROVE  (A ** B) ** C = A ** (B ** C)
<1>1. \A a \in A, b \in B, c \in C : (a \o b) \o c = a \o (b \o c)
  <2> TAKE a \in A, b \in B, c \in C
  <2>1. a \in Seq(Symbols) /\ b \in Seq(Symbols) /\ c \in Seq(Symbols)
    BY DEF Languages
  <2> QED
    BY <2>1, ConcatAssociative
<1>2. ASSUME NEW w \in (A ** B) ** C PROVE w \in A ** (B ** C)
  <2>1. PICK d \in A ** B, c \in C : w = d \o c
    BY Apart
  <2>2. PICK a \in A, b \in B : d = a \o b
    BY Apart
  <2>3. w = a \o (b \o c)
    BY <1>1, <2>1, <2>2
  <2>4. b \o c \in B ** C
    BY Both
  <2>5. a \o (b \o c) \in A ** (B ** C)
    BY <2>4, Both
  <2> QED
    BY <2>3, <2>5, Zenon
<1>3. ASSUME NEW w \in A ** (B ** C) PROVE w \in (A ** B) ** C
  <2>1. PICK a \in A, d \in B ** C : w = a \o d
    BY Apart
  <2>2. PICK b \in B, c \in C : d = b \o c
    BY Apart
  <2>3. w = (a \o b) \o c
    BY <1>1, <2>1, <2>2
  <2>4. a \o b \in A ** B
    BY Both
  <2>5. (a \o b) \o c \in (A ** B) ** C
    BY <2>4, Both
  <2> QED
    BY <2>3, <2>5, Zenon
<1> QED
  BY <1>2, <1>3

\* to which more texts only add more,
LEMMA Monotone ==
  ASSUME NEW A, NEW B, NEW C, NEW D, A \subseteq C, B \subseteq D
  PROVE  A ** B \subseteq C ** D
BY DEF **

\* and which nothing leaves as it is.
LEMMA Silent ==
  ASSUME NEW A \in Languages
  PROVE  {<<>>} ** A = A /\ A ** {<<>>} = A /\ {<<>>} \in Languages
<1>1. \A a \in A : a \o <<>> = a /\ <<>> \o a = a
  <2> TAKE a \in A
  <2>1. a \in Seq(Symbols)
    BY DEF Languages
  <2> QED
    BY <2>1, ConcatEmptySeq
<1>2. {<<>>} ** A = A
  BY <1>1 DEF **
<1>3. A ** {<<>>} = A
  BY <1>1 DEF **
<1> QED
  BY <1>2, <1>3 DEF Languages

LEMMA Either ==
  ASSUME NEW A, NEW B, NEW C
  PROVE  (A \cup B) ** C = (A ** C) \cup (B ** C)
<1>1. ASSUME NEW w
      PROVE  w \in (A \cup B) ** C <=> w \in A ** C \/ w \in B ** C
  BY DEF **
<1> QED
  BY <1>1

LEMMA EitherBehind ==
  ASSUME NEW A, NEW B, NEW C
  PROVE  C ** (A \cup B) = (C ** A) \cup (C ** B)
<1>1. ASSUME NEW w
      PROVE  w \in C ** (A \cup B) <=> w \in C ** A \/ w \in C ** B
  BY DEF **
<1> QED
  BY <1>1

LEMMA UnionType ==
  ASSUME NEW A \in Languages, NEW B \in Languages
  PROVE  A \cup B \in Languages
BY DEF Languages

LEMMA TokType ==
  ASSUME NEW t \in Symbols
  PROVE  Tok(t) \in Languages
<1>1. <<t>> \in Seq(Symbols)
  OBVIOUS
<1> QED
  BY <1>1 DEF Languages, Tok

\* A symbol is read.
LEMMA Reads ==
  ASSUME NEW A \in Languages, NEW B \in Languages, NEW t \in Symbols, NEW w \in A ** B
  PROVE  Append(w, t) \in A ** (B ** Tok(t))
<1>1. A ** B \in Languages /\ Tok(t) \in Languages
  BY BehindType, TokType
<1>2. w \in Seq(Symbols)
  BY <1>1 DEF Languages
<1>3. Append(w, t) = w \o <<t>>
  BY <1>2
<1>4. Append(w, t) \in (A ** B) ** Tok(t)
  BY <1>3, SMTT(40) DEF **, Tok
<1> QED
  BY <1>1, <1>4, Associative

---------------------------------------------------------------------------
(* One text after the other.                                               *)

\* The texts up to each of the sets s.
Fills(u, before, s, n) == u = [i \in 0..n |-> IF i = 0 THEN before ELSE u[i - 1] ** s[i]]

LEMMA FillsOnce ==
  ASSUME NEW n \in Nat, NEW before, NEW s, NEW u, NEW v, Fills(u, before, s, n), Fills(v, before, s, n)
  PROVE  u = v
<1>1. ASSUME NEW i \in 0..n, u[i] # v[i] PROVE FALSE
  <2> DEFINE T == {j \in 0..n : u[j] # v[j]}
  <2>1. PICK m \in T : \A j \in T : m <= j
    <3>1. T \subseteq Nat /\ i \in T
      BY <1>1
    <3> HIDE DEF T
    <3> QED
      BY <3>1, Smallest
  <2>2. /\ m \in 0..n /\ u[m] # v[m]
        /\ u[m] = IF m = 0 THEN before ELSE u[m - 1] ** s[m]
        /\ v[m] = IF m = 0 THEN before ELSE v[m - 1] ** s[m]
    BY DEF Fills
  <2>3. m # 0 /\ m - 1 \in 0..n /\ ~(m <= m - 1)
    BY <2>2
  <2>4. m - 1 \notin T
    <3> HIDE DEF T
    <3> QED
      BY <2>1, <2>3
  <2> QED
    BY <2>2, <2>3, <2>4
<1>2. u = [i \in 0..n |-> u[i]] /\ v = [i \in 0..n |-> v[i]]
  BY DEF Fills
<1> QED
  BY <1>1, <1>2

\* One more.
LEMMA FillsNext ==
  ASSUME NEW n \in Nat, NEW before, NEW s, NEW u, Fills(u, before, s, n)
  PROVE  LET v == [i \in 0..(n + 1) |-> IF i = n + 1 THEN u[n] ** s[n + 1] ELSE u[i]]
         IN  Fills(v, before, s, n + 1) /\ v[n + 1] = u[n] ** s[n + 1]
<1> DEFINE v == [i \in 0..(n + 1) |-> IF i = n + 1 THEN u[n] ** s[n + 1] ELSE u[i]]
<1>1. \A i \in 0..n : u[i] = IF i = 0 THEN before ELSE u[i - 1] ** s[i]
  BY DEF Fills
<1>2. v[n + 1] = u[n] ** s[n + 1] /\ \A i \in 0..n : v[i] = u[i]
  OBVIOUS
<1>3. ASSUME NEW i \in 0..(n + 1) PROVE v[i] = IF i = 0 THEN before ELSE v[i - 1] ** s[i]
  <2> HIDE DEF v
  <2>1. CASE i = n + 1
    <3>1. n \in 0..n /\ i # 0 /\ i - 1 = n
      BY <2>1
    <3> QED
      BY <1>2, <2>1, <3>1
  <2>2. CASE i = 0
    BY <1>1, <1>2, <2>2
  <2>3. CASE i \in 1..n
    <3>1. i \in 0..n /\ i - 1 \in 0..n /\ i # 0
      BY <2>3
    <3> QED
      BY <1>1, <1>2, <3>1
  <2> QED
    BY <2>1, <2>2, <2>3
<1>4. v = [i \in 0..(n + 1) |-> v[i]]
  OBVIOUS
<1>5. v = [i \in 0..(n + 1) |-> IF i = 0 THEN before ELSE v[i - 1] ** s[i]]
  <2> HIDE DEF v
  <2> QED
    BY <1>3, <1>4
<1> HIDE DEF v
<1>6. Fills(v, before, s, n + 1)
  BY <1>5 DEF Fills
<1> QED
  BY <1>2, <1>6 DEF v

LEMMA FillsNone ==
  ASSUME NEW before, NEW s
  PROVE  \E u : Fills(u, before, s, 0) /\ u[0] = before
<1> DEFINE u == [i \in 0..0 |-> before]
<1>1. u = [i \in 0..0 |-> IF i = 0 THEN before ELSE u[i - 1] ** s[i]]
  OBVIOUS
<1>2. u[0] = before
  OBVIOUS
<1> HIDE DEF u
<1> QED
  BY <1>1, <1>2 DEF Fills

LEMMA FillsExist ==
  ASSUME NEW n \in Nat, NEW before, NEW s
  PROVE  \E u : Fills(u, before, s, n)
<1> DEFINE Has(m) == \E u : Fills(u, before, s, m)
           T == {m \in Nat : ~Has(m)}
<1>1. ASSUME T # {} PROVE FALSE
  <2>1. PICK m \in T : \A j \in T : m <= j
    <3>1. T \subseteq Nat
      OBVIOUS
    <3> HIDE DEF T
    <3> QED
      BY <1>1, <3>1, Smallest
  <2>2. m \in Nat /\ ~Has(m) /\ \A j \in Nat : ~Has(j) => m <= j
    <3> HIDE DEF Has
    <3> QED
      BY <2>1
  <2>3. Has(0)
    BY FillsNone
  <2> HIDE DEF T
  <2>4. m # 0
    <3> HIDE DEF Has
    <3> QED
      BY <2>2, <2>3
  <2>5. m - 1 \in Nat /\ ~(m <= m - 1) /\ (m - 1) + 1 = m
    BY <2>2, <2>4
  <2>6. Has(m - 1)
    <3> HIDE DEF Has
    <3> QED
      BY <2>2, <2>5
  <2>7. PICK u : Fills(u, before, s, m - 1)
    BY <2>6
  <2>8. Has((m - 1) + 1)
    BY <2>5, <2>7, FillsNext
  <2> HIDE DEF Has
  <2> QED
    BY <2>2, <2>5, <2>8
<1>2. Has(n)
  <2> HIDE DEF Has
  <2> QED
    BY <1>1
<1> QED
  BY <1>2

\* Followed is where they end.
LEMMA FollowedEnds ==
  ASSUME NEW before, NEW s, Len(s) \in Nat, NEW u, Fills(u, before, s, Len(s))
  PROVE  Followed(before, s) = u[Len(s)]
<1> DEFINE Is(v) == v = [i \in 0..Len(s) |-> IF i = 0 THEN before ELSE v[i - 1] ** s[i]]
<1>1. Followed(before, s) = (CHOOSE v : Is(v))[Len(s)]
  BY Zenon DEF Followed
<1>2. \A v : Is(v) <=> Fills(v, before, s, Len(s))
  BY DEF Fills
<1> HIDE DEF Is
<1>3. (CHOOSE v : Is(v)) = u
  <2>1. Is(u) /\ \A v : Is(v) => v = u
    BY <1>2, FillsOnce
  <2> QED
    BY <2>1
<1> QED
  BY <1>1, <1>3

\* Nothing follows,
LEMMA FollowedNone ==
  ASSUME NEW before, NEW s, Len(s) = 0
  PROVE  Followed(before, s) = before
<1>1. PICK u : Fills(u, before, s, 0) /\ u[0] = before
  BY FillsNone
<1> QED
  BY <1>1, FollowedEnds

\* and one more follows.
LEMMA FollowedNext ==
  ASSUME NEW before, NEW r, Len(r) \in Nat, NEW s, Len(s) = Len(r) + 1,
         \A i \in 1..Len(r) : s[i] = r[i]
  PROVE  Followed(before, s) = Followed(before, r) ** s[Len(s)]
<1> DEFINE n == Len(r)
<1>1. PICK u : Fills(u, before, r, n)
  BY FillsExist
<1>2. Fills(u, before, s, n)
  <2>1. [i \in 0..n |-> IF i = 0 THEN before ELSE u[i - 1] ** r[i]]
          = [i \in 0..n |-> IF i = 0 THEN before ELSE u[i - 1] ** s[i]]
    <3>1. ASSUME NEW i \in 0..n
          PROVE  (IF i = 0 THEN before ELSE u[i - 1] ** r[i])
                   = IF i = 0 THEN before ELSE u[i - 1] ** s[i]
      <4>1. i # 0 => i \in 1..Len(r)
        OBVIOUS
      <4> QED
        BY <4>1
    <3> QED
      BY <3>1
  <2> QED
    BY <1>1, <2>1 DEF Fills
<1>3. PICK v : Fills(v, before, s, n + 1) /\ v[n + 1] = u[n] ** s[n + 1]
  BY <1>2, FillsNext
<1>4. Followed(before, r) = u[n]
  BY <1>1, FollowedEnds
<1>5. Followed(before, s) = v[n + 1]
  BY <1>3, FollowedEnds
<1> QED
  BY <1>3, <1>4, <1>5

\* The texts are texts.
LEMMA FollowedType ==
  ASSUME NEW before \in Languages, NEW s, Len(s) \in Nat, \A i \in 1..Len(s) : s[i] \in Languages
  PROVE  Followed(before, s) \in Languages
<1> DEFINE n == Len(s)
<1>1. PICK u : Fills(u, before, s, n)
  BY FillsExist
<1>2. \A i \in 0..n : u[i] = IF i = 0 THEN before ELSE u[i - 1] ** s[i]
  BY <1>1 DEF Fills
<1>3. ASSUME NEW i \in 0..n, u[i] \notin Languages PROVE FALSE
  <2> DEFINE T == {j \in 0..n : u[j] \notin Languages}
  <2>1. PICK m \in T : \A j \in T : m <= j
    <3>1. T \subseteq Nat /\ i \in T
      BY <1>3
    <3> HIDE DEF T
    <3> QED
      BY <3>1, Smallest
  <2>2. m \in 0..n /\ u[m] \notin Languages /\ \A j \in 0..n : u[j] \notin Languages => m <= j
    BY <2>1
  <2> HIDE DEF T
  <2>3. m # 0
    BY <1>2, <2>2
  <2>4. m \in 1..n /\ m - 1 \in 0..n /\ ~(m <= m - 1)
    BY <2>2, <2>3
  <2>5. u[m - 1] \in Languages /\ s[m] \in Languages
    BY <2>2, <2>4
  <2>6. u[m] = u[m - 1] ** s[m]
    BY <1>2, <2>2, <2>3
  <2> QED
    BY <2>2, <2>5, <2>6, BehindType
<1>4. Followed(before, s) = u[n] /\ n \in 0..n
  BY <1>1, FollowedEnds
<1> QED
  BY <1>3, <1>4

---------------------------------------------------------------------------
(* The texts of nodes depend on older nodes only.                          *)

\* T has texts for the nodes hp, and T2 and hq the same for these and others.
Continues(T, hp, T2, hq) ==
  /\ Len(hp) \in Nat
  /\ \A n \in 1..Len(hp) : \A end \in Ends : T[n][end] \in Languages
  /\ \A n \in 1..Len(hp) : hp[n].kids \in Seq(1..Len(hp))
  /\ \A n \in 1..Len(hp) : T2[n] = T[n] /\ hq[n] = hp[n]

\* A function on 1..n is a sequence.
LEMMA SeqOf ==
  ASSUME NEW S, NEW n \in Nat, NEW s \in [1..n -> S]
  PROVE  s \in Seq(S) /\ Len(s) = n
OBVIOUS

LEMMA SentenceSame ==
  ASSUME NEW T, NEW hp, NEW T2, NEW hq, Continues(T, hp, T2, hq),
         NEW n \in 1..Len(hp), NEW end \in Ends
  PROVE  /\ Sentence(T2, hq, n, end) = Sentence(T, hp, n, end)
         /\ Sentence(T, hp, n, end) \in Languages
<1>1. /\ T2[n] = T[n] /\ hq[n] = hp[n] /\ T[n][end] \in Languages
  BY DEF Continues
<1>2. Tok(";") \in Languages
  BY TokType DEF Symbols, AllTokens, Punctuation
<1> QED
  BY <1>1, <1>2, BehindType DEF Sentence

LEMMA SentencesSame ==
  ASSUME NEW T, NEW hp, NEW T2, NEW hq, Continues(T, hp, T2, hq), NEW list \in Seq(1..Len(hp))
  PROVE  /\ Sentences(T2, hq, list) = Sentences(T, hp, list)
         /\ Len(Sentences(T, hp, list)) = Len(list) /\ Len(list) \in Nat
         /\ \A i \in 1..Len(list) : /\ Sentences(T, hp, list)[i] = Sentence(T, hp, list[i], "any")
                                    /\ Sentences(T, hp, list)[i] \in Languages
<1>1. Len(list) \in Nat /\ DOMAIN list = 1..Len(list)
  BY LenProperties
<1>2. "any" \in Ends
  BY DEF Ends
<1>3. ASSUME NEW i \in 1..Len(list)
      PROVE  /\ Sentence(T2, hq, list[i], "any") = Sentence(T, hp, list[i], "any")
             /\ Sentence(T, hp, list[i], "any") \in Languages
  <2>1. list[i] \in 1..Len(hp)
    BY ElementOfSeq
  <2> QED
    BY <1>2, <2>1, SentenceSame
<1>4. Sentences(T2, hq, list) = Sentences(T, hp, list)
  BY <1>1, <1>3 DEF Sentences
<1>5. Sentences(T, hp, list) \in [1..Len(list) -> Languages]
  BY <1>1, <1>3 DEF Sentences
<1>6. \A i \in 1..Len(list) : Sentences(T, hp, list)[i] = Sentence(T, hp, list[i], "any")
  BY <1>1 DEF Sentences
<1> QED
  BY <1>1, <1>3, <1>4, <1>5, <1>6, SeqOf

LEMMA ClausesSame ==
  ASSUME NEW T, NEW hp, NEW T2, NEW hq, Continues(T, hp, T2, hq), NEW list \in Seq(1..Len(hp))
  PROVE  /\ Clauses(T2, list) = Clauses(T, list)
         /\ Len(Clauses(T, list)) = Len(list) /\ Len(list) \in Nat
         /\ \A i \in 1..Len(list) : /\ Clauses(T, list)[i] = T[list[i]]["any"]
                                    /\ Clauses(T, list)[i] \in Languages
<1>1. Len(list) \in Nat /\ DOMAIN list = 1..Len(list)
  BY LenProperties
<1>2. ASSUME NEW i \in 1..Len(list)
      PROVE  T2[list[i]]["any"] = T[list[i]]["any"] /\ T[list[i]]["any"] \in Languages
  <2>1. list[i] \in 1..Len(hp)
    BY ElementOfSeq
  <2> QED
    BY <2>1 DEF Continues, Ends
<1>3. Clauses(T2, list) = Clauses(T, list)
  BY <1>1, <1>2 DEF Clauses
<1>4. Clauses(T, list) \in [1..Len(list) -> Languages]
  BY <1>1, <1>2 DEF Clauses
<1>5. \A i \in 1..Len(list) : Clauses(T, list)[i] = T[list[i]]["any"]
  BY <1>1 DEF Clauses
<1> QED
  BY <1>1, <1>2, <1>3, <1>4, <1>5, SeqOf

\* Statements that follow before, and updates.
LEMMA ListSame ==
  ASSUME NEW T, NEW hp, NEW T2, NEW hq, Continues(T, hp, T2, hq), NEW list \in Seq(1..Len(hp)),
         NEW before \in Languages
  PROVE  /\ Followed(before, Sentences(T2, hq, list)) = Followed(before, Sentences(T, hp, list))
         /\ Followed(before, Sentences(T, hp, list)) \in Languages
<1> DEFINE s == Sentences(T, hp, list)
<1>1. /\ Sentences(T2, hq, list) = s
      /\ Len(s) = Len(list) /\ Len(list) \in Nat /\ \A i \in 1..Len(list) : s[i] \in Languages
  BY SentencesSame
<1> HIDE DEF s
<1>2. Followed(before, s) \in Languages
  BY <1>1, FollowedType
<1> QED
  BY <1>1, <1>2 DEF s

LEMMA UpdatesSame ==
  ASSUME NEW T, NEW hp, NEW T2, NEW hq, Continues(T, hp, T2, hq), NEW list \in Seq(1..Len(hp)),
         NEW before \in Languages
  PROVE  /\ Followed(before, Clauses(T2, list)) = Followed(before, Clauses(T, list))
         /\ Followed(before, Clauses(T, list)) \in Languages
<1> DEFINE c == Clauses(T, list)
<1>1. /\ Clauses(T2, list) = c
      /\ Len(c) = Len(list) /\ Len(list) \in Nat /\ \A i \in 1..Len(list) : c[i] \in Languages
  BY ClausesSame
<1> HIDE DEF c
<1>2. Followed(before, c) \in Languages
  BY <1>1, FollowedType
<1> QED
  BY <1>1, <1>2 DEF c

\* One more statement.
LEMMA ListNext ==
  ASSUME NEW T, NEW hp, Continues(T, hp, T, hp), NEW list \in Seq(1..Len(hp)), NEW n \in 1..Len(hp),
         NEW before
  PROVE  /\ Followed(before, Sentences(T, hp, Append(list, n)))
              = Followed(before, Sentences(T, hp, list)) ** Sentence(T, hp, n, "any")
         /\ Followed(before, Clauses(T, Append(list, n)))
              = Followed(before, Clauses(T, list)) ** T[n]["any"]
<1> DEFINE more == Append(list, n)
<1>1. /\ more \in Seq(1..Len(hp)) /\ Len(more) = Len(list) + 1 /\ more[Len(list) + 1] = n
      /\ \A i \in 1..Len(list) : more[i] = list[i]
      /\ Len(list) \in Nat
  BY Pushed
<1> HIDE DEF more
<1>2. /\ Len(Sentences(T, hp, list)) = Len(list)
      /\ \A i \in 1..Len(list) : Sentences(T, hp, list)[i] = Sentence(T, hp, list[i], "any")
  BY SentencesSame
<1>3. /\ Len(Sentences(T, hp, more)) = Len(more)
      /\ \A i \in 1..Len(more) : Sentences(T, hp, more)[i] = Sentence(T, hp, more[i], "any")
  BY <1>1, SentencesSame
<1>4. Len(Clauses(T, list)) = Len(list) /\ \A i \in 1..Len(list) : Clauses(T, list)[i] = T[list[i]]["any"]
  BY ClausesSame
<1>5. Len(Clauses(T, more)) = Len(more) /\ \A i \in 1..Len(more) : Clauses(T, more)[i] = T[more[i]]["any"]
  BY <1>1, ClausesSame
<1> DEFINE s == Sentences(T, hp, list)
           t == Sentences(T, hp, more)
           c == Clauses(T, list)
           d == Clauses(T, more)
<1>6. /\ Len(s) \in Nat /\ Len(t) = Len(s) + 1 /\ \A i \in 1..Len(s) : t[i] = s[i]
      /\ t[Len(t)] = Sentence(T, hp, n, "any")
  <2>1. Len(list) + 1 \in 1..Len(more) /\ \A i \in 1..Len(list) : i \in 1..Len(more)
    BY <1>1
  <2> QED
    BY <1>1, <1>2, <1>3, <2>1
<1>7. /\ Len(c) \in Nat /\ Len(d) = Len(c) + 1 /\ \A i \in 1..Len(c) : d[i] = c[i]
      /\ d[Len(d)] = T[n]["any"]
  <2>1. Len(list) + 1 \in 1..Len(more) /\ \A i \in 1..Len(list) : i \in 1..Len(more)
    BY <1>1
  <2> QED
    BY <1>1, <1>4, <1>5, <2>1
<1> HIDE DEF s, t, c, d
<1>8. Followed(before, t) = Followed(before, s) ** t[Len(t)]
  BY <1>6, FollowedNext
<1>9. Followed(before, d) = Followed(before, c) ** d[Len(d)]
  BY <1>7, FollowedNext
<1> QED
  BY <1>6, <1>7, <1>8, <1>9 DEF more, s, t, c, d

LEMMA ListNone ==
  ASSUME NEW T, NEW hp, NEW before
  PROVE  /\ Followed(before, Sentences(T, hp, <<>>)) = before
         /\ Followed(before, Clauses(T, <<>>)) = before
<1>1. Len(Sentences(T, hp, <<>>)) = 0 /\ Len(Clauses(T, <<>>)) = 0
  BY DEF Sentences, Clauses
<1> QED
  BY <1>1, FollowedNone

LEMMA BranchSame ==
  ASSUME NEW T, NEW hp, NEW T2, NEW hq, Continues(T, hp, T2, hq),
         NEW b \in 1..Len(hp), NEW end \in Ends
  PROVE  /\ BranchText(T2, hq, b, end) = BranchText(T, hp, b, end)
         /\ BranchText(T, hp, b, end) \in Languages
<1>1. /\ T2[b] = T[b] /\ hq[b] = hp[b] /\ T[b][end] \in Languages /\ hp[b].kids \in Seq(1..Len(hp))
  BY DEF Continues
<1>2. CASE Len(hp[b].kids) = 1
  <2>1. hp[b].kids[1] \in 1..Len(hp)
    BY <1>1, <1>2, ElementOfSeq
  <2> DEFINE n == hp[b].kids[1]
  <2> HIDE DEF n
  <2>2. Sentence(T2, hq, n, end) = Sentence(T, hp, n, end) /\ Sentence(T, hp, n, end) \in Languages
    BY <2>1, SentenceSame DEF n
  <2> QED
    BY <1>1, <1>2, <2>2, UnionType DEF BranchText, n
<1>3. CASE Len(hp[b].kids) # 1
  <2>1. BranchText(T2, hq, b, end) = T[b][end] /\ BranchText(T, hp, b, end) = T[b][end]
    BY <1>1, <1>3 DEF BranchText
  <2> QED
    BY <1>1, <2>1
<1> QED
  BY <1>2, <1>3

\* What is read before a child.
LEMMA FixedType ==
  /\ \A t \in Symbols : Tok(t) \in Languages
  /\ {<<>>} \in Languages /\ {} \in Languages
  /\ Condition \in Languages /\ Datatype \in Languages /\ Array \in Languages
  /\ Parameter \in Languages /\ ForOpen \in Languages /\ Declared \in Languages
  /\ Public \in Languages /\ (Tok("public") ** Datatype ** Tok("id") ** Tok("(")) \in Languages
<1>1. \A t \in Symbols : Tok(t) \in Languages
  BY TokType
<1>2. {<<>>} \in Languages /\ {} \in Languages
  BY DEF Languages
<1>3. /\ Tok("type") \in Languages /\ Tok("secret") \in Languages /\ Tok("[") \in Languages
      /\ Tok("]") \in Languages /\ Tok(",") \in Languages /\ Tok("id") \in Languages
      /\ Tok("if") \in Languages /\ Tok("(") \in Languages /\ Tok("expr") \in Languages
      /\ Tok(")") \in Languages /\ Tok("for") \in Languages /\ Tok("public") \in Languages
  BY <1>1 DEF Symbols, AllTokens, Keywords, Punctuation
<1>4. Datatype \in Languages
  BY <1>3, BehindType, UnionType DEF Datatype
<1>5. Array \in Languages
  BY <1>2, <1>3, BehindType, UnionType DEF Array
<1>6. Condition \in Languages
  BY <1>3, BehindType DEF Condition
<1>7. ForOpen \in Languages
  BY <1>3, BehindType DEF ForOpen
<1>8. Declared \in Languages
  BY <1>3, <1>4, BehindType DEF Declared
<1>9. {<<>>} \cup Tok(",") \in Languages
  BY <1>2, <1>3, UnionType
<1>10. Parameter \in Languages
  BY <1>3, <1>4, <1>9, BehindType DEF Parameter
<1>11. Public \in Languages /\ (Tok("public") ** Datatype ** Tok("id") ** Tok("(")) \in Languages
  BY <1>3, <1>4, BehindType DEF Public
<1> QED
  BY <1>1, <1>2, <1>4, <1>5, <1>6, <1>7, <1>8, <1>10, <1>11

\* The symbols.
LEMMA SymbolList ==
  /\ "for" \in Symbols /\ "if" \in Symbols /\ "else" \in Symbols /\ "return" \in Symbols
  /\ "public" \in Symbols /\ "secret" \in Symbols /\ "type" \in Symbols
  /\ "(" \in Symbols /\ ")" \in Symbols /\ "[" \in Symbols /\ "]" \in Symbols
  /\ "{" \in Symbols /\ "}" \in Symbols /\ "," \in Symbols /\ ";" \in Symbols /\ "=" \in Symbols
  /\ "id" \in Symbols /\ "lit" \in Symbols /\ "expr" \in Symbols /\ "target" \in Symbols
BY DEF Symbols, AllTokens, Keywords, Punctuation

LEMMA HeaderSame ==
  ASSUME NEW T, NEW hp, NEW T2, NEW hq, Continues(T, hp, T2, hq), NEW b \in 1..Len(hp),
         NEW list \in Seq(1..Len(hp))
  PROVE  /\ ForStart(T2, hq, b) = ForStart(T, hp, b) /\ ForStart(T, hp, b) \in Languages
         /\ ForHead(T2, hq, b) = ForHead(T, hp, b) /\ ForHead(T, hp, b) \in Languages
         /\ ForHeader(T2, hq, b, list) = ForHeader(T, hp, b, list)
         /\ ForHeader(T, hp, b, list) \in Languages
<1>1. hq[b] = hp[b] /\ hp[b].kids \in Seq(1..Len(hp))
  BY DEF Continues
<1>2. /\ Tok(";") \in Languages /\ Tok("expr") \in Languages /\ Tok(")") \in Languages
      /\ ForOpen \in Languages
  BY FixedType, SymbolList
<1>3. ForStart(T2, hq, b) = ForStart(T, hp, b) /\ ForStart(T, hp, b) \in Languages
  <2>1. /\ Followed(ForOpen, Sentences(T2, hq, hp[b].kids)) = Followed(ForOpen, Sentences(T, hp, hp[b].kids))
        /\ Followed(ForOpen, Sentences(T, hp, hp[b].kids)) \in Languages
    BY <1>1, <1>2, ListSame
  <2>2. ForOpen ** Tok(";") \in Languages
    BY <1>2, BehindType
  <2>3. /\ ForStart(T, hp, b) = IF hp[b].kids = <<>> THEN ForOpen ** Tok(";")
                                 ELSE Followed(ForOpen, Sentences(T, hp, hp[b].kids))
        /\ ForStart(T2, hq, b) = IF hq[b].kids = <<>> THEN ForOpen ** Tok(";")
                                 ELSE Followed(ForOpen, Sentences(T2, hq, hq[b].kids))
    BY DEF ForStart, ForOpen
  <2> QED
    BY <1>1, <2>1, <2>2, <2>3
<1>4. ForHead(T2, hq, b) = ForHead(T, hp, b) /\ ForHead(T, hp, b) \in Languages
  BY <1>2, <1>3, BehindType DEF ForHead
<1>5. /\ Followed(ForHead(T, hp, b), Clauses(T2, list)) = Followed(ForHead(T, hp, b), Clauses(T, list))
      /\ Followed(ForHead(T, hp, b), Clauses(T, list)) \in Languages
  BY <1>4, UpdatesSame
<1>6. /\ ForHeader(T2, hq, b, list) = ForHeader(T, hp, b, list)
      /\ ForHeader(T, hp, b, list) \in Languages
  BY <1>2, <1>4, <1>5, BehindType DEF ForHeader
<1> QED
  BY <1>3, <1>4, <1>6

\* The parameters of a function.
LEMMA SignatureNext ==
  ASSUME NEW n \in Nat
  PROVE  /\ Signature(1..n) \in Languages
         /\ Signature(1..(n + 1)) = Signature(1..n) ** Parameter
<1> DEFINE start == Tok("public") ** Datatype ** Tok("id") ** Tok("(")
           s(m) == [i \in 1..m |-> Parameter]
<1>1. start \in Languages /\ Parameter \in Languages
  BY FixedType
<1>2. \A m \in Nat : s(m) \in [1..m -> Languages]
  BY <1>1
<1>3. \A m \in Nat : Len(s(m)) = m /\ \A i \in 1..m : s(m)[i] = Parameter
  BY <1>2, SeqOf
<1>4. \A m : Signature(1..m) = Followed(start, s(m))
  BY DEF Signature
<1> HIDE DEF start, s
<1>5. Followed(start, s(n)) \in Languages
  BY <1>1, <1>3, FollowedType
<1>6. n + 1 \in Nat
  OBVIOUS
<1>7. Followed(start, s(n + 1)) = Followed(start, s(n)) ** s(n + 1)[Len(s(n + 1))]
  BY <1>3, <1>6, FollowedNext
<1> QED
  BY <1>3, <1>4, <1>5, <1>6, <1>7

LEMMA EndsList == "any" \in Ends /\ "closed" \in Ends /\ \A end \in Ends : end = "any" \/ end = "closed"
BY DEF Ends

LEMMA TextOfSame ==
  ASSUME NEW T, NEW hp, NEW T2, NEW hq, Continues(T, hp, T2, hq), NEW kids \in Seq(1..Len(hp)),
         NEW end \in Ends, NEW kind
  PROVE  /\ TextOf(T2, hq, kind, kids, end) = TextOf(T, hp, kind, kids, end)
         /\ TextOf(T, hp, kind, kids, end) \in Languages
<1>1. /\ \A t \in Symbols : Tok(t) \in Languages
      /\ {<<>>} \in Languages /\ {} \in Languages
      /\ Condition \in Languages /\ Datatype \in Languages /\ Array \in Languages
  BY FixedType
<1>2. Len(kids) \in Nat /\ \A i \in 1..Len(kids) : kids[i] \in 1..Len(hp)
  BY LenProperties, ElementOfSeq
<1>3. CASE kind = "Assignment"
  <2>1. Tok("target") ** Tok("=") ** Tok("expr") \in Languages
    BY <1>1, SymbolList, BehindType
  <2> QED
    BY <1>3, <2>1 DEF TextOf
<1>4. CASE kind = "Return"
  <2>1. ReturnText(kids) \in Languages
    BY <1>1, SymbolList, BehindType DEF ReturnText
  <2> QED
    BY <1>4, <2>1 DEF TextOf
<1>5. CASE kind = "VariableDeclaration"
  <2>1. DeclarationText(kids) \in Languages
    BY <1>1, SymbolList, BehindType DEF DeclarationText
  <2> QED
    BY <1>5, <2>1 DEF TextOf
<1>6. CASE kind = "Block"
  <2>1. Tok("{") \in Languages /\ Tok("}") \in Languages
    BY <1>1, SymbolList
  <2>2. /\ Followed(Tok("{"), Sentences(T2, hq, kids)) = Followed(Tok("{"), Sentences(T, hp, kids))
        /\ Followed(Tok("{"), Sentences(T, hp, kids)) \in Languages
    BY <2>1, ListSame
  <2>3. BlockText(T2, hq, kids) = BlockText(T, hp, kids) /\ BlockText(T, hp, kids) \in Languages
    BY <2>1, <2>2, BehindType DEF BlockText
  <2> QED
    BY <1>6, <2>3 DEF TextOf
<1>7. CASE kind = "If" /\ Len(kids) = 2
  <2>1. kids[2] \in 1..Len(hp)
    BY <1>2, <1>7
  <2>2. /\ BranchText(T2, hq, kids[2], "any") = BranchText(T, hp, kids[2], "any")
        /\ BranchText(T, hp, kids[2], "any") \in Languages
    BY <2>1, BranchSame, EndsList
  <2>3. IfText(T2, hq, kids, end) = IfText(T, hp, kids, end) /\ IfText(T, hp, kids, end) \in Languages
    BY <1>1, <1>7, <2>2, BehindType DEF IfText
  <2> QED
    BY <1>7, <2>3 DEF TextOf
<1>8. CASE kind = "If" /\ Len(kids) = 3
  <2>1. kids[2] \in 1..Len(hp) /\ kids[3] \in 1..Len(hp)
    BY <1>2, <1>8
  <2>2. /\ BranchText(T2, hq, kids[2], "closed") = BranchText(T, hp, kids[2], "closed")
        /\ BranchText(T, hp, kids[2], "closed") \in Languages
        /\ BranchText(T2, hq, kids[3], end) = BranchText(T, hp, kids[3], end)
        /\ BranchText(T, hp, kids[3], end) \in Languages
    BY <2>1, BranchSame, EndsList
  <2>3. Tok("else") \in Languages
    BY <1>1, SymbolList
  <2>4. IfText(T2, hq, kids, end) = IfText(T, hp, kids, end) /\ IfText(T, hp, kids, end) \in Languages
    BY <1>1, <1>8, <2>2, <2>3, BehindType DEF IfText
  <2> QED
    BY <1>8, <2>4 DEF TextOf
<1>9. CASE kind = "For" /\ Len(kids) = 4
  <2> DEFINE b == kids[1]
             u == kids[3]
             d == kids[4]
  <2>1. b \in 1..Len(hp) /\ u \in 1..Len(hp) /\ d \in 1..Len(hp)
    BY <1>2, <1>9
  <2> HIDE DEF b, u, d
  <2>2. /\ hq[u] = hp[u] /\ hp[u].kids \in Seq(1..Len(hp))
        /\ T2[d]["any"] = T[d]["any"] /\ T[d]["any"] \in Languages
    BY <2>1, EndsList DEF Continues
  <2>3. /\ ForHeader(T2, hq, b, hp[u].kids) = ForHeader(T, hp, b, hp[u].kids)
        /\ ForHeader(T, hp, b, hp[u].kids) \in Languages
    BY <2>1, <2>2, HeaderSame
  <2>4. ForText(T2, hq, kids) = ForText(T, hp, kids) /\ ForText(T, hp, kids) \in Languages
    BY <2>2, <2>3, BehindType DEF ForText, b, u, d
  <2> QED
    BY <1>9, <2>4 DEF TextOf
<1>10. CASE kind = "Function" /\ Len(kids) > 0
  <2> DEFINE d == kids[Len(kids)]
             n == Len(kids) - 1
  <2>1. d \in 1..Len(hp) /\ n \in Nat
    BY <1>2, <1>10
  <2>2. Signature(1..n) \in Languages /\ Tok(")") \in Languages
    BY <1>1, <2>1, SignatureNext, SymbolList
  <2> HIDE DEF d
  <2>3. T2[d]["any"] = T[d]["any"] /\ T[d]["any"] \in Languages
    BY <2>1, EndsList DEF Continues
  <2> HIDE DEF n
  <2>4. \A U : FunctionText(U, kids) = Signature(1..n) ** Tok(")") ** U[d]["any"]
    BY DEF FunctionText, d, n
  <2>5. FunctionText(T2, kids) = FunctionText(T, kids) /\ FunctionText(T, kids) \in Languages
    BY <2>2, <2>3, <2>4, BehindType
  <2> QED
    BY <1>10, <2>5 DEF TextOf
<1>11. CASE /\ kind \notin {"Assignment", "Return", "VariableDeclaration", "Block"}
            /\ ~(kind = "If" /\ Len(kids) \in {2, 3})
            /\ ~(kind = "For" /\ Len(kids) = 4)
            /\ ~(kind = "Function" /\ Len(kids) > 0)
  <2>1. TextOf(T2, hq, kind, kids, end) = {} /\ TextOf(T, hp, kind, kids, end) = {}
    BY <1>11 DEF TextOf
  <2> QED
    BY <1>1, <2>1
<1> QED
  BY <1>3, <1>4, <1>5, <1>6, <1>7, <1>8, <1>9, <1>10, <1>11

---------------------------------------------------------------------------
(* Every heap has one function of texts.                                   *)

\* T are the texts of the nodes hp.
IsText(T, hp) ==
  T = [n \in 1..Len(hp) |-> [end \in Ends |-> TextOf(T, hp, hp[n].kind, hp[n].kids, end)]]
Typed(T, hp) == \A n \in 1..Len(hp) : \A end \in Ends : T[n][end] \in Languages

\* Nodes have older children.
LEMMA KidsOlder ==
  ASSUME NEW hp \in Seq(NodeType), OwnsOlder(hp), NEW n \in 1..Len(hp)
  PROVE  hp[n].kids \in Seq(1..(n - 1)) /\ hp[n].kids \in Seq(1..Len(hp))
<1> DEFINE k == hp[n].kids
<1>1. k \in Seq(Nat) /\ Len(hp) \in Nat
  <2>1. hp[n] \in NodeType /\ Len(hp) \in Nat
    BY LenProperties, ElementOfSeq
  <2> QED
    BY <2>1 DEF NodeType
<1>2. Range(k) \subseteq 1..(n - 1)
  BY DEF OwnsOlder
<1>3. \A i \in 1..Len(k) : k[i] \in 1..(n - 1)
  <2>1. DOMAIN k = 1..Len(k)
    BY <1>1, LenProperties
  <2> HIDE DEF k
  <2> QED
    BY <1>2, <2>1 DEF Range
<1> HIDE DEF k
<1>4. k \in [1..Len(k) -> 1..(n - 1)] /\ Len(k) \in Nat
  <2>1. k \in [1..Len(k) -> Nat] /\ Len(k) \in Nat
    BY <1>1, LenProperties
  <2> QED
    BY <1>3, <2>1
<1>5. k \in Seq(1..(n - 1))
  BY <1>4, SeqOf
<1>6. 1..(n - 1) \subseteq 1..Len(hp)
  BY <1>1
<1>7. k \in Seq(1..Len(hp))
  BY <1>5, <1>6, SeqMonotonic
<1> QED
  BY <1>5, <1>7 DEF k

LEMMA ContinuesItself ==
  ASSUME NEW hp \in Seq(NodeType), OwnsOlder(hp), NEW T, Typed(T, hp)
  PROVE  Continues(T, hp, T, hp)
<1>1. Len(hp) \in Nat
  BY LenProperties
<1>2. \A n \in 1..Len(hp) : hp[n].kids \in Seq(1..Len(hp))
  BY KidsOlder
<1> QED
  BY <1>1, <1>2 DEF Continues, Typed

\* A new node adds its texts.
LEMMA TextsGrow ==
  ASSUME NEW hp \in Seq(NodeType), OwnsOlder(hp), NEW T, IsText(T, hp), Typed(T, hp),
         NEW kind \in Kinds, NEW k \in Seq(1..Len(hp))
  PROVE  LET hq == Made(hp, kind, k)
         IN  \E T2 : /\ IsText(T2, hq) /\ Typed(T2, hq) /\ Continues(T, hp, T2, hq)
                     /\ \A end \in Ends : T2[Len(hp) + 1][end] = TextOf(T, hp, kind, k, end)
<1> DEFINE hq == Made(hp, kind, k)
           N == Len(hp)
           T2 == [n \in 1..(N + 1) |-> IF n \in 1..N THEN T[n]
                                       ELSE [end \in Ends |-> TextOf(T, hp, kind, k, end)]]
<1>1. N \in Nat
  BY LenProperties
<1>2. /\ Len(hq) = N + 1 /\ hq[N + 1].kind = kind /\ hq[N + 1].kids = k
      /\ \A i \in 1..N : hq[i] = hp[i]
      /\ hq \in Seq(NodeType) /\ OwnsOlder(hq)
  <2>1. /\ Made(hp, kind, k) \in Seq(NodeType)
        /\ Len(Made(hp, kind, k)) = Len(hp) + 1
        /\ Made(hp, kind, k)[Len(hp) + 1].kind = kind
        /\ OneMore(hp, Made(hp, kind, k), k)
        /\ Extends(hp, Made(hp, kind, k))
        /\ OwnsOlder(Made(hp, kind, k))
    BY HeapGrows
  <2> QED
    BY <2>1 DEF OneMore
<1> HIDE DEF hq
<1>3. N + 1 \in 1..(N + 1) /\ N + 1 \notin 1..N /\ \A i \in 1..N : i \in 1..(N + 1)
  BY <1>1
<1>4. \A n \in 1..N : T2[n] = T[n]
  BY <1>3
<1>5. T2[N + 1] = [end \in Ends |-> TextOf(T, hp, kind, k, end)]
  BY <1>3
<1>6. T2 = [n \in 1..(N + 1) |-> T2[n]]
  OBVIOUS
<1> HIDE DEF T2
<1>7. Continues(T, hp, T, hp)
  BY ContinuesItself
<1>8. Continues(T, hp, T2, hq)
  BY <1>2, <1>4, <1>7 DEF Continues
<1>9. ASSUME NEW n \in 1..(N + 1)
      PROVE  /\ T2[n] = [end \in Ends |-> TextOf(T2, hq, hq[n].kind, hq[n].kids, end)]
             /\ \A end \in Ends : T2[n][end] \in Languages
  <2>1. CASE n \in 1..N
    <3>1. hp[n].kids \in Seq(1..Len(hp)) /\ hq[n] = hp[n] /\ T2[n] = T[n]
      BY <1>2, <1>4, <2>1, KidsOlder
    <3>2. T[n] = [end \in Ends |-> TextOf(T, hp, hp[n].kind, hp[n].kids, end)]
      <4>1. DOMAIN T = 1..N
        BY DEF IsText
      <4> QED
        BY <2>1 DEF IsText
    <3>3. \A end \in Ends : /\ TextOf(T2, hq, hp[n].kind, hp[n].kids, end)
                                 = TextOf(T, hp, hp[n].kind, hp[n].kids, end)
                            /\ TextOf(T, hp, hp[n].kind, hp[n].kids, end) \in Languages
      BY <1>8, <3>1, TextOfSame
    <3> QED
      BY <3>1, <3>2, <3>3
  <2>2. CASE n = N + 1
    <3>1. \A end \in Ends : /\ TextOf(T2, hq, kind, k, end) = TextOf(T, hp, kind, k, end)
                            /\ TextOf(T, hp, kind, k, end) \in Languages
      BY <1>8, TextOfSame
    <3> QED
      BY <1>2, <1>5, <2>2, <3>1
  <2> QED
    BY <1>1, <2>1, <2>2
<1>10. IsText(T2, hq)
  BY <1>2, <1>6, <1>9 DEF IsText
<1>11. Typed(T2, hq)
  BY <1>2, <1>9 DEF Typed
<1>12. \A end \in Ends : T2[N + 1][end] = TextOf(T, hp, kind, k, end)
  BY <1>5
<1> QED
  BY <1>8, <1>10, <1>11, <1>12 DEF hq

\* There are no others.
LEMMA TextsOnce ==
  ASSUME NEW hp \in Seq(NodeType), OwnsOlder(hp), NEW T, IsText(T, hp), Typed(T, hp), NEW U, IsText(U, hp)
  PROVE  T = U
<1>1. Len(hp) \in Nat
  BY LenProperties
<1>2. ASSUME NEW i \in 1..Len(hp), T[i] # U[i] PROVE FALSE
  <2> DEFINE D == {j \in 1..Len(hp) : T[j] # U[j]}
  <2>1. PICK n \in D : \A j \in D : n <= j
    <3>1. D \subseteq Nat /\ i \in D
      BY <1>2
    <3> HIDE DEF D
    <3> QED
      BY <3>1, Smallest
  <2>2. n \in 1..Len(hp) /\ T[n] # U[n] /\ \A j \in 1..Len(hp) : T[j] # U[j] => n <= j
    BY <2>1
  <2> HIDE DEF D
  <2> DEFINE p == SubSeq(hp, 1, n - 1)
  <2>3. Len(p) = n - 1 /\ \A j \in 1..(n - 1) : p[j] = hp[j]
    <3>1. \A j \in 1..(n - 1) : hp[j] \in NodeType
      <4>1. \A j \in 1..(n - 1) : j \in 1..Len(hp)
        BY <1>1, <2>2
      <4> QED
        BY <4>1, ElementOfSeq
    <3>2. 1 \in Int /\ n - 1 \in Int
      BY <2>2
    <3>3. /\ Len(SubSeq(hp, 1, n - 1)) = IF 1 <= n - 1 THEN (n - 1) - 1 + 1 ELSE 0
          /\ \A j \in 1..((n - 1) - 1 + 1) : SubSeq(hp, 1, n - 1)[j] = hp[1 + j - 1]
      BY <3>1, <3>2, SubSeqProperties
    <3> HIDE DEF p
    <3>4. /\ Len(p) = IF 1 <= n - 1 THEN (n - 1) - 1 + 1 ELSE 0
          /\ \A j \in 1..((n - 1) - 1 + 1) : p[j] = hp[1 + j - 1]
      BY <3>3 DEF p
    <3> QED
      BY <2>2, <3>4
  <2> HIDE DEF p
  <2>4. \A j \in 1..(n - 1) : j \in 1..Len(hp) /\ T[j] = U[j] /\ hp[j].kids \in Seq(1..(n - 1))
    <3> TAKE j \in 1..(n - 1)
    <3>1. j \in 1..Len(hp) /\ ~(n <= j) /\ 1..(j - 1) \subseteq 1..(n - 1)
      BY <1>1, <2>2
    <3>2. hp[j].kids \in Seq(1..(j - 1))
      BY <3>1, KidsOlder
    <3> QED
      BY <2>2, <3>1, <3>2, SeqMonotonic
  <2>5. n - 1 \in Nat
    BY <2>2
  <2>6. Continues(T, p, T, hp) /\ Continues(T, p, U, hp)
    BY <2>3, <2>4, <2>5 DEF Continues, Typed
  <2>7. hp[n].kids \in Seq(1..Len(p))
    BY <2>2, <2>3, KidsOlder
  <2>8. \A end \in Ends : TextOf(T, hp, hp[n].kind, hp[n].kids, end)
                            = TextOf(T, p, hp[n].kind, hp[n].kids, end)
    BY <2>6, <2>7, TextOfSame
  <2>9. \A end \in Ends : TextOf(U, hp, hp[n].kind, hp[n].kids, end)
                            = TextOf(T, p, hp[n].kind, hp[n].kids, end)
    BY <2>6, <2>7, TextOfSame
  <2>10. /\ T[n] = [end \in Ends |-> TextOf(T, hp, hp[n].kind, hp[n].kids, end)]
         /\ U[n] = [end \in Ends |-> TextOf(U, hp, hp[n].kind, hp[n].kids, end)]
    BY <2>2 DEF IsText
  <2> QED
    BY <2>2, <2>8, <2>9, <2>10
<1>3. T = [n \in 1..Len(hp) |-> T[n]] /\ U = [n \in 1..Len(hp) |-> U[n]]
  BY DEF IsText
<1> QED
  BY <1>2, <1>3

\* What the module calls Texts.
LEMMA TextsAre ==
  ASSUME heap \in Seq(NodeType), OwnsOlder(heap), NEW T, IsText(T, heap), Typed(T, heap)
  PROVE  Texts = T
<1> DEFINE Is(U) == U = [n \in NodeIds |->
                           [end \in Ends |-> TextOf(U, heap, heap[n].kind, heap[n].kids, end)]]
<1>1. Texts = CHOOSE U : Is(U)
  BY Zenon DEF Texts
<1>2. \A U : Is(U) <=> IsText(U, heap)
  BY DEF IsText, NodeIds
<1> HIDE DEF Is
<1>3. \A U : Is(U) => U = T
  BY <1>2, TextsOnce
<1>4. Is(T)
  BY <1>2
<1> QED
  BY <1>1, <1>3, <1>4

\* What is said at each of the stages: without children,
LEMMA PlainIs ==
  /\ PlainText("statement") = {<<>>} /\ PlainText("target") = {<<>>} /\ PlainText("block") = {<<>>}
  /\ PlainText("assign") = Tok("target")
  /\ PlainText("assigned_value") = Tok("target") ** Tok("=")
  /\ PlainText("returned_value") = Tok("return")
  /\ PlainText("declared_type") = {<<>>} \cup Tok("secret") /\ PlainText("parameter_type") = {<<>>} \cup Tok("secret")
  /\ PlainText("variable") = Datatype /\ PlainText("parameter_name") = Datatype
  /\ PlainText("array") = Declared /\ PlainText("FunctionParameter") = Declared
  /\ PlainText("array_close") = Declared ** Tok("[")
  /\ PlainText("initial_value") = Declared ** Array
  /\ PlainText("declared_value") = Declared ** Array ** Tok("=")
  /\ PlainText("if_round") = Tok("if")
  /\ PlainText("if_condition") = Tok("if") ** Tok("(")
  /\ PlainText("if_close") = Tok("if") ** Tok("(") ** Tok("expr")
  /\ PlainText("then") = Condition
  /\ PlainText("for_round") = Tok("for")
  /\ PlainText("initializer") = ForOpen
  /\ PlainText("return_type") = Tok("public") \cup (Tok("public") ** Tok("secret"))
  /\ PlainText("function_name") = Public
  /\ PlainText("function_round") = Public ** Tok("id")
<1>1. PlainText("statement") = {<<>>} /\ PlainText("target") = {<<>>} /\ PlainText("block") = {<<>>}
  BY DEF PlainText
<1>2. PlainText("assign") = Tok("target")
  BY DEF PlainText
<1>3. PlainText("assigned_value") = Tok("target") ** Tok("=")
  BY DEF PlainText
<1>4. PlainText("returned_value") = Tok("return")
  BY DEF PlainText
<1>5. PlainText("declared_type") = {<<>>} \cup Tok("secret") /\ PlainText("parameter_type") = {<<>>} \cup Tok("secret")
  BY DEF PlainText
<1>6. PlainText("variable") = Datatype /\ PlainText("parameter_name") = Datatype
  BY DEF PlainText
<1>7. PlainText("array") = Declared /\ PlainText("FunctionParameter") = Declared
  BY DEF PlainText
<1>8. PlainText("array_close") = Declared ** Tok("[")
  BY DEF PlainText
<1>9. PlainText("initial_value") = Declared ** Array
  BY DEF PlainText
<1>10. PlainText("declared_value") = Declared ** Array ** Tok("=")
  BY DEF PlainText
<1>11. PlainText("if_round") = Tok("if")
  BY DEF PlainText
<1>12. PlainText("if_condition") = Tok("if") ** Tok("(")
  BY DEF PlainText
<1>13. PlainText("if_close") = Tok("if") ** Tok("(") ** Tok("expr")
  BY DEF PlainText
<1>14. PlainText("then") = Condition
  BY DEF PlainText
<1>15. PlainText("for_round") = Tok("for")
  BY DEF PlainText
<1>16. PlainText("initializer") = ForOpen
  BY DEF PlainText
<1>17. PlainText("return_type") = Tok("public") \cup (Tok("public") ** Tok("secret"))
  BY DEF PlainText
<1>18. PlainText("function_name") = Public
  BY DEF PlainText
<1>19. PlainText("function_round") = Public ** Tok("id")
  BY DEF PlainText
<1> QED
  BY <1>1, <1>2, <1>3, <1>4, <1>5, <1>6, <1>7, <1>8, <1>9, <1>10, <1>11, <1>12, <1>13, <1>14, <1>15, <1>16, <1>17, <1>18, <1>19

\* in lists,
LEMMA SaidLists ==
  ASSUME NEW T, NEW hp, NEW f, NEW end
  PROVE  /\ f.stage = "statements" =>
              Said(T, hp, f, end) = Followed({<<>>}, Sentences(T, hp, f.list))
         /\ f.stage = "block_body" =>
              Said(T, hp, f, end) = Followed(Tok("{"), Sentences(T, hp, f.list))
         /\ f.stage = "initializers" =>
              Said(T, hp, f, end) = Followed(ForOpen, Sentences(T, hp, f.list))
<1>1. f.stage = "statements" => Said(T, hp, f, end) = Followed({<<>>}, Sentences(T, hp, f.list))
  BY DEF Said, Simple, Compound, Plain
<1>2. f.stage = "block_body" => Said(T, hp, f, end) = Followed(Tok("{"), Sentences(T, hp, f.list))
  BY DEF Said, Simple, Compound, Plain
<1>3. f.stage = "initializers" => Said(T, hp, f, end) = Followed(ForOpen, Sentences(T, hp, f.list))
  BY DEF Said, Simple, Compound, Plain
<1> QED
  BY <1>1, <1>2, <1>3

LEMMA SaidParameters ==
  ASSUME NEW T, NEW hp, NEW f, NEW end, f.stage = "parameters"
  PROVE  Said(T, hp, f, end) = Signature(1..Len(f.list))
BY DEF Said, Simple, Compound, Plain

LEMMA SaidBody ==
  ASSUME NEW T, NEW hp, NEW f, NEW end, f.stage = "function_body"
  PROVE  Said(T, hp, f, end) = Signature(1..Len(f.list)) ** Tok(")")
BY DEF Said, Simple, Compound, Plain

\* of nodes,
LEMMA SaidNodes ==
  ASSUME NEW T, NEW hp, NEW f, NEW end
  PROVE  /\ f.stage \in Plain => Said(T, hp, f, end) = PlainText(f.stage)
         /\ f.stage \in Simple \cup Compound =>
              Said(T, hp, f, end) = TextOf(T, hp, f.stage, f.list \o f.parts, end)
         /\ f.stage = "semicolon" => Said(T, hp, f, end) = T[f.parts[1]][end]
         /\ f.stage = "otherwise" =>
              Said(T, hp, f, end) = Condition ** BranchText(T, hp, f.parts[2], end)
         /\ f.stage = "else" =>
              Said(T, hp, f, end) = Condition ** BranchText(T, hp, f.parts[2], "closed") ** Tok("else")
<1>1. f.stage \in Plain => Said(T, hp, f, end) = PlainText(f.stage)
  BY DEF Said, Simple, Compound, Plain
<1>2. f.stage \in Simple \cup Compound => Said(T, hp, f, end) = TextOf(T, hp, f.stage, f.list \o f.parts, end)
  BY DEF Said, Simple, Compound, Plain
<1>3. f.stage = "semicolon" => Said(T, hp, f, end) = T[f.parts[1]][end]
  BY DEF Said, Simple, Compound, Plain
<1>4. f.stage = "otherwise" => Said(T, hp, f, end) = Condition ** BranchText(T, hp, f.parts[2], end)
  BY DEF Said, Simple, Compound, Plain
<1>5. f.stage = "else" => Said(T, hp, f, end) = Condition ** BranchText(T, hp, f.parts[2], "closed") ** Tok("else")
  BY DEF Said, Simple, Compound, Plain
<1> QED
  BY <1>1, <1>2, <1>3, <1>4, <1>5

\* and in the header of a for.
LEMMA SaidFor ==
  ASSUME NEW T, NEW hp, NEW f, NEW end
  PROVE  /\ f.stage = "for_condition" => Said(T, hp, f, end) = ForStart(T, hp, f.parts[1])
         /\ f.stage = "condition_end" =>
              Said(T, hp, f, end) = ForStart(T, hp, f.parts[1]) ** Tok("expr")
         /\ f.stage = "update" => Said(T, hp, f, end) = ForHead(T, hp, f.parts[1])
         /\ f.stage \in {"updates", "for_close"} =>
              Said(T, hp, f, end) = Followed(ForHead(T, hp, f.parts[1]), Clauses(T, f.list))
         /\ f.stage = "update_block" => Said(T, hp, f, end) = ForHeader(T, hp, f.parts[1], f.list)
         /\ f.stage = "for_body" =>
              Said(T, hp, f, end) = ForHeader(T, hp, f.parts[1], hp[f.parts[3]].kids)
<1>1. f.stage = "for_condition" => Said(T, hp, f, end) = ForStart(T, hp, f.parts[1])
  BY DEF Said, Simple, Compound, Plain
<1>2. f.stage = "condition_end" => Said(T, hp, f, end) = ForStart(T, hp, f.parts[1]) ** Tok("expr")
  BY DEF Said, Simple, Compound, Plain
<1>3. f.stage = "update" => Said(T, hp, f, end) = ForHead(T, hp, f.parts[1])
  BY DEF Said, Simple, Compound, Plain
<1>4. f.stage \in {"updates", "for_close"} => Said(T, hp, f, end) = Followed(ForHead(T, hp, f.parts[1]), Clauses(T, f.list))
  BY DEF Said, Simple, Compound, Plain
<1>5. f.stage = "update_block" => Said(T, hp, f, end) = ForHeader(T, hp, f.parts[1], f.list)
  BY DEF Said, Simple, Compound, Plain
<1>6. f.stage = "for_body" => Said(T, hp, f, end) = ForHeader(T, hp, f.parts[1], hp[f.parts[3]].kids)
  BY DEF Said, Simple, Compound, Plain
<1> QED
  BY <1>1, <1>2, <1>3, <1>4, <1>5, <1>6

LEMMA PlainType ==
  ASSUME NEW stage \in Plain
  PROVE  PlainText(stage) \in Languages
<1>1. /\ \A t \in Symbols : Tok(t) \in Languages
      /\ {<<>>} \in Languages /\ Condition \in Languages /\ Datatype \in Languages
      /\ Array \in Languages /\ ForOpen \in Languages /\ Declared \in Languages
      /\ Public \in Languages
  BY FixedType
<1>2. /\ Tok("target") \in Languages /\ Tok("=") \in Languages /\ Tok("return") \in Languages
      /\ Tok("secret") \in Languages /\ Tok("[") \in Languages /\ Tok("if") \in Languages
      /\ Tok("(") \in Languages /\ Tok("expr") \in Languages /\ Tok("for") \in Languages
      /\ Tok("public") \in Languages /\ Tok("id") \in Languages
  BY <1>1, SymbolList
<1>3. /\ Tok("target") ** Tok("=") \in Languages /\ Declared ** Tok("[") \in Languages
      /\ Declared ** Array \in Languages /\ Tok("if") ** Tok("(") \in Languages
      /\ Public ** Tok("id") \in Languages /\ Tok("public") ** Tok("secret") \in Languages
  BY <1>1, <1>2, BehindType
<1>4. /\ Declared ** Array ** Tok("=") \in Languages
      /\ Tok("if") ** Tok("(") ** Tok("expr") \in Languages
  BY <1>2, <1>3, BehindType
<1>5. /\ {<<>>} \cup Tok("secret") \in Languages
      /\ Tok("public") \cup (Tok("public") ** Tok("secret")) \in Languages
  BY <1>1, <1>2, <1>3, UnionType
<1>6. CASE stage \in {"statement", "target", "block", "assign", "assigned_value", "returned_value",
                      "declared_type", "parameter_type", "variable", "parameter_name"}
  BY <1>1, <1>2, <1>3, <1>5, <1>6, PlainIs
<1>7. CASE stage \in {"array", "FunctionParameter", "array_close", "initial_value",
                      "declared_value"}
  BY <1>1, <1>3, <1>4, <1>7, PlainIs
<1>8. CASE stage \in {"if_round", "if_condition", "if_close", "then", "for_round", "initializer"}
  BY <1>1, <1>2, <1>3, <1>4, <1>8, PlainIs
<1>9. CASE stage \in {"return_type", "function_name", "function_round"}
  BY <1>1, <1>3, <1>5, <1>9, PlainIs
<1> QED
  BY <1>6, <1>7, <1>8, <1>9 DEF Plain

\* A frame that holds nodes up to N.
HoldsUpTo(f, N) == f.parts \in Seq(1..N) /\ f.list \in Seq(1..N)

LEMMA SaidSame ==
  ASSUME NEW T, NEW hp, NEW T2, NEW hq, Continues(T, hp, T2, hq),
         NEW f, f.stage \in Stages, HoldsUpTo(f, Len(hp)), Len(f.parts) \in Members(f.stage),
         NEW end \in Ends
  PROVE  /\ Said(T2, hq, f, end) = Said(T, hp, f, end)
         /\ Said(T, hp, f, end) \in Languages
<1> DEFINE N == Len(hp)
           l == f.list
           p == f.parts
<1>1. /\ l \in Seq(1..N) /\ p \in Seq(1..N)
      /\ Len(l) \in Nat /\ Len(p) \in Nat /\ DOMAIN l = 1..Len(l)
      /\ \A i \in 1..Len(p) : p[i] \in 1..N
  BY LenProperties, ElementOfSeq DEF HoldsUpTo
<1>2. /\ \A t \in Symbols : Tok(t) \in Languages
      /\ {<<>>} \in Languages /\ Condition \in Languages /\ ForOpen \in Languages
  BY FixedType
<1>3. /\ Tok("{") \in Languages /\ Tok("else") \in Languages /\ Tok("expr") \in Languages
      /\ Tok(")") \in Languages
  BY <1>2, SymbolList
<1>4. CASE f.stage \in Plain
  <2>1. Said(T2, hq, f, end) = PlainText(f.stage) /\ Said(T, hp, f, end) = PlainText(f.stage)
    BY <1>4, SaidNodes
  <2> QED
    BY <1>4, <2>1, PlainType
<1>5. CASE f.stage \in Simple \cup Compound
  <2> DEFINE k == l \o p
  <2>1. k \in Seq(1..N)
    BY <1>1, ConcatProperties
  <2> HIDE DEF k
  <2>2. /\ TextOf(T2, hq, f.stage, k, end) = TextOf(T, hp, f.stage, k, end)
        /\ TextOf(T, hp, f.stage, k, end) \in Languages
    BY <2>1, TextOfSame
  <2>3. /\ Said(T, hp, f, end) = TextOf(T, hp, f.stage, k, end)
        /\ Said(T2, hq, f, end) = TextOf(T2, hq, f.stage, k, end)
    BY <1>5, SaidNodes DEF k
  <2> QED
    BY <2>2, <2>3
<1>6. CASE f.stage \in {"statements", "block_body", "initializers"}
  <2> DEFINE S == Sentences(T, hp, l)
             S2 == Sentences(T2, hq, l)
  <2>1. ASSUME NEW before \in Languages
        PROVE  Followed(before, S2) = Followed(before, S) /\ Followed(before, S) \in Languages
    BY <1>1, ListSame
  <2>2. CASE f.stage = "statements"
    <3>1. Said(T2, hq, f, end) = Followed({<<>>}, S2) /\ Said(T, hp, f, end) = Followed({<<>>}, S)
      BY <2>2, SaidLists
    <3> HIDE DEF S, S2
    <3> QED
      BY <1>2, <2>1, <3>1
  <2>3. CASE f.stage = "block_body"
    <3>1. Said(T2, hq, f, end) = Followed(Tok("{"), S2) /\ Said(T, hp, f, end) = Followed(Tok("{"), S)
      BY <2>3, SaidLists
    <3> HIDE DEF S, S2
    <3> QED
      BY <1>3, <2>1, <3>1
  <2>4. CASE f.stage = "initializers"
    <3>1. Said(T2, hq, f, end) = Followed(ForOpen, S2) /\ Said(T, hp, f, end) = Followed(ForOpen, S)
      BY <2>4, SaidLists
    <3> HIDE DEF S, S2
    <3> QED
      BY <1>2, <2>1, <3>1
  <2> QED
    BY <1>6, <2>2, <2>3, <2>4
<1>7. CASE f.stage \in {"parameters", "function_body"}
  <2>1. Signature(1..Len(l)) \in Languages
    BY <1>1, SignatureNext
  <2>2. Signature(1..Len(l)) ** Tok(")") \in Languages
    BY <1>3, <2>1, BehindType
  <2>3. CASE f.stage = "parameters"
    <3>1. Said(T2, hq, f, end) = Signature(1..Len(l)) /\ Said(T, hp, f, end) = Signature(1..Len(l))
      BY <2>3, SaidParameters
    <3> QED
      BY <2>1, <3>1
  <2>4. CASE f.stage = "function_body"
    <3>1. /\ Said(T2, hq, f, end) = Signature(1..Len(l)) ** Tok(")")
          /\ Said(T, hp, f, end) = Signature(1..Len(l)) ** Tok(")")
      BY <2>4, SaidBody
    <3> QED
      BY <2>2, <3>1
  <2> QED
    BY <1>7, <2>3, <2>4
<1>8. CASE f.stage \in {"semicolon", "for_condition", "condition_end", "update", "updates",
                        "for_close", "update_block"}
  <2> DEFINE b == p[1]
  <2>1. b \in 1..N
    <3>1. Len(p) >= 1
      BY <1>8 DEF Members, One, Two
    <3> QED
      BY <1>1, <3>1
  <2> HIDE DEF b
  <2>2. T2[b] = T[b] /\ T[b][end] \in Languages
    BY <2>1 DEF Continues
  <2>3. /\ ForStart(T2, hq, b) = ForStart(T, hp, b) /\ ForStart(T, hp, b) \in Languages
        /\ ForHead(T2, hq, b) = ForHead(T, hp, b) /\ ForHead(T, hp, b) \in Languages
        /\ ForHeader(T2, hq, b, l) = ForHeader(T, hp, b, l)
        /\ ForHeader(T, hp, b, l) \in Languages
    BY <1>1, <2>1, HeaderSame
  <2>4. /\ Followed(ForHead(T, hp, b), Clauses(T2, l)) = Followed(ForHead(T, hp, b), Clauses(T, l))
        /\ Followed(ForHead(T, hp, b), Clauses(T, l)) \in Languages
    BY <1>1, <2>3, UpdatesSame
  <2>5. ForStart(T, hp, b) ** Tok("expr") \in Languages
    BY <1>3, <2>3, BehindType
  <2> QED
    BY <1>8, <2>2, <2>3, <2>4, <2>5, SaidNodes, SaidFor DEF b
<1>9. CASE f.stage \in {"otherwise", "else"}
  <2> DEFINE b == p[2]
  <2>1. b \in 1..N
    <3>1. Len(p) >= 2
      BY <1>9 DEF Members, One, Two
    <3> QED
      BY <1>1, <3>1
  <2> HIDE DEF b
  <2>2. /\ BranchText(T2, hq, b, end) = BranchText(T, hp, b, end)
        /\ BranchText(T, hp, b, end) \in Languages
        /\ BranchText(T2, hq, b, "closed") = BranchText(T, hp, b, "closed")
        /\ BranchText(T, hp, b, "closed") \in Languages
    BY <2>1, BranchSame, EndsList
  <2>3. /\ Condition ** BranchText(T, hp, b, end) \in Languages
        /\ Condition ** BranchText(T, hp, b, "closed") ** Tok("else") \in Languages
    BY <1>2, <1>3, <2>2, BehindType
  <2> QED
    BY <1>9, <2>2, <2>3, SaidNodes DEF b
<1>10. CASE f.stage = "for_body"
  <2> DEFINE b == p[1]
             u == p[3]
  <2>1. b \in 1..N /\ u \in 1..N
    <3>1. Len(p) = 3
      BY <1>10 DEF Members, One, Two
    <3> QED
      BY <1>1, <3>1
  <2> HIDE DEF b, u
  <2>2. hq[u] = hp[u] /\ hp[u].kids \in Seq(1..N)
    BY <2>1 DEF Continues
  <2>3. /\ ForHeader(T2, hq, b, hp[u].kids) = ForHeader(T, hp, b, hp[u].kids)
        /\ ForHeader(T, hp, b, hp[u].kids) \in Languages
    BY <2>1, <2>2, HeaderSame
  <2> QED
    BY <1>10, <2>2, <2>3, SaidFor DEF b, u
<1> QED
  BY <1>4, <1>5, <1>6, <1>7, <1>8, <1>9, <1>10 DEF Stages, Plain, Simple, Compound

LEMMA WaitingSame ==
  ASSUME NEW T, NEW hp, NEW T2, NEW hq, Continues(T, hp, T2, hq),
         NEW f, f.stage \in Stages, HoldsUpTo(f, Len(hp)), Len(f.parts) \in WaitingMembers(f.stage)
  PROVE  /\ Waiting(T2, hq, f) = Waiting(T, hp, f)
         /\ Waiting(T, hp, f) \in Languages
<1> DEFINE N == Len(hp)
           l == f.list
           p == f.parts
<1>1. /\ l \in Seq(1..N) /\ p \in Seq(1..N)
      /\ Len(l) \in Nat /\ Len(p) \in Nat /\ DOMAIN l = 1..Len(l)
      /\ \A i \in 1..Len(p) : p[i] \in 1..N
  BY LenProperties, ElementOfSeq DEF HoldsUpTo
<1>2. /\ \A t \in Symbols : Tok(t) \in Languages
      /\ {<<>>} \in Languages /\ Condition \in Languages
  BY FixedType
<1>3. Tok("else") \in Languages /\ Tok(")") \in Languages
  BY <1>2, SymbolList
<1>4. CASE f.stage \in {"Block", "otherwise"}
  BY <1>2, <1>4 DEF Waiting
<1>5. CASE f.stage = "If"
  <2> DEFINE b == p[2]
  <2>1. b \in 1..N
    <3>1. Len(p) = 2
      BY <1>5 DEF WaitingMembers
    <3> QED
      BY <1>1, <3>1
  <2> HIDE DEF b
  <2>2. /\ BranchText(T2, hq, b, "closed") = BranchText(T, hp, b, "closed")
        /\ BranchText(T, hp, b, "closed") \in Languages
    BY <2>1, BranchSame, EndsList
  <2>3. Condition ** BranchText(T, hp, b, "closed") ** Tok("else") \in Languages
    BY <1>2, <1>3, <2>2, BehindType
  <2> QED
    BY <1>5, <2>2, <2>3 DEF Waiting, b
<1>6. CASE f.stage = "For"
  <2> DEFINE b == p[1]
             u == p[3]
  <2>1. b \in 1..N /\ u \in 1..N
    <3>1. Len(p) = 3
      BY <1>6 DEF WaitingMembers
    <3> QED
      BY <1>1, <3>1
  <2> HIDE DEF b, u
  <2>2. hq[u] = hp[u] /\ hp[u].kids \in Seq(1..N)
    BY <2>1 DEF Continues
  <2>3. /\ ForHeader(T2, hq, b, hp[u].kids) = ForHeader(T, hp, b, hp[u].kids)
        /\ ForHeader(T, hp, b, hp[u].kids) \in Languages
    BY <2>1, <2>2, HeaderSame
  <2> QED
    BY <1>6, <2>2, <2>3 DEF Waiting, b, u
<1>7. CASE f.stage = "Function"
  <2>1. Signature(1..Len(l)) \in Languages
    BY <1>1, SignatureNext
  <2>2. Signature(1..Len(l)) ** Tok(")") \in Languages
    BY <1>3, <2>1, BehindType
  <2> QED
    BY <1>1, <1>7, <2>2 DEF Waiting
<1>8. CASE f.stage \notin {"Block", "otherwise", "If", "For", "Function"}
  <2>1. Len(f.parts) \in Members(f.stage)
    BY <1>8 DEF WaitingMembers
  <2>2. Said(T2, hq, f, "any") = Said(T, hp, f, "any") /\ Said(T, hp, f, "any") \in Languages
    BY <2>1, SaidSame, EndsList
  <2> QED
    BY <1>8, <2>2 DEF Waiting
<1> QED
  BY <1>4, <1>5, <1>6, <1>7, <1>8

\* All that the frames hold are nodes.
LEMMA FramesHoldNodes ==
  ASSUME NEW fs, NEW hp, Sound(fs, hp)
  PROVE  \A i \in 1..Len(fs) : HoldsUpTo(fs[i], Len(hp)) /\ fs[i] \in FrameType
<1>1. /\ Len(hp) \in Nat /\ Shaped(fs, hp) /\ Owned(Holder, HoldingOf(fs, hp), 1..Len(hp))
      /\ Len(fs) \in Nat
  BY SoundTop
<1>2. HoldingOf(fs, hp) \in [Holder -> Seq(1..Len(hp))]
  BY <1>1 DEF Owned
<1>3. ASSUME NEW i \in 1..Len(fs) PROVE HoldsUpTo(fs[i], Len(hp)) /\ fs[i] \in FrameType
  <2>1. /\ <<"parts", i>> \in Holder
        /\ <<"list", i>> \in Holder
        /\ <<"node", Len(hp) + 1>> \in Holder
        /\ HoldingOf(fs, hp)[<<"parts", i>>] = fs[i].parts
        /\ HoldingOf(fs, hp)[<<"list", i>>] = fs[i].list
        /\ HoldingOf(fs, hp)[<<"node", Len(hp) + 1>>] = <<>>
    BY <1>1, HoldersHere
  <2>2. fs[i] \in FrameType
    BY <1>1, ElementOfSeq DEF Shaped
  <2> QED
    BY <1>2, <2>1, <2>2 DEF HoldsUpTo
<1> QED
  BY <1>3

\* The texts of the frames that wait.
LEMMA WaitingNone == \A T, hp, fs : WaitingOf(T, hp, fs, 0) = {<<>>}
<1> SUFFICES ASSUME NEW T, NEW hp, NEW fs PROVE WaitingOf(T, hp, fs, 0) = {<<>>}
  OBVIOUS
<1> DEFINE s == [i \in 1..0 |-> Waiting(T, hp, fs[i])]
<1>1. Len(s) = 0
  OBVIOUS
<1> HIDE DEF s
<1>2. Followed({<<>>}, s) = {<<>>}
  BY <1>1, FollowedNone
<1> QED
  BY <1>2 DEF WaitingOf, s

LEMMA WaitingNext ==
  ASSUME NEW T, NEW hp, NEW fs, NEW n \in Nat
  PROVE  WaitingOf(T, hp, fs, n + 1) = WaitingOf(T, hp, fs, n) ** Waiting(T, hp, fs[n + 1])
<1> DEFINE W(i) == Waiting(T, hp, fs[i])
           s == [i \in 1..n |-> W(i)]
           t == [i \in 1..(n + 1) |-> W(i)]
<1> HIDE DEF W
<1>1. Len(s) = n /\ Len(t) = n + 1 /\ \A i \in 1..n : t[i] = s[i]
  <2>1. s \in [1..n -> {W(i) : i \in 1..n}] /\ t \in [1..(n + 1) -> {W(i) : i \in 1..(n + 1)}]
    OBVIOUS
  <2>2. Len(s) = n
    BY <2>1, SeqOf
  <2>3. Len(t) = n + 1
    BY <2>1, SeqOf
  <2> QED
    BY <2>2, <2>3
<1>2. t[n + 1] = W(n + 1)
  OBVIOUS
<1> HIDE DEF s, t
<1>3. Followed({<<>>}, t) = Followed({<<>>}, s) ** t[Len(t)]
  BY <1>1, FollowedNext
<1> QED
  BY <1>1, <1>2, <1>3 DEF WaitingOf, s, t, W

\* They depend on these frames only.
LEMMA WaitingLocal ==
  ASSUME NEW T, NEW hp, NEW fs, NEW gs, NEW n \in Nat, \A i \in 1..n : gs[i] = fs[i]
  PROVE  WaitingOf(T, hp, gs, n) = WaitingOf(T, hp, fs, n)
<1> DEFINE s == [i \in 1..n |-> Waiting(T, hp, fs[i])]
           t == [i \in 1..n |-> Waiting(T, hp, gs[i])]
<1>1. s = t
  OBVIOUS
<1> HIDE DEF s, t
<1>2. Followed({<<>>}, t) = Followed({<<>>}, s)
  BY <1>1
<1> QED
  BY <1>2 DEF WaitingOf, s, t

\* A frame that waits.
WaitingOK(f) == f.stage \in Stages /\ Len(f.parts) \in WaitingMembers(f.stage)

LEMMA WaitingOfSame ==
  ASSUME NEW T, NEW hp, NEW T2, NEW hq, Continues(T, hp, T2, hq), NEW fs, NEW n \in Nat,
         \A i \in 1..n : HoldsUpTo(fs[i], Len(hp)) /\ WaitingOK(fs[i])
  PROVE  /\ WaitingOf(T2, hq, fs, n) = WaitingOf(T, hp, fs, n)
         /\ WaitingOf(T, hp, fs, n) \in Languages
<1> DEFINE s == [i \in 1..n |-> Waiting(T, hp, fs[i])]
           t == [i \in 1..n |-> Waiting(T2, hq, fs[i])]
<1>1. ASSUME NEW i \in 1..n
      PROVE  Waiting(T2, hq, fs[i]) = Waiting(T, hp, fs[i]) /\ Waiting(T, hp, fs[i]) \in Languages
  BY WaitingSame DEF WaitingOK
<1>2. s = t /\ s \in [1..n -> Languages]
  BY <1>1
<1> HIDE DEF s, t
<1>3. Len(s) = n /\ \A i \in 1..n : s[i] \in Languages
  BY <1>2, SeqOf
<1>4. {<<>>} \in Languages
  BY FixedType
<1>5. Followed({<<>>}, s) \in Languages
  BY <1>3, <1>4, FollowedType
<1>6. WaitingOf(T2, hq, fs, n) = Followed({<<>>}, t) /\ WaitingOf(T, hp, fs, n) = Followed({<<>>}, s)
  BY DEF WaitingOf, s, t
<1> QED
  BY <1>2, <1>5, <1>6

\* What the frames fs hold is among the nodes hp, and T and T2 are texts of hp and hq.
Setting(T, hp, T2, hq, fs, look) ==
  /\ Sound(fs, hp)
  /\ Formed(fs, look)
  /\ Continues(T, hp, T2, hq)

LEMMA SettingTop ==
  ASSUME NEW T, NEW hp, NEW T2, NEW hq, NEW fs, NEW look, Setting(T, hp, T2, hq, fs, look)
  PROVE  LET f == fs[Len(fs)]
         IN  /\ Len(fs) \in Nat /\ Len(fs) > 0
             /\ f \in FrameType /\ HoldsUpTo(f, Len(hp)) /\ Len(f.parts) \in Members(f.stage)
             /\ \A i \in 1..(Len(fs) - 1) : HoldsUpTo(fs[i], Len(hp)) /\ WaitingOK(fs[i])
<1>1. Len(fs) \in Nat /\ Len(fs) > 0 /\ Len(fs) \in 1..Len(fs)
  BY SoundTop DEF Setting
<1>2. \A i \in 1..Len(fs) : HoldsUpTo(fs[i], Len(hp)) /\ fs[i] \in FrameType
  BY FramesHoldNodes DEF Setting
<1>3. Len(fs[Len(fs)].parts) \in Members(fs[Len(fs)].stage)
  BY DEF Setting, Formed, WorksWell
<1>4. \A i \in 1..(Len(fs) - 1) : i \in 1..Len(fs) /\ Len(fs[i].parts) \in WaitingMembers(fs[i].stage)
  <2> TAKE i \in 1..(Len(fs) - 1)
  <2>1. WaitsWell(fs, look, i)
    BY Zenon DEF Setting, Formed
  <2>2. Len(fs[i].parts) \in WaitingMembers(fs[i].stage)
    BY <2>1, Zenon DEF WaitsWell
  <2> QED
    BY <1>1, <2>2
<1>5. \A i \in 1..Len(fs) : fs[i].stage \in Stages
  BY <1>2 DEF FrameType
<1> QED
  BY <1>1, <1>2, <1>3, <1>4, <1>5 DEF WaitingOK

\* What the frames below the last say, when only the last one changes,
LEMMA OuterOver ==
  ASSUME NEW T, NEW hp, NEW T2, NEW hq, NEW fs, NEW look, Setting(T, hp, T2, hq, fs, look),
         NEW gs, Differ(fs, gs, Len(fs))
  PROVE  Outer(T2, hq, gs) = Outer(T, hp, fs) /\ Outer(T, hp, fs) \in Languages
<1> DEFINE n == Len(fs) - 1
<1>1. /\ n \in Nat /\ Len(gs) = Len(fs) /\ \A i \in 1..n : gs[i] = fs[i]
      /\ \A i \in 1..n : HoldsUpTo(fs[i], Len(hp)) /\ WaitingOK(fs[i])
      /\ Continues(T, hp, T2, hq)
  <2>1. Len(fs) \in Nat /\ Len(fs) > 0
    BY SettingTop
  <2>2. \A i \in 1..n : HoldsUpTo(fs[i], Len(hp)) /\ WaitingOK(fs[i])
    BY SettingTop
  <2> QED
    BY <2>1, <2>2 DEF Differ, Setting
<1> HIDE DEF n
<1>2. WaitingOf(T2, hq, gs, n) = WaitingOf(T2, hq, fs, n)
  BY <1>1, WaitingLocal
<1>3. WaitingOf(T2, hq, fs, n) = WaitingOf(T, hp, fs, n) /\ WaitingOf(T, hp, fs, n) \in Languages
  BY <1>1, WaitingOfSame
<1> QED
  BY <1>1, <1>2, <1>3 DEF Outer, n

\* when it waits for another,
LEMMA OuterCall ==
  ASSUME NEW T, NEW hp, NEW T2, NEW hq, NEW fs, NEW look, Setting(T, hp, T2, hq, fs, look),
         NEW gs, Len(gs) = Len(fs) + 1, \A i \in 1..(Len(fs) - 1) : gs[i] = fs[i]
  PROVE  /\ Outer(T2, hq, gs) = Outer(T, hp, fs) ** Waiting(T2, hq, gs[Len(fs)])
         /\ Outer(T, hp, fs) \in Languages
<1> DEFINE n == Len(fs) - 1
<1>1. /\ n \in Nat /\ Len(fs) = n + 1 /\ Len(gs) - 1 = n + 1 /\ \A i \in 1..n : gs[i] = fs[i]
      /\ \A i \in 1..n : HoldsUpTo(fs[i], Len(hp)) /\ WaitingOK(fs[i])
      /\ Continues(T, hp, T2, hq)
  <2>1. Len(fs) \in Nat /\ Len(fs) > 0
    BY SettingTop
  <2>2. \A i \in 1..n : HoldsUpTo(fs[i], Len(hp)) /\ WaitingOK(fs[i])
    BY SettingTop
  <2> QED
    BY <2>1, <2>2 DEF Setting
<1> HIDE DEF n
<1>2. WaitingOf(T2, hq, gs, n) = WaitingOf(T2, hq, fs, n)
  BY <1>1, WaitingLocal
<1>3. WaitingOf(T2, hq, fs, n) = WaitingOf(T, hp, fs, n) /\ WaitingOf(T, hp, fs, n) \in Languages
  BY <1>1, WaitingOfSame
<1>4. WaitingOf(T2, hq, gs, n + 1) = WaitingOf(T2, hq, gs, n) ** Waiting(T2, hq, gs[n + 1])
  BY <1>1, WaitingNext
<1> QED
  BY <1>1, <1>2, <1>3, <1>4 DEF Outer, n

\* and when it returns.
LEMMA OuterReturn ==
  ASSUME NEW T, NEW hp, NEW T2, NEW hq, NEW fs, NEW look, Setting(T, hp, T2, hq, fs, look),
         NEW gs, Len(fs) > 1, Len(gs) = Len(fs) - 1, \A i \in 1..(Len(fs) - 2) : gs[i] = fs[i]
  PROVE  LET p == fs[Len(fs) - 1]
         IN  /\ Outer(T, hp, fs) = Outer(T2, hq, gs) ** Waiting(T2, hq, p)
             /\ Outer(T2, hq, gs) \in Languages
             /\ Waiting(T2, hq, p) = Waiting(T, hp, p) /\ Waiting(T2, hq, p) \in Languages
<1> DEFINE n == Len(fs) - 2
<1>1. /\ n \in Nat /\ Len(fs) - 1 = n + 1 /\ Len(gs) - 1 = n /\ \A i \in 1..n : gs[i] = fs[i]
      /\ \A i \in 1..(n + 1) : HoldsUpTo(fs[i], Len(hp)) /\ WaitingOK(fs[i])
      /\ Continues(T, hp, T2, hq)
  <2>1. Len(fs) \in Nat /\ Len(fs) > 0
    BY SettingTop
  <2>2. n + 1 = Len(fs) - 1
    BY <2>1
  <2>3. \A i \in 1..(Len(fs) - 1) : HoldsUpTo(fs[i], Len(hp)) /\ WaitingOK(fs[i])
    BY SettingTop
  <2> QED
    BY <2>1, <2>2, <2>3 DEF Setting
<1> HIDE DEF n
<1>2. n + 1 \in 1..(n + 1) /\ \A i \in 1..n : i \in 1..(n + 1)
  BY <1>1
<1>3. WaitingOf(T2, hq, gs, n) = WaitingOf(T2, hq, fs, n)
  BY <1>1, WaitingLocal
<1>4. WaitingOf(T2, hq, fs, n) = WaitingOf(T, hp, fs, n) /\ WaitingOf(T, hp, fs, n) \in Languages
  BY <1>1, <1>2, WaitingOfSame
<1>5. WaitingOf(T, hp, fs, n + 1) = WaitingOf(T, hp, fs, n) ** Waiting(T, hp, fs[n + 1])
  BY <1>1, WaitingNext
<1>6. Waiting(T2, hq, fs[n + 1]) = Waiting(T, hp, fs[n + 1]) /\ Waiting(T, hp, fs[n + 1]) \in Languages
  BY <1>1, <1>2, WaitingSame DEF WaitingOK
<1> QED
  BY <1>1, <1>3, <1>4, <1>5, <1>6 DEF Outer

\* What is heard, but for a Block without braces,
LEMMA HeardPlain ==
  ASSUME NEW T, NEW hp, NEW fs, NEW end
  PROVE  /\ fs[Len(fs)].stage # "Block" =>
              Heard(T, hp, fs, end) = Outer(T, hp, fs) ** Said(T, hp, fs[Len(fs)], end)
         /\ Outer(T, hp, fs) ** Said(T, hp, fs[Len(fs)], end) \subseteq Heard(T, hp, fs, end)
         /\ Braceless(fs) =>
              Outer(T, hp, fs) ** Sentence(T, hp, fs[Len(fs)].list[1], end) \subseteq Heard(T, hp, fs, end)
<1> DEFINE f == fs[Len(fs)]
           O == Outer(T, hp, fs)
           S == Said(T, hp, f, end)
           B == Sentence(T, hp, f.list[1], end)
           H == S \cup (IF Braceless(fs) THEN B ELSE {})
<1>1. Heard(T, hp, fs, end) = O ** H
  BY DEF Heard, Spoken
<1>2. f.stage # "Block" => ~Braceless(fs)
  BY DEF Braceless
<1> HIDE DEF O, S, B
<1>3. ~Braceless(fs) => H = S
  OBVIOUS
<1>4. S \subseteq H /\ (Braceless(fs) => B \subseteq H)
  OBVIOUS
<1> HIDE DEF H
<1>5. O ** S \subseteq O ** H
  BY <1>4, Monotone
<1>6. Braceless(fs) => O ** B \subseteq O ** H
  BY <1>4, Monotone
<1> QED
  BY <1>1, <1>2, <1>3, <1>5, <1>6 DEF O, S, B

---------------------------------------------------------------------------
(* What the steps of a production do to what is heard.                     *)

\* It reads a symbol and goes on.
LEMMA ReadOver ==
  ASSUME NEW T, NEW hp, NEW T2, NEW hq, NEW fs, NEW look, Setting(T, hp, T2, hq, fs, look),
         NEW gs, Differ(fs, gs, Len(fs)), NEW e \in Ends, NEW w, w \in Heard(T, hp, fs, e),
         fs[Len(fs)].stage # "Block", NEW t \in Symbols, NEW end,
         Said(T, hp, fs[Len(fs)], e) ** Tok(t) \subseteq Said(T2, hq, gs[Len(gs)], end)
  PROVE  Append(w, t) \in Heard(T2, hq, gs, end)
<1> DEFINE f == fs[Len(fs)]
           g == gs[Len(gs)]
           O == Outer(T, hp, fs)
           S == Said(T, hp, f, e)
           R == Said(T2, hq, g, end)
<1>1. Outer(T2, hq, gs) = O /\ O \in Languages
  BY OuterOver
<1>2. S \in Languages
  BY SettingTop, SaidSame DEF FrameType, Setting
<1>3. w \in O ** S
  BY HeardPlain
<1>4. O ** R \subseteq Heard(T2, hq, gs, end)
  BY <1>1, HeardPlain
<1> HIDE DEF O, S, R
<1>5. Append(w, t) \in O ** (S ** Tok(t))
  BY <1>1, <1>2, <1>3, Reads
<1>6. S ** Tok(t) \subseteq R
  BY DEF S, R
<1>7. O ** (S ** Tok(t)) \subseteq O ** R
  BY <1>6, Monotone
<1> QED
  BY <1>4, <1>5, <1>7

\* It goes on and reads nothing.
LEMMA StayOver ==
  ASSUME NEW T, NEW hp, NEW T2, NEW hq, NEW fs, NEW look, Setting(T, hp, T2, hq, fs, look),
         NEW gs, Differ(fs, gs, Len(fs)), NEW end, NEW w, w \in Heard(T, hp, fs, end),
         fs[Len(fs)].stage # "Block",
         Said(T, hp, fs[Len(fs)], end) \subseteq Said(T2, hq, gs[Len(gs)], end)
  PROVE  w \in Heard(T2, hq, gs, end)
<1> DEFINE O == Outer(T, hp, fs)
           S == Said(T, hp, fs[Len(fs)], end)
           R == Said(T2, hq, gs[Len(gs)], end)
<1>1. Outer(T2, hq, gs) = O
  BY OuterOver
<1>2. w \in O ** S
  BY HeardPlain
<1>3. O ** R \subseteq Heard(T2, hq, gs, end)
  BY <1>1, HeardPlain
<1> HIDE DEF O, S, R
<1>4. S \subseteq R
  BY DEF S, R
<1>5. O ** S \subseteq O ** R
  BY <1>4, Monotone
<1> QED
  BY <1>2, <1>3, <1>5

\* It calls another, and waits.
LEMMA StayCall ==
  ASSUME NEW T, NEW hp, NEW T2, NEW hq, NEW fs, NEW look, Setting(T, hp, T2, hq, fs, look),
         NEW gs, Len(gs) = Len(fs) + 1, \A i \in 1..(Len(fs) - 1) : gs[i] = fs[i],
         NEW w, w \in Heard(T, hp, fs, "any"), fs[Len(fs)].stage # "Block",
         Said(T, hp, fs[Len(fs)], "any") \subseteq Waiting(T2, hq, gs[Len(fs)]),
         NEW end, <<>> \in Said(T2, hq, gs[Len(gs)], end)
  PROVE  w \in Heard(T2, hq, gs, end)
<1> DEFINE O == Outer(T, hp, fs)
           S == Said(T, hp, fs[Len(fs)], "any")
           W == Waiting(T2, hq, gs[Len(fs)])
           R == Said(T2, hq, gs[Len(gs)], end)
<1>1. Outer(T2, hq, gs) = O ** W /\ O \in Languages
  BY OuterCall
<1>2. w \in O ** S /\ S \in Languages
  BY HeardPlain, SettingTop, SaidSame, EndsList DEF FrameType, Setting
<1>3. (O ** W) ** R \subseteq Heard(T2, hq, gs, end)
  BY <1>1, HeardPlain
<1> HIDE DEF O, S, W, R
<1>4. S \subseteq W /\ {<<>>} \subseteq R
  BY DEF S, W, R
<1>5. O ** S \subseteq O ** W
  BY <1>4, Monotone
<1>6. (O ** S) ** {<<>>} \subseteq (O ** W) ** R
  BY <1>4, <1>5, Monotone
<1>7. (O ** S) ** {<<>>} = O ** S
  BY <1>1, <1>2, BehindType, Silent
<1> QED
  BY <1>2, <1>3, <1>6, <1>7

---------------------------------------------------------------------------
(* The frames fit together.                                                *)

\* A production at f may go on as g, whoever called it.
Turns(f, look, g, look2) ==
  /\ g.gobble = f.gobble
  /\ g.stage \in Bare <=> f.stage \in Bare
  /\ f.stage \in {"block", "block_body", "Block"} => g.stage \in {"block", "block_body", "Block"}
  /\ f.stage \in {"statement", "target"} /\ look = "," =>
       g.stage \in {"statement", "target"} /\ look2 = ","

LEMMA FitsTurned ==
  ASSUME NEW p, NEW f, NEW look, NEW g, NEW look2, Turns(f, look, g, look2), Fits(p, f)
  PROVE  Fits(p, g)
BY DEF Fits, Turns

\* Frames below the last two do not depend on it and on the token.
LEMMA WaitsBelow ==
  ASSUME NEW fs, NEW look, NEW gs, NEW look2, Len(fs) \in Nat, NEW i \in Nat, i + 1 < Len(fs), i > 0,
         WaitsWell(fs, look, i), i > 1 => gs[i - 1].stage = fs[i - 1].stage,
         gs[i] = fs[i], gs[i + 1].stage = fs[i + 1].stage, gs[i + 1].gobble = fs[i + 1].gobble
  PROVE  WaitsWell(gs, look2, i)
<1>1. i + 1 # Len(fs)
  OBVIOUS
<1>2. Fits(fs[i], gs[i + 1])
  BY DEF Fits, WaitsWell
<1> QED
  BY <1>1, <1>2 DEF WaitsWell

LEMMA FormedOver ==
  ASSUME NEW fs, NEW look, Len(fs) \in Nat, Len(fs) > 0, Formed(fs, look),
         NEW gs, Differ(fs, gs, Len(fs)), NEW look2,
         Turns(fs[Len(fs)], look, gs[Len(fs)], look2), WorksWell(gs[Len(fs)])
  PROVE  Formed(gs, look2)
<1> DEFINE L == Len(fs)
<1>1. Len(gs) = L /\ \A j \in 1..L : j # L => gs[j] = fs[j]
  BY DEF Differ
<1>2. ASSUME NEW i \in 1..(L - 1) PROVE WaitsWell(gs, look2, i)
  <2>1. WaitsWell(fs, look, i)
    BY Zenon DEF Formed
  <2>2. i \in Nat /\ i > 0 /\ i \in 1..L /\ i # L /\ gs[i] = fs[i]
        /\ (i > 1 => gs[i - 1] = fs[i - 1])
    <3>1. i > 1 => i - 1 \in 1..L /\ i - 1 # L
      OBVIOUS
    <3> QED
      BY <1>1, <3>1
  <2>3. CASE i + 1 < L
    <3>1. gs[i + 1] = fs[i + 1]
      BY <1>1, <2>3
    <3> QED
      BY <2>1, <2>2, <2>3, <3>1, WaitsBelow
  <2>4. CASE i + 1 = L
    <3> DEFINE p == fs[i]
               f == fs[i + 1]
               g == gs[i + 1]
    <3>1. /\ Len(p.parts) \in WaitingMembers(p.stage) /\ Fits(p, f)
          /\ p.stage = "Block" => p.list = <<>> /\ i > 1 /\ fs[i - 1].stage \in {"otherwise", "If"}
          /\ p.stage \in Lists =>
               \/ p.list = <<>>
               \/ Len(p.list) = 1 /\ f.stage \in {"statement", "target"} /\ look = ","
      BY <2>1, Zenon DEF WaitsWell
    <3>2. Turns(f, look, g, look2)
      BY <2>4
    <3>3. Fits(p, g)
      BY <3>1, <3>2, FitsTurned
    <3> HIDE DEF f, g
    <3>4. p.stage \in Lists =>
               \/ p.list = <<>>
               \/ Len(p.list) = 1 /\ g.stage \in {"statement", "target"} /\ look2 = ","
      BY <3>1, <3>2 DEF Turns
    <3> HIDE DEF p
    <3>5. gs[i] = p /\ i + 1 = Len(gs) /\ gs[i + 1] = g /\ (i > 1 => gs[i - 1] = fs[i - 1])
      BY <1>1, <2>2, <2>4 DEF p, g
    <3> QED
      BY <3>1, <3>3, <3>4, <3>5 DEF WaitsWell
  <2> QED
    BY <2>3, <2>4
<1> QED
  BY <1>1, <1>2 DEF Formed

\* f goes on as p and waits for g.
LEMMA FormedCall ==
  ASSUME NEW fs, NEW look, Len(fs) \in Nat, Len(fs) > 0, Formed(fs, look),
         NEW gs, Len(gs) = Len(fs) + 1, \A j \in 1..(Len(fs) - 1) : gs[j] = fs[j],
         fs[Len(fs)].stage \notin {"statement", "target"},
         Turns(fs[Len(fs)], look, gs[Len(fs)], look),
         WaitsWell(gs, look, Len(fs)), WorksWell(gs[Len(fs) + 1])
  PROVE  Formed(gs, look)
<1> DEFINE L == Len(fs)
<1>2. ASSUME NEW i \in 1..L PROVE WaitsWell(gs, look, i)
  <2>1. CASE i = L
    BY <2>1
  <2>2. CASE i < L
    <3>1. WaitsWell(fs, look, i)
      <4>1. i \in 1..(L - 1)
        BY <2>2
      <4> QED
        BY <4>1, Zenon DEF Formed
    <3>2. i \in Nat /\ i > 0 /\ i \in 1..(L - 1) /\ gs[i] = fs[i]
          /\ (i > 1 => gs[i - 1] = fs[i - 1])
      <4>1. i \in 1..(L - 1) /\ (i > 1 => i - 1 \in 1..(L - 1))
        BY <2>2
      <4> QED
        BY <4>1
    <3>3. CASE i + 1 < L
      <4>1. i + 1 \in 1..(L - 1)
        BY <3>2, <3>3
      <4>2. gs[i + 1] = fs[i + 1]
        BY <4>1
      <4> QED
        BY <3>1, <3>2, <3>3, <4>2, WaitsBelow
    <3>4. CASE i + 1 = L
      <4> DEFINE p == fs[i]
                 f == fs[i + 1]
                 g == gs[i + 1]
      <4>1. /\ Len(p.parts) \in WaitingMembers(p.stage) /\ Fits(p, f)
            /\ p.stage = "Block" => p.list = <<>> /\ i > 1 /\ fs[i - 1].stage \in {"otherwise", "If"}
            /\ p.stage \in Lists =>
                 \/ p.list = <<>>
                 \/ Len(p.list) = 1 /\ f.stage \in {"statement", "target"} /\ look = ","
        BY <3>1, Zenon DEF WaitsWell
      <4>2. Turns(f, look, g, look) /\ f.stage \notin {"statement", "target"}
        BY <3>4
      <4>3. Fits(p, g)
        BY <4>1, <4>2, FitsTurned
      <4> HIDE DEF f, g, p
      <4>4. p.stage \in Lists => p.list = <<>>
        BY <4>1, <4>2
      <4>5. gs[i] = p /\ gs[i + 1] = g /\ (i > 1 => gs[i - 1] = fs[i - 1])
        BY <3>2 DEF p, g
      <4> QED
        BY <4>1, <4>3, <4>4, <4>5 DEF WaitsWell
    <3> QED
      BY <2>2, <3>3, <3>4
  <2> QED
    BY <2>1, <2>2
<1> QED
  BY <1>2 DEF Formed

\* The last one returns to the one before it.
LEMMA FormedReturn ==
  ASSUME NEW fs, NEW look, Len(fs) \in Nat, Len(fs) > 1, Formed(fs, look),
         NEW gs, Len(gs) = Len(fs) - 1, \A j \in 1..(Len(fs) - 2) : gs[j] = fs[j],
         gs[Len(gs)].stage = fs[Len(fs) - 1].stage, gs[Len(gs)].gobble = fs[Len(fs) - 1].gobble,
         WorksWell(gs[Len(gs)]), NEW look2
  PROVE  Formed(gs, look2)
<1> DEFINE L == Len(fs)
<1>1. L - 2 \in Nat /\ Len(gs) = L - 1 /\ Len(gs) - 1 = L - 2
  OBVIOUS
<1>2. ASSUME NEW i \in 1..(L - 2) PROVE WaitsWell(gs, look2, i)
  <2>1. WaitsWell(fs, look, i)
    <3>1. i \in 1..(L - 1)
      OBVIOUS
    <3> QED
      BY <3>1, Zenon DEF Formed
  <2>2. i \in Nat /\ i > 0 /\ i + 1 < L /\ gs[i] = fs[i] /\ (i > 1 => gs[i - 1] = fs[i - 1])
    <3>1. i > 1 => i - 1 \in 1..(L - 2)
      OBVIOUS
    <3> QED
      BY <3>1
  <2>3. gs[i + 1].stage = fs[i + 1].stage /\ gs[i + 1].gobble = fs[i + 1].gobble
    <3>1. CASE i + 1 = L - 1
      BY <1>1, <3>1
    <3>2. CASE i + 1 # L - 1
      <4>1. i + 1 \in 1..(L - 2)
        BY <3>2
      <4> QED
        BY <4>1
    <3> QED
      BY <3>1, <3>2
  <2> QED
    BY <2>1, <2>2, <2>3, WaitsBelow
<1> QED
  BY <1>1, <1>2 DEF Formed

\* The frames fit together, and w is what they say whether or not an else follows.
Speaks(T, hp, fs, w, look) ==
  /\ Formed(fs, look)
  /\ \A end \in Closings(look) : w \in Heard(T, hp, fs, end)

LEMMA ClosingEnds == \A look : Closings(look) \subseteq Ends /\ "any" \in Closings(look)
BY DEF Closings, Ends

\* A production reads a symbol,
LEMMA SpeaksRead ==
  ASSUME NEW T, NEW hp, NEW T2, NEW hq, NEW fs, NEW look, Setting(T, hp, T2, hq, fs, look),
         NEW w, Speaks(T, hp, fs, w, look),
         NEW gs, Differ(fs, gs, Len(fs)), NEW t \in Symbols, NEW look2,
         Turns(fs[Len(fs)], look, gs[Len(fs)], look2), WorksWell(gs[Len(fs)]),
         fs[Len(fs)].stage # "Block", NEW e \in Closings(look),
         \A end \in Ends : Said(T, hp, fs[Len(fs)], e) ** Tok(t) \subseteq Said(T2, hq, gs[Len(fs)], end)
  PROVE  Speaks(T2, hq, gs, Append(w, t), look2)
<1>1. Len(fs) \in Nat /\ Len(fs) > 0 /\ Len(gs) = Len(fs)
  BY SettingTop DEF Differ
<1>2. Formed(gs, look2)
  BY <1>1, FormedOver DEF Speaks
<1>3. e \in Ends /\ w \in Heard(T, hp, fs, e)
  BY ClosingEnds DEF Speaks
<1>4. ASSUME NEW end \in Closings(look2) PROVE Append(w, t) \in Heard(T2, hq, gs, end)
  <2>1. end \in Ends
    BY ClosingEnds
  <2>2. Said(T, hp, fs[Len(fs)], e) ** Tok(t) \subseteq Said(T2, hq, gs[Len(gs)], end)
    BY <1>1, <2>1
  <2> QED
    BY <1>3, <2>2, ReadOver
<1> QED
  BY <1>2, <1>4 DEF Speaks

\* goes on without,
LEMMA SpeaksStay ==
  ASSUME NEW T, NEW hp, NEW T2, NEW hq, NEW fs, NEW look, Setting(T, hp, T2, hq, fs, look),
         NEW w, Speaks(T, hp, fs, w, look),
         NEW gs, Differ(fs, gs, Len(fs)),
         Turns(fs[Len(fs)], look, gs[Len(fs)], look), WorksWell(gs[Len(fs)]),
         fs[Len(fs)].stage # "Block",
         \A end \in Closings(look) :
           Said(T, hp, fs[Len(fs)], end) \subseteq Said(T2, hq, gs[Len(fs)], end)
  PROVE  Speaks(T2, hq, gs, w, look)
<1>1. Len(fs) \in Nat /\ Len(fs) > 0 /\ Len(gs) = Len(fs)
  BY SettingTop DEF Differ
<1>2. Formed(gs, look)
  BY <1>1, FormedOver DEF Speaks
<1>4. ASSUME NEW end \in Closings(look) PROVE w \in Heard(T2, hq, gs, end)
  <2>1. Said(T, hp, fs[Len(fs)], end) \subseteq Said(T2, hq, gs[Len(gs)], end)
    BY <1>1
  <2>2. w \in Heard(T, hp, fs, end)
    BY DEF Speaks
  <2> QED
    BY <2>1, <2>2, StayOver
<1> QED
  BY <1>2, <1>4 DEF Speaks

\* and calls another.
LEMMA SpeaksCall ==
  ASSUME NEW T, NEW hp, NEW fs, NEW look, Setting(T, hp, T, hp, fs, look),
         NEW w, Speaks(T, hp, fs, w, look),
         NEW gs, Len(gs) = Len(fs) + 1, \A j \in 1..(Len(fs) - 1) : gs[j] = fs[j],
         fs[Len(fs)].stage \notin {"statement", "target", "Block"},
         Turns(fs[Len(fs)], look, gs[Len(fs)], look),
         WaitsWell(gs, look, Len(fs)), WorksWell(gs[Len(fs) + 1]),
         Said(T, hp, fs[Len(fs)], "any") \subseteq Waiting(T, hp, gs[Len(fs)]),
         \A end \in Ends : <<>> \in Said(T, hp, gs[Len(fs) + 1], end)
  PROVE  Speaks(T, hp, gs, w, look)
<1>1. Len(fs) \in Nat /\ Len(fs) > 0
  BY SettingTop
<1>2. Formed(gs, look)
  BY <1>1, FormedCall DEF Speaks
<1>3. w \in Heard(T, hp, fs, "any")
  BY ClosingEnds DEF Speaks
<1>4. ASSUME NEW end \in Closings(look) PROVE w \in Heard(T, hp, gs, end)
  <2>1. <<>> \in Said(T, hp, gs[Len(gs)], end)
    BY ClosingEnds
  <2> QED
    BY <1>3, <2>1, StayCall
<1> QED
  BY <1>2, <1>4 DEF Speaks

---------------------------------------------------------------------------
(* Returning.                                                              *)

LEMMA SpokenType ==
  ASSUME NEW T, NEW hp, NEW T2, NEW hq, NEW fs, NEW look, Setting(T, hp, T2, hq, fs, look),
         NEW end \in Ends
  PROVE  Spoken(T, hp, fs, end) \in Languages
<1> DEFINE f == fs[Len(fs)]
           S == Said(T, hp, f, end)
           B == Sentence(T, hp, f.list[1], end)
<1>1. f \in FrameType /\ HoldsUpTo(f, Len(hp)) /\ Len(f.parts) \in Members(f.stage)
  BY SettingTop
<1>2. Continues(T, hp, T2, hq)
  BY DEF Setting
<1>3. S \in Languages
  BY <1>1, <1>2, SaidSame DEF FrameType
<1>4. ASSUME Braceless(fs) PROVE B \in Languages
  <2>1. Len(f.list) = 1 /\ f.list \in Seq(1..Len(hp))
    BY <1>1, <1>4 DEF Braceless, HoldsUpTo
  <2>2. f.list[1] \in 1..Len(hp)
    BY <2>1, ElementOfSeq
  <2> QED
    BY <1>2, <2>2, SentenceSame
<1> HIDE DEF f, S, B
<1>5. Spoken(T, hp, fs, end) = S \cup IF Braceless(fs) THEN B ELSE {}
  BY DEF Spoken, f, S, B
<1>6. CASE Braceless(fs)
  BY <1>3, <1>4, <1>5, <1>6, UnionType
<1>7. CASE ~Braceless(fs)
  BY <1>3, <1>5, <1>7
<1> QED
  BY <1>6, <1>7

\* It returns to the frame before it,
LEMMA SpeaksReturn ==
  ASSUME NEW T, NEW hp, NEW T2, NEW hq, NEW fs, NEW look, Setting(T, hp, T2, hq, fs, look),
         NEW w, Speaks(T, hp, fs, w, look),
         NEW gs, Len(fs) > 1, Len(gs) = Len(fs) - 1, \A j \in 1..(Len(fs) - 2) : gs[j] = fs[j],
         gs[Len(gs)].stage = fs[Len(fs) - 1].stage, gs[Len(gs)].gobble = fs[Len(fs) - 1].gobble,
         WorksWell(gs[Len(gs)]),
         \A end \in Closings(look) : \E e \in Closings(look) :
           Waiting(T2, hq, fs[Len(fs) - 1]) ** Spoken(T, hp, fs, e) \subseteq Spoken(T2, hq, gs, end)
  PROVE  Speaks(T2, hq, gs, w, look)
<1> DEFINE p == fs[Len(fs) - 1]
<1>1. Len(fs) \in Nat
  BY SettingTop
<1>2. Formed(gs, look)
  BY <1>1, FormedReturn DEF Speaks
<1>3. ASSUME NEW end \in Closings(look) PROVE w \in Heard(T2, hq, gs, end)
  <2>0. PICK e \in Closings(look) :
          Waiting(T2, hq, p) ** Spoken(T, hp, fs, e) \subseteq Spoken(T2, hq, gs, end)
    OBVIOUS
  <2> DEFINE O == Outer(T2, hq, gs)
             W == Waiting(T2, hq, p)
             S == Spoken(T, hp, fs, e)
             R == Spoken(T2, hq, gs, end)
  <2>1. Outer(T, hp, fs) = O ** W /\ O \in Languages /\ W \in Languages
    BY OuterReturn
  <2>2. S \in Languages
    BY ClosingEnds, SpokenType
  <2>3. w \in Outer(T, hp, fs) ** S
    BY DEF Speaks, Heard
  <2>4. Heard(T2, hq, gs, end) = O ** R
    BY DEF Heard
  <2>5. W ** S \subseteq R
    BY <2>0
  <2> HIDE DEF O, W, S, R
  <2>6. w \in O ** (W ** S)
    BY <2>1, <2>2, <2>3, Associative
  <2>7. O ** (W ** S) \subseteq O ** R
    BY <2>5, Monotone
  <2> QED
    BY <2>4, <2>6, <2>7
<1> QED
  BY <1>2, <1>3 DEF Speaks

\* and reads a symbol as it does.
LEMMA SpeaksReadReturn ==
  ASSUME NEW T, NEW hp, NEW T2, NEW hq, NEW fs, NEW look, Setting(T, hp, T2, hq, fs, look),
         NEW w, Speaks(T, hp, fs, w, look), NEW t \in Symbols, NEW look2,
         NEW gs, Len(fs) > 1, Len(gs) = Len(fs) - 1, \A j \in 1..(Len(fs) - 2) : gs[j] = fs[j],
         gs[Len(gs)].stage = fs[Len(fs) - 1].stage, gs[Len(gs)].gobble = fs[Len(fs) - 1].gobble,
         WorksWell(gs[Len(gs)]),
         \A end \in Ends :
           Waiting(T2, hq, fs[Len(fs) - 1]) ** (Spoken(T, hp, fs, "any") ** Tok(t))
             \subseteq Spoken(T2, hq, gs, end)
  PROVE  Speaks(T2, hq, gs, Append(w, t), look2)
<1> DEFINE p == fs[Len(fs) - 1]
<1>1. Len(fs) \in Nat
  BY SettingTop
<1>2. Formed(gs, look2)
  BY <1>1, FormedReturn DEF Speaks
<1>3. ASSUME NEW end \in Closings(look2) PROVE Append(w, t) \in Heard(T2, hq, gs, end)
  <2> DEFINE O == Outer(T2, hq, gs)
             W == Waiting(T2, hq, p)
             S == Spoken(T, hp, fs, "any")
             R == Spoken(T2, hq, gs, end)
  <2>1. Outer(T, hp, fs) = O ** W /\ O \in Languages /\ W \in Languages
    BY OuterReturn
  <2>2. S \in Languages
    BY EndsList, SpokenType
  <2>3. w \in Outer(T, hp, fs) ** S
    BY ClosingEnds DEF Speaks, Heard
  <2>4. Heard(T2, hq, gs, end) = O ** R
    BY DEF Heard
  <2>5. W ** (S ** Tok(t)) \subseteq R
    BY ClosingEnds
  <2> HIDE DEF O, W, S, R
  <2>6. O ** W \in Languages /\ S ** Tok(t) \in Languages
    BY <2>1, <2>2, BehindType, TokType
  <2>7. Append(w, t) \in (O ** W) ** (S ** Tok(t))
    BY <2>1, <2>2, <2>3, <2>6, Reads
  <2>8. Append(w, t) \in O ** (W ** (S ** Tok(t)))
    BY <2>1, <2>6, <2>7, Associative
  <2>9. O ** (W ** (S ** Tok(t))) \subseteq O ** R
    BY <2>5, Monotone
  <2> QED
    BY <2>4, <2>8, <2>9
<1> QED
  BY <1>2, <1>3 DEF Speaks

---------------------------------------------------------------------------
(* What the steps do to the frames.                                        *)

LEMMA GotoIs ==
  ASSUME Sound(frames, heap), NEW t \in Stages, Goto(t)
  PROVE  LET f == frames[Len(frames)]
             g == frames'[Len(frames)]
         IN  /\ Differ(frames, frames', Len(frames)) /\ Here = f
             /\ g.stage = t /\ g.parts = f.parts /\ g.list = f.list /\ g.gobble = f.gobble
<1> DEFINE f == frames[Len(frames)]
           r == [f EXCEPT !.stage = t]
<1>1. /\ frames \in Seq(FrameType) /\ f \in FrameType /\ Len(frames) \in Nat
      /\ Len(frames) \in 1..Len(frames) /\ Here = f
  BY Now, SoundTop, TopFrame DEF Shaped
<1>2. r \in FrameType /\ r.stage = t /\ r.parts = f.parts /\ r.list = f.list /\ r.gobble = f.gobble
  BY <1>1 DEF FrameType
<1>3. frames' = [frames EXCEPT ![Len(frames)] = r]
  BY DEF Goto
<1> HIDE DEF r, f
<1>4. /\ Len(frames') = Len(frames)
      /\ \A j \in 1..Len(frames) : frames'[j] = IF j = Len(frames) THEN r ELSE frames[j]
  BY <1>1, <1>2, <1>3, ExceptSeq
<1> QED
  BY <1>1, <1>2, <1>4 DEF Differ, f

LEMMA HoldIs ==
  ASSUME Sound(frames, heap), NEW t \in Stages, Hold(Fresh, t)
  PROVE  LET f == frames[Len(frames)]
             g == frames'[Len(frames)]
         IN  /\ Differ(frames, frames', Len(frames)) /\ Here = f /\ Fresh = Len(heap) + 1
             /\ g.stage = t /\ g.parts = Append(f.parts, Fresh) /\ g.list = f.list
             /\ g.gobble = f.gobble
<1> DEFINE f == frames[Len(frames)]
           p == Append(f.parts, Fresh)
           r == [f EXCEPT !.stage = t, !.parts = p]
<1>1. /\ frames \in Seq(FrameType) /\ f \in FrameType /\ Len(frames) \in Nat
      /\ Len(frames) \in 1..Len(frames) /\ Here = f /\ Fresh = Len(heap) + 1 /\ Fresh \in Nat
  BY Now, SoundTop, TopFrame DEF Shaped
<1>2. p \in Seq(Nat)
  BY <1>1 DEF FrameType
<1> HIDE DEF p
<1>3. r \in FrameType /\ r.stage = t /\ r.parts = p /\ r.list = f.list /\ r.gobble = f.gobble
  BY <1>1, <1>2 DEF FrameType
<1>4. frames' = [frames EXCEPT ![Len(frames)] = r]
  BY DEF Hold, p
<1> HIDE DEF r, f
<1>5. /\ Len(frames') = Len(frames)
      /\ \A j \in 1..Len(frames) : frames'[j] = IF j = Len(frames) THEN r ELSE frames[j]
  BY <1>1, <1>3, <1>4, ExceptSeq
<1> QED
  BY <1>1, <1>3, <1>5 DEF Differ, f, p

LEMMA WrapIs ==
  ASSUME Sound(frames, heap), NEW t \in Stages, Wrap(t)
  PROVE  LET f == frames[Len(frames)]
             g == frames'[Len(frames)]
         IN  /\ Differ(frames, frames', Len(frames)) /\ Here = f /\ Fresh = Len(heap) + 1
             /\ g.stage = t /\ g.parts = Append(f.parts, Fresh) /\ g.list = <<>>
             /\ g.gobble = f.gobble
             /\ heap' = Made(heap, "Block", f.list)
<1> DEFINE f == frames[Len(frames)]
           p == Append(f.parts, Fresh)
           e == <<>>
           r == [f EXCEPT !.stage = t, !.parts = p, !.list = e]
<1>1. /\ frames \in Seq(FrameType) /\ f \in FrameType /\ Len(frames) \in Nat
      /\ Len(frames) \in 1..Len(frames) /\ Here = f /\ Fresh = Len(heap) + 1 /\ Fresh \in Nat
  BY Now, SoundTop, TopFrame DEF Shaped
<1>2. p \in Seq(Nat) /\ e \in Seq(Nat)
  BY <1>1 DEF FrameType
<1> HIDE DEF p, e
<1>3. r \in FrameType /\ r.stage = t /\ r.parts = p /\ r.list = e /\ r.gobble = f.gobble
  BY <1>1, <1>2 DEF FrameType
<1>4. frames' = [frames EXCEPT ![Len(frames)] = r] /\ heap' = Made(heap, "Block", f.list)
  BY <1>1 DEF Wrap, Made, p, e
<1> HIDE DEF r, f
<1>5. /\ Len(frames') = Len(frames)
      /\ \A j \in 1..Len(frames) : frames'[j] = IF j = Len(frames) THEN r ELSE frames[j]
  BY <1>1, <1>3, <1>4, ExceptSeq
<1> QED
  BY <1>1, <1>3, <1>4, <1>5 DEF Differ, f, p, e

LEMMA CallIs ==
  ASSUME Sound(frames, heap), NEW t \in Stages, NEW c \in FrameType, Call(t, c)
  PROVE  LET f == frames[Len(frames)]
             g == frames'[Len(frames)]
         IN  /\ Len(frames') = Len(frames) + 1 /\ Here = f
             /\ \A j \in 1..(Len(frames) - 1) : frames'[j] = frames[j]
             /\ g.stage = t /\ g.parts = f.parts /\ g.list = f.list /\ g.gobble = f.gobble
             /\ frames'[Len(frames) + 1] = c
<1> DEFINE f == frames[Len(frames)]
           r == [f EXCEPT !.stage = t]
           gs == [frames EXCEPT ![Len(frames)] = r]
<1>1. /\ frames \in Seq(FrameType) /\ f \in FrameType /\ Len(frames) \in Nat
      /\ Len(frames) \in 1..Len(frames) /\ Here = f
  BY Now, SoundTop, TopFrame DEF Shaped
<1>2. r \in FrameType /\ r.stage = t /\ r.parts = f.parts /\ r.list = f.list /\ r.gobble = f.gobble
  BY <1>1 DEF FrameType
<1>3. frames' = Append(gs, c)
  BY DEF Call
<1> HIDE DEF r, f
<1>4. /\ gs \in Seq(FrameType) /\ Len(gs) = Len(frames)
      /\ \A j \in 1..Len(frames) : gs[j] = IF j = Len(frames) THEN r ELSE frames[j]
  BY <1>1, <1>2, ExceptSeq
<1> HIDE DEF gs
<1>5. /\ Len(frames') = Len(gs) + 1 /\ frames'[Len(gs) + 1] = c
      /\ \A j \in 1..Len(gs) : frames'[j] = gs[j]
  BY <1>3, <1>4, Pushed
<1>6. frames'[Len(frames)] = r /\ \A j \in 1..(Len(frames) - 1) : frames'[j] = frames[j]
  BY <1>1, <1>4, <1>5
<1> QED
  BY <1>1, <1>2, <1>4, <1>5, <1>6 DEF f

\* The caller f has received n.
LEMMA ReturnIs ==
  ASSUME Sound(frames, heap), Here.stage # "statements", NEW n \in Nat, Return(n)
  PROVE  LET p == frames[Len(frames) - 1]
             g == frames'[Len(frames')]
         IN  /\ Len(frames) > 1 /\ Len(frames') = Len(frames) - 1 /\ Here = frames[Len(frames)]
             /\ \A j \in 1..(Len(frames) - 2) : frames'[j] = frames[j]
             /\ p \in FrameType /\ p.stage \in Suspended
             /\ g.stage = p.stage /\ g.gobble = p.gobble
             /\ p.stage \in Collecting => g.list = Append(p.list, n) /\ g.parts = p.parts
             /\ p.stage \notin Collecting => g.list = p.list /\ g.parts = Append(p.parts, n)
<1> DEFINE p == frames[Len(frames) - 1]
           r == Received(p, n)
           l == Append(p.list, n)
           m == Append(p.parts, n)
           ps == Pop(frames)
<1>1. /\ Len(frames) \in Nat /\ Len(frames) > 1 /\ frames \in Seq(FrameType)
      /\ Here = frames[Len(frames)]
  BY Now, SoundTop DEF Shaped
<1>2. Len(frames) - 1 \in 1..Len(frames) /\ Len(frames) - 1 \in 1..(Len(frames) - 1)
  BY <1>1
<1>3. p \in FrameType /\ p.stage \in Suspended
  BY <1>1, <1>2, ElementOfSeq, SoundTop DEF Shaped
<1>4. l \in Seq(Nat) /\ m \in Seq(Nat)
  BY <1>3 DEF FrameType
<1>5. \/ p.stage \in Collecting /\ r = [p EXCEPT !.list = l]
      \/ p.stage \notin Collecting /\ r = [p EXCEPT !.parts = m]
  BY DEF Received
<1>6. /\ ps \in Seq(FrameType) /\ Len(ps) = Len(frames) - 1
      /\ \A j \in 1..(Len(frames) - 1) : ps[j] = frames[j]
  BY <1>1, Popped
<1>7. frames' = [ps EXCEPT ![Len(ps)] = r]
  BY <1>2, <1>6 DEF Return
<1> HIDE DEF p, r, l, m, ps
<1>8. /\ r \in FrameType /\ r.stage = p.stage /\ r.gobble = p.gobble
      /\ p.stage \in Collecting => r.list = l /\ r.parts = p.parts
      /\ p.stage \notin Collecting => r.list = p.list /\ r.parts = m
  BY <1>3, <1>4, <1>5 DEF FrameType
<1>9. Len(ps) \in 1..Len(ps)
  BY <1>2, <1>6
<1>10. /\ Len(frames') = Len(ps)
       /\ \A j \in 1..Len(ps) : frames'[j] = IF j = Len(ps) THEN r ELSE ps[j]
  BY <1>6, <1>7, <1>8, <1>9, ExceptSeq
<1>11. /\ frames'[Len(frames')] = r
       /\ \A j \in 1..(Len(frames) - 2) : frames'[j] = frames[j]
  <2>1. \A j \in 1..(Len(frames) - 2) : j \in 1..Len(ps) /\ j # Len(ps) /\ j \in 1..(Len(frames) - 1)
    BY <1>1, <1>6
  <2> QED
    BY <1>6, <1>9, <1>10, <2>1
<1> QED
  BY <1>1, <1>3, <1>6, <1>8, <1>10, <1>11 DEF p, l, m

---------------------------------------------------------------------------
(* Tokens that lead from one stage to another.                             *)

\* Stage s goes on at r when it reads t,
Leads(s, t, r) ==
  \/ s = "statement" /\ t = "for" /\ r = "for_round"
  \/ s = "statement" /\ t = "if" /\ r = "if_round"
  \/ s = "statement" /\ t = "public" /\ r = "return_type"
  \/ s = "statement" /\ t = "return" /\ r = "returned_value"
  \/ s = "for_round" /\ t = "(" /\ r = "initializer"
  \/ s = "if_round" /\ t = "(" /\ r = "if_condition"
  \/ s = "if_close" /\ t = ")" /\ r = "then"
  \/ s = "return_type" /\ t = "type" /\ r = "function_name"
  \/ s = "function_name" /\ t = "id" /\ r = "function_round"
  \/ s = "parameter_type" /\ t = "type" /\ r = "parameter_name"
  \/ s = "parameter_name" /\ t = "id" /\ r = "FunctionParameter"
  \/ s = "declared_type" /\ t = "type" /\ r = "variable"
  \/ s = "array_close" /\ t = "]" /\ r = "initial_value"
  \/ s = "assign" /\ t = "=" /\ r = "assigned_value"
  \/ s = "array" /\ t = "[" /\ r = "array_close"
  \/ s = "array" /\ t = "=" /\ r = "declared_value"
  \/ s = "initial_value" /\ t = "=" /\ r = "declared_value"

\* also after children that are part of the text.
LeadsOn(s, t, r) ==
  \/ s = "condition_end" /\ t = ";" /\ r = "update"
  \/ s = "for_close" /\ t = ")" /\ r = "update_block"
  \/ s = "block" /\ t = "{" /\ r = "block_body"
  \/ s = "function_round" /\ t = "(" /\ r = "parameters"
  \/ s = "block_body" /\ t = "}" /\ r = "Block"
  \/ s = "otherwise" /\ t = "else" /\ r = "else"
  \/ s = "parameters" /\ t = ")" /\ r = "function_body"

\* It is told by its token and its expression.
LeadsHolding(s, t, r) ==
  \/ s = "if_condition" /\ t = "expr" /\ r = "if_close"
  \/ s = "target" /\ t = "target" /\ r = "assign"
  \/ s = "variable" /\ t = "id" /\ r = "array"

LEMMA LeadsWell ==
  ASSUME NEW s, NEW t, NEW r, Leads(s, t, r) \/ LeadsOn(s, t, r)
  PROVE  /\ r \in Stages /\ t \in Symbols /\ t # ","
         /\ Members(r) = Members(s)
         /\ r \in Bare <=> s \in Bare
         /\ s \in {"block", "block_body", "Block"} => r \in {"block", "block_body", "Block"}
         /\ r \notin Lists /\ r # "semicolon" /\ s # "Block"
<1>1. CASE Leads(s, t, r)
  <2>1. r \in Stages /\ t \in Symbols /\ t # ","
    BY <1>1, ZenonT(40) DEF Leads, Stages, Symbols, AllTokens, Keywords, Punctuation
  <2>2. Members(r) = Members(s)
    BY <1>1 DEF Leads, Members, One, Two
  <2>3. r \in Bare <=> s \in Bare
    BY <1>1 DEF Leads, Bare
  <2>4. s \notin {"block", "block_body", "Block"} /\ r \notin Lists /\ r # "semicolon"
    BY <1>1 DEF Leads, Lists
  <2> QED
    BY <2>1, <2>2, <2>3, <2>4
<1>2. CASE LeadsOn(s, t, r)
  <2>1. r \in Stages /\ t \in Symbols /\ t # ","
    BY <1>2 DEF LeadsOn, Stages, Symbols, AllTokens, Keywords, Punctuation
  <2>2. Members(r) = Members(s)
    BY <1>2 DEF LeadsOn, Members, One, Two
  <2>3. r \in Bare <=> s \in Bare
    BY <1>2 DEF LeadsOn, Bare
  <2>4. s \in {"block", "block_body", "Block"} => r \in {"block", "block_body", "Block"}
    BY <1>2 DEF LeadsOn
  <2>5. r \notin Lists /\ r # "semicolon" /\ s # "Block"
    BY <1>2 DEF LeadsOn, Lists
  <2> QED
    BY <2>1, <2>2, <2>3, <2>4, <2>5
<1> QED
  BY <1>1, <1>2

LEMMA LeadsText ==
  ASSUME NEW s, NEW t, NEW r, Leads(s, t, r) \/ LeadsHolding(s, t, r)
  PROVE  s \in Plain /\ r \in Plain /\ PlainText(s) ** Tok(t) \subseteq PlainText(r)
<1>1. /\ {<<>>} \in Languages /\ Datatype \in Languages /\ Array \in Languages
      /\ Declared \in Languages /\ Public \in Languages /\ ForOpen \in Languages
      /\ \A x \in Symbols : Tok(x) \in Languages
  BY FixedType
<1>2. \A x \in Symbols : {<<>>} ** Tok(x) = Tok(x)
  BY <1>1, Silent
<1>3. s \in Plain /\ r \in Plain
  BY DEF Leads, LeadsHolding, Plain
<1>4. CASE s \in {"statement", "target"}
  <2>1. PlainText(s) = {<<>>} /\ t \in Symbols /\ Tok(t) \subseteq PlainText(r)
    <3>1. PlainText(s) = {<<>>}
      BY <1>4, PlainIs
    <3>2. \/ t = "for" /\ r = "for_round"
          \/ t = "if" /\ r = "if_round"
          \/ t = "public" /\ r = "return_type"
          \/ t = "return" /\ r = "returned_value"
          \/ t = "target" /\ r = "assign"
      BY <1>4 DEF Leads, LeadsHolding
    <3>3. t \in Symbols
      BY <3>2, SymbolList
    <3>4. Tok(t) \subseteq PlainText(r)
      BY <3>2, PlainIs
    <3> QED
      BY <3>1, <3>3, <3>4
  <2> QED
    BY <1>2, <1>3, <2>1
<1>5. CASE s \in {"for_round", "if_round", "if_close", "function_name", "parameter_name", "assign",
                  "initial_value", "if_condition", "variable"}
  <2>1. \/ s = "for_round" /\ t = "(" /\ r = "initializer"
        \/ s = "if_round" /\ t = "(" /\ r = "if_condition"
        \/ s = "if_close" /\ t = ")" /\ r = "then"
        \/ s = "function_name" /\ t = "id" /\ r = "function_round"
        \/ s = "parameter_name" /\ t = "id" /\ r = "FunctionParameter"
        \/ s = "assign" /\ t = "=" /\ r = "assigned_value"
        \/ s = "initial_value" /\ t = "=" /\ r = "declared_value"
        \/ s = "if_condition" /\ t = "expr" /\ r = "if_close"
        \/ s = "variable" /\ t = "id" /\ r = "array"
    BY <1>5 DEF Leads, LeadsHolding
  <2>2. PlainText(s) ** Tok(t) = PlainText(r)
    BY <2>1, PlainIs DEF ForOpen, Condition, Declared
  <2> QED
    BY <1>3, <2>2
<1>6. CASE s = "array" /\ t = "["
  <2>1. r = "array_close"
    BY <1>6 DEF Leads, LeadsHolding
  <2>2. PlainText(s) ** Tok(t) = PlainText(r)
    BY <1>6, <2>1, PlainIs
  <2> QED
    BY <1>3, <2>2
<1>7. CASE s = "array" /\ t = "="
  <2>1. r = "declared_value"
    BY <1>7 DEF Leads, LeadsHolding
  <2>2. Declared ** {<<>>} = Declared
    BY <1>1, Silent
  <2>3. {<<>>} \subseteq Array
    BY DEF Array
  <2>4. Declared ** {<<>>} \subseteq Declared ** Array
    BY <2>3, Monotone
  <2>5. Declared ** Tok("=") \subseteq Declared ** Array ** Tok("=")
    BY <2>2, <2>4, Monotone
  <2>6. PlainText(s) = Declared /\ PlainText(r) = Declared ** Array ** Tok("=")
    BY <1>7, <2>1, PlainIs
  <2> QED
    BY <1>3, <1>7, <2>5, <2>6
<1>8. CASE s = "array_close"
  <2>1. t = "]" /\ r = "initial_value"
    BY <1>8 DEF Leads, LeadsHolding
  <2>2. (Declared ** Tok("[")) ** Tok("]") = Declared ** (Tok("[") ** Tok("]"))
    <3>1. Tok("[") \in Languages /\ Tok("]") \in Languages
      BY <1>1, SymbolList
    <3> QED
      BY <1>1, <3>1, Associative
  <2>3. Tok("[") ** Tok("]") \subseteq Array
    BY DEF Array
  <2>4. Declared ** (Tok("[") ** Tok("]")) \subseteq Declared ** Array
    BY <2>3, Monotone
  <2>5. PlainText(s) = Declared ** Tok("[") /\ PlainText(r) = Declared ** Array
    BY <1>8, <2>1, PlainIs
  <2> QED
    BY <1>3, <2>1, <2>2, <2>4, <2>5
<1>9. CASE s \in {"parameter_type", "declared_type"}
  <2>1. t = "type" /\ r \in {"parameter_name", "variable"}
    BY <1>9 DEF Leads, LeadsHolding
  <2>2. ({<<>>} \cup Tok("secret")) ** Tok("type")
          = ({<<>>} ** Tok("type")) \cup (Tok("secret") ** Tok("type"))
    <3> DEFINE a == {<<>>}
               b == Tok("secret")
               c == Tok("type")
    <3> HIDE DEF a, b, c
    <3>1. (a \cup b) ** c = (a ** c) \cup (b ** c)
      BY Either
    <3> QED
      BY <3>1 DEF a, b, c
  <2>3. {<<>>} ** Tok("type") = Tok("type")
    BY <1>2, SymbolList
  <2>4. PlainText(s) = {<<>>} \cup Tok("secret") /\ PlainText(r) = Datatype
    BY <1>9, <2>1, PlainIs
  <2> QED
    BY <1>3, <2>1, <2>2, <2>3, <2>4 DEF Datatype
<1>10. CASE s = "return_type"
  <2>1. t = "type" /\ r = "function_name"
    BY <1>10 DEF Leads, LeadsHolding
  <2>2. (Tok("public") \cup (Tok("public") ** Tok("secret"))) ** Tok("type")
          = (Tok("public") ** Tok("type")) \cup ((Tok("public") ** Tok("secret")) ** Tok("type"))
    BY Either
  <2>3. (Tok("public") ** Tok("secret")) ** Tok("type") = Tok("public") ** (Tok("secret") ** Tok("type"))
    <3>1. Tok("public") \in Languages /\ Tok("secret") \in Languages /\ Tok("type") \in Languages
      BY <1>1, SymbolList
    <3> QED
      BY <3>1, Associative
  <2>4. Tok("public") ** Datatype
          = (Tok("public") ** Tok("type")) \cup (Tok("public") ** (Tok("secret") ** Tok("type")))
    <3> DEFINE a == Tok("public")
               b == Tok("type")
               c == Tok("secret") ** Tok("type")
    <3> HIDE DEF a, b, c
    <3>1. a ** (b \cup c) = (a ** b) \cup (a ** c)
      BY EitherBehind
    <3> QED
      BY <3>1 DEF a, b, c, Datatype
  <2>5. PlainText(s) = Tok("public") \cup (Tok("public") ** Tok("secret")) /\ PlainText(r) = Public
    BY <1>10, <2>1, PlainIs
  <2> QED
    BY <1>3, <2>1, <2>2, <2>3, <2>4, <2>5 DEF Public
<1> QED
  BY <1>4, <1>5, <1>6, <1>7, <1>8, <1>9, <1>10 DEF Leads, LeadsHolding

\* Which end the text must have that is read on.
EndAt(t) == IF t = "else" THEN "closed" ELSE "any"

LEMMA EndAtCloses == \A t : EndAt(t) \in Closings(t) /\ EndAt(t) \in Ends
BY DEF EndAt, Closings, Ends

LEMMA LeadsOnText ==
  ASSUME NEW T, NEW hp, NEW f, NEW g, NEW t, LeadsOn(f.stage, t, g.stage), FrameOK(f, hp),
         g.parts = f.parts, g.list = f.list, f.list \in Seq(1..Len(hp)),
         f.parts \in Seq(1..Len(hp)), Len(f.parts) \in Members(f.stage),
         Continues(T, hp, T, hp), NEW end \in Ends
  PROVE  Said(T, hp, f, EndAt(t)) ** Tok(t) \subseteq Said(T, hp, g, end)
<1> DEFINE S == Said(T, hp, f, EndAt(t))
           R == Said(T, hp, g, end)
<1>1. CASE f.stage = "condition_end"
  <2>1. t = ";" /\ g.stage = "update"
    BY <1>1 DEF LeadsOn
  <2>2. S = ForStart(T, hp, f.parts[1]) ** Tok("expr")
    BY <1>1, SaidFor
  <2>3. R = ForHead(T, hp, f.parts[1])
    BY <2>1, SaidFor, ZenonT(40)
  <2> HIDE DEF S, R
  <2>4. S ** Tok(t) = R
    BY <2>1, <2>2, <2>3 DEF ForHead
  <2> QED
    BY <2>4 DEF S, R
<1>2. CASE f.stage = "for_close"
  <2>1. t = ")" /\ g.stage = "update_block"
    BY <1>2 DEF LeadsOn
  <2>2. S = Followed(ForHead(T, hp, f.parts[1]), Clauses(T, f.list))
    BY <1>2, SaidFor
  <2>3. R = ForHeader(T, hp, f.parts[1], f.list)
    BY <2>1, SaidFor
  <2> HIDE DEF S, R
  <2>4. S ** Tok(t) = R
    BY <2>1, <2>2, <2>3 DEF ForHeader
  <2> QED
    BY <2>4 DEF S, R
<1>3. CASE f.stage = "block"
  <2>1. t = "{" /\ g.stage = "block_body" /\ f.list = <<>>
    BY <1>3 DEF LeadsOn, FrameOK, Listing, Collecting
  <2>2. S = {<<>>}
    <3>1. f.stage \in Plain
      BY <1>3 DEF Plain
    <3> QED
      BY <1>3, <3>1, SaidNodes, PlainIs
  <2>3. R = Followed(Tok("{"), Sentences(T, hp, <<>>))
    <3>1. R = Followed(Tok("{"), Sentences(T, hp, g.list)) /\ g.list = <<>>
      BY <2>1, SaidLists
    <3> QED
      BY <3>1
  <2>4. Followed(Tok("{"), Sentences(T, hp, <<>>)) = Tok("{")
    BY ListNone, ZenonT(40)
  <2>5. {<<>>} ** Tok("{") = Tok("{")
    BY SymbolList, FixedType, Silent
  <2> HIDE DEF S, R
  <2>6. S ** Tok(t) = R
    BY <2>1, <2>2, <2>3, <2>4, <2>5
  <2> QED
    BY <2>6 DEF S, R
<1>4. CASE f.stage = "function_round"
  <2>1. t = "(" /\ g.stage = "parameters" /\ f.list = <<>>
    BY <1>4 DEF LeadsOn, FrameOK, Listing, Collecting
  <2>2. S = Public ** Tok("id")
    <3>1. f.stage \in Plain
      BY <1>4 DEF Plain
    <3> QED
      BY <1>4, <3>1, SaidNodes, PlainIs
  <2>3. R = Signature(1..Len(f.list))
    BY <2>1, SaidParameters
  <2>4. Signature(1..Len(f.list)) = Public ** Tok("id") ** Tok("(")
    <3> DEFINE s == [i \in 1..Len(f.list) |-> Parameter]
    <3>1. Len(s) = 0
      BY <2>1
    <3> HIDE DEF s
    <3>2. Followed(Public ** Tok("id") ** Tok("("), s) = Public ** Tok("id") ** Tok("(")
      BY <3>1, FollowedNone
    <3> QED
      BY <3>2 DEF Signature, Public, s
  <2> HIDE DEF S, R
  <2>5. S ** Tok(t) = R
    BY <2>1, <2>2, <2>3, <2>4
  <2> QED
    BY <2>5 DEF S, R
<1>5. CASE f.stage = "block_body"
  <2>1. t = "}" /\ g.stage = "Block"
    BY <1>5 DEF LeadsOn
  <2>2. S = Followed(Tok("{"), Sentences(T, hp, f.list))
    BY <1>5, SaidLists
  <2>3. f.list \o f.parts = f.list
    <3>1. Len(f.parts) = 0
      BY <1>5 DEF Members, One, Two
    <3>2. f.parts = <<>>
      BY <3>1, EmptySeq
    <3> QED
      BY <3>2, ConcatEmptySeq
  <2>4. R = TextOf(T, hp, "Block", f.list, end)
    <3>1. g.stage \in Simple \cup Compound
      BY <2>1 DEF Compound
    <3>2. R = TextOf(T, hp, g.stage, g.list \o g.parts, end)
      BY <3>1, SaidNodes
    <3> QED
      BY <2>1, <2>3, <3>2
  <2>5. TextOf(T, hp, "Block", f.list, end) = BlockText(T, hp, f.list)
    BY DEF TextOf
  <2> HIDE DEF S, R
  <2>6. S ** Tok(t) = R
    BY <2>1, <2>2, <2>4, <2>5 DEF BlockText
  <2> QED
    BY <2>6 DEF S, R
<1>6. CASE f.stage = "otherwise"
  <2>1. t = "else" /\ g.stage = "else"
    BY <1>6 DEF LeadsOn
  <2>2. S = Condition ** BranchText(T, hp, f.parts[2], "closed")
    BY <1>6, <2>1, SaidNodes DEF EndAt
  <2>3. R = Condition ** BranchText(T, hp, f.parts[2], "closed") ** Tok("else")
    BY <2>1, SaidNodes
  <2> HIDE DEF S, R
  <2>4. S ** Tok(t) = R
    BY <2>1, <2>2, <2>3
  <2> QED
    BY <2>4 DEF S, R
<1>7. CASE f.stage = "parameters"
  <2>1. t = ")" /\ g.stage = "function_body"
    BY <1>7 DEF LeadsOn
  <2>2. S = Signature(1..Len(f.list))
    BY <1>7, SaidParameters
  <2>3. R = Signature(1..Len(f.list)) ** Tok(")")
    BY <2>1, SaidBody
  <2> HIDE DEF S, R
  <2>4. S ** Tok(t) = R
    BY <2>1, <2>2, <2>3
  <2> QED
    BY <2>4 DEF S, R
<1> QED
  BY <1>1, <1>2, <1>3, <1>4, <1>5, <1>6, <1>7 DEF LeadsOn

---------------------------------------------------------------------------
(* Steps that read a token and make no node.                               *)

\* With the texts T of its nodes, the state says what was consumed.
Tells(T) == /\ Sound(frames, heap)
            /\ Typed(T, heap)
            /\ Speaks(T, heap, frames, consumed, it)

LEMMA TellsHere ==
  ASSUME NEW T, Tells(T)
  PROVE  /\ Sound(frames, heap) /\ Speaks(T, heap, frames, consumed, it)
         /\ Setting(T, heap, T, heap, frames, it) /\ Continues(T, heap, T, heap)
         /\ Len(frames) \in Nat /\ Len(frames) > 0
         /\ Here = frames[Len(frames)] /\ Here \in FrameType /\ FrameOK(Here, heap)
         /\ Here.parts \in Seq(1..Len(heap)) /\ Here.list \in Seq(1..Len(heap))
         /\ Len(Here.parts) \in Members(Here.stage) /\ WorksWell(Here)
<1>1. Sound(frames, heap) /\ Typed(T, heap) /\ Speaks(T, heap, frames, consumed, it)
  BY DEF Tells
<1>2. Continues(T, heap, T, heap)
  BY <1>1, SoundTop, ContinuesItself
<1>3. Setting(T, heap, T, heap, frames, it)
  BY <1>1, <1>2 DEF Setting, Speaks
<1>4. /\ Len(frames) \in Nat /\ Len(frames) > 0
      /\ Here = frames[Len(frames)] /\ Here \in FrameType /\ FrameOK(Here, heap)
  BY <1>1, Now
<1>5. Here.parts \in Seq(1..Len(heap)) /\ Here.list \in Seq(1..Len(heap))
  BY <1>1, <1>4, SoundTop
<1>6. WorksWell(Here)
  BY <1>1, <1>4 DEF Speaks, Formed
<1> QED
  BY <1>1, <1>2, <1>3, <1>4, <1>5, <1>6 DEF WorksWell

LEMMA LeadStep ==
  ASSUME NEW T, Tells(T), NEW r, Leads(Here.stage, it, r) \/ LeadsOn(Here.stage, it, r),
         Goto(r), Advance, UNCHANGED heap
  PROVE  Speaks(T, heap', frames', consumed', it')
<1> DEFINE f == frames[Len(frames)]
           g == frames'[Len(frames)]
<1>1. /\ Sound(frames, heap) /\ Speaks(T, heap, frames, consumed, it)
      /\ Setting(T, heap, T, heap, frames, it) /\ Continues(T, heap, T, heap)
      /\ Here = f /\ FrameOK(f, heap)
      /\ f.parts \in Seq(1..Len(heap)) /\ f.list \in Seq(1..Len(heap))
      /\ Len(f.parts) \in Members(f.stage)
  BY TellsHere
<1>2. /\ r \in Stages /\ it \in Symbols /\ it # ","
      /\ Members(r) = Members(f.stage)
      /\ r \in Bare <=> f.stage \in Bare
      /\ f.stage \in {"block", "block_body", "Block"} => r \in {"block", "block_body", "Block"}
      /\ r \notin Lists /\ r # "semicolon" /\ f.stage # "Block"
  BY <1>1, LeadsWell
<1>3. /\ Differ(frames, frames', Len(frames))
      /\ g.stage = r /\ g.parts = f.parts /\ g.list = f.list /\ g.gobble = f.gobble
  BY <1>1, <1>2, GotoIs
<1>4. consumed' = Append(consumed, it)
  BY DEF Advance, AdvanceTo
<1>5. ASSUME NEW end \in Ends PROVE Said(T, heap, f, EndAt(it)) ** Tok(it) \subseteq Said(T, heap, g, end)
  <2>1. CASE Leads(f.stage, it, r)
    <3>1. f.stage \in Plain /\ r \in Plain /\ PlainText(f.stage) ** Tok(it) \subseteq PlainText(r)
      BY <2>1, LeadsText
    <3>2. Said(T, heap, f, EndAt(it)) = PlainText(f.stage)
      BY <3>1, SaidNodes
    <3>3. Said(T, heap, g, end) = PlainText(r)
      BY <1>3, <3>1, SaidNodes
    <3> QED
      BY <3>1, <3>2, <3>3
  <2>2. CASE LeadsOn(f.stage, it, r)
    <3>1. LeadsOn(f.stage, it, g.stage)
      BY <1>3, <2>2
    <3> HIDE DEF f, g
    <3> QED
      BY <1>1, <1>3, <3>1, LeadsOnText
  <2> QED
    BY <1>1, <2>1, <2>2
<1>6. WorksWell(g)
  BY <1>1, <1>2, <1>3 DEF WorksWell
<1>7. Turns(f, it, g, it')
  BY <1>2, <1>3 DEF Turns
<1>8. EndAt(it) \in Closings(it)
  BY EndAtCloses
<1>9. Speaks(T, heap, frames', Append(consumed, it), it')
  BY <1>1, <1>2, <1>3, <1>5, <1>6, <1>7, <1>8, SpeaksRead
<1> QED
  BY <1>4, <1>9

LEMMA ExpectedLeads ==
  ASSUME NEW s \in DOMAIN Expected, NEW e, e = Expected[s]
  PROVE  Leads(s, e.token, e.next) \/ LeadsOn(s, e.token, e.next)
<1>0. s \in {"for_round", "condition_end", "for_close", "if_round", "if_close", "block",
            "return_type", "function_name", "function_round", "parameter_type",
            "parameter_name", "declared_type", "array_close", "assign"}
  BY DEF Expected
<1>1. CASE s = "for_round"
  <2>1. Expected.for_round.token = "(" /\ Expected.for_round.next = "initializer"
    BY DEF Expected, Wanted
  <2> QED
    BY <1>1, <2>1 DEF Leads
<1>2. CASE s = "condition_end"
  <2>1. Expected.condition_end.token = ";" /\ Expected.condition_end.next = "update"
    BY DEF Expected, Wanted
  <2> QED
    BY <1>2, <2>1 DEF LeadsOn
<1>3. CASE s = "for_close"
  <2>1. Expected.for_close.token = ")" /\ Expected.for_close.next = "update_block"
    BY DEF Expected, Wanted
  <2> QED
    BY <1>3, <2>1 DEF LeadsOn
<1>4. CASE s = "if_round"
  <2>1. Expected.if_round.token = "(" /\ Expected.if_round.next = "if_condition"
    BY DEF Expected, Wanted
  <2> QED
    BY <1>4, <2>1 DEF Leads
<1>5. CASE s = "if_close"
  <2>1. Expected.if_close.token = ")" /\ Expected.if_close.next = "then"
    BY DEF Expected, Wanted
  <2> QED
    BY <1>5, <2>1 DEF Leads
<1>6. CASE s = "block"
  <2>1. Expected.block.token = "{" /\ Expected.block.next = "block_body"
    BY DEF Expected, Wanted
  <2> QED
    BY <1>6, <2>1 DEF LeadsOn
<1>7. CASE s = "return_type"
  <2>1. Expected.return_type.token = "type" /\ Expected.return_type.next = "function_name"
    BY DEF Expected, Wanted
  <2> QED
    BY <1>7, <2>1 DEF Leads
<1>8. CASE s = "function_name"
  <2>1. Expected.function_name.token = "id" /\ Expected.function_name.next = "function_round"
    BY DEF Expected, Wanted
  <2> QED
    BY <1>8, <2>1 DEF Leads
<1>9. CASE s = "function_round"
  <2>1. Expected.function_round.token = "(" /\ Expected.function_round.next = "parameters"
    BY DEF Expected, Wanted
  <2> QED
    BY <1>9, <2>1 DEF LeadsOn
<1>10. CASE s = "parameter_type"
  <2>1. Expected.parameter_type.token = "type" /\ Expected.parameter_type.next = "parameter_name"
    BY DEF Expected, Wanted
  <2> QED
    BY <1>10, <2>1 DEF Leads
<1>11. CASE s = "parameter_name"
  <2>1. Expected.parameter_name.token = "id" /\ Expected.parameter_name.next = "FunctionParameter"
    BY DEF Expected, Wanted
  <2> QED
    BY <1>11, <2>1 DEF Leads
<1>12. CASE s = "declared_type"
  <2>1. Expected.declared_type.token = "type" /\ Expected.declared_type.next = "variable"
    BY DEF Expected, Wanted
  <2> QED
    BY <1>12, <2>1 DEF Leads
<1>13. CASE s = "array_close"
  <2>1. Expected.array_close.token = "]" /\ Expected.array_close.next = "initial_value"
    BY DEF Expected, Wanted
  <2> QED
    BY <1>13, <2>1 DEF Leads
<1>14. CASE s = "assign"
  <2>1. Expected.assign.token = "=" /\ Expected.assign.next = "assigned_value"
    BY DEF Expected, Wanted
  <2> QED
    BY <1>14, <2>1 DEF Leads
<1> QED
  BY <1>0, <1>1, <1>2, <1>3, <1>4, <1>5, <1>6, <1>7, <1>8, <1>9, <1>10, <1>11, <1>12, <1>13, <1>14

LEMMA SpellsToken == ASSUME NEW T, Tells(T), ExpectToken PROVE Speaks(T, heap', frames', consumed', it')
<1> DEFINE e == Expected[Here.stage]
<1>1. /\ Here.stage \in DOMAIN Expected /\ it = e.token
      /\ Goto(e.next) /\ Advance /\ UNCHANGED heap
  BY DEF ExpectToken, At, Here
<1>2. Leads(Here.stage, e.token, e.next) \/ LeadsOn(Here.stage, e.token, e.next)
  BY <1>1, ExpectedLeads
<1> HIDE DEF e
<1> QED
  BY <1>1, <1>2, LeadStep

LEMMA SpellsKeyword ==
  ASSUME NEW T, Tells(T), DispatchKeyword PROVE Speaks(T, heap', frames', consumed', it')
<1>1. /\ Here.stage = "statement" /\ it \in DOMAIN Opened
      /\ Goto(Opened[it]) /\ Advance /\ UNCHANGED heap
  BY DEF DispatchKeyword, At, Here
<1>2. \/ it = "for" /\ Opened[it] = "for_round"
      \/ it = "if" /\ Opened[it] = "if_round"
      \/ it = "public" /\ Opened[it] = "return_type"
      \/ it = "return" /\ Opened[it] = "returned_value"
  BY <1>1 DEF Opened
<1>3. Leads(Here.stage, it, Opened[it])
  BY <1>1, <1>2 DEF Leads
<1> QED
  BY <1>1, <1>3, LeadStep

LEMMA SpellsRead ==
  ASSUME NEW T, Tells(T), OpenArray \/ Initialize \/ CloseBlock \/ CloseParameters
  PROVE  Speaks(T, heap', frames', consumed', it')
<1>1. CASE OpenArray
  <2>1. /\ Leads(Here.stage, it, "array_close") /\ Goto("array_close") /\ Advance /\ UNCHANGED heap
    BY <1>1 DEF OpenArray, At, Here, Leads
  <2> QED
    BY <2>1, LeadStep
<1>2. CASE Initialize
  <2>1. /\ Leads(Here.stage, it, "declared_value") /\ Goto("declared_value") /\ Advance
        /\ UNCHANGED heap
    BY <1>2 DEF Initialize, At, Here, Leads
  <2> QED
    BY <2>1, LeadStep
<1>3. CASE CloseBlock
  <2>1. /\ LeadsOn(Here.stage, it, "Block") /\ Goto("Block") /\ Advance /\ UNCHANGED heap
    BY <1>3 DEF CloseBlock, At, Here, LeadsOn
  <2> QED
    BY <2>1, LeadStep
<1>4. CASE CloseParameters
  <2>1. /\ LeadsOn(Here.stage, it, "function_body") /\ Goto("function_body") /\ Advance
        /\ UNCHANGED heap
    BY <1>4 DEF CloseParameters, At, Here, LeadsOn
  <2> QED
    BY <2>1, LeadStep
<1> QED
  BY <1>1, <1>2, <1>3, <1>4

\* One more "secret" would be told by the symbol before it.
LEMMA SecretOnce ==
  ASSUME NEW O \in Languages, NEW A \in Languages, NEW w, w \in O ** (A ** Tok("secret"))
  PROVE  w # <<>> /\ Top(w) = "secret"
<1>1. Tok("secret") \in Languages
  BY TokType, SymbolList
<1>2. w \in (O ** A) ** Tok("secret") /\ O ** A \in Languages
  BY <1>1, Associative, BehindType
<1> DEFINE P == O ** A
           C == Tok("secret")
<1>3. w \in P ** C
  BY Zenon, <1>2
<1> HIDE DEF P, C
<1>9. PICK a \in P, b \in C : w = a \o b
  BY <1>3 DEF **
<1>4. a \in Seq(Symbols) /\ b = <<"secret">> /\ "secret" \in Symbols
  BY <1>2, <1>3, SymbolList DEF Languages, Tok, P, C
<1>5. w = Append(a, "secret")
  <2>1. a \o <<"secret">> = Append(a, "secret")
    BY <1>4, AppendIsConcat
  <2> QED
    BY <1>9, <1>4, <2>1
<1>6. Len(w) = Len(a) + 1 /\ w[Len(a) + 1] = "secret" /\ Len(a) \in Nat
  BY <1>4, <1>5, Pushed
<1>7. Len(<<>>) = 0
  OBVIOUS
<1> QED
  BY <1>6, <1>7 DEF Top

\* What may come before "secret".
Unmarked(s) == IF s = "return_type" THEN Tok("public") ELSE {<<>>}

LEMMA MarkedText ==
  ASSUME NEW s \in {"return_type", "parameter_type", "declared_type"}
  PROVE  /\ Unmarked(s) \in Languages
         /\ PlainText(s) = Unmarked(s) \cup (Unmarked(s) ** Tok("secret"))
<1>1. /\ Tok("secret") \in Languages /\ Tok("public") \in Languages /\ {<<>>} \in Languages
      /\ {<<>>} ** Tok("secret") = Tok("secret")
  BY FixedType, SymbolList, Silent
<1>2. CASE s = "return_type"
  <2>1. PlainText(s) = Tok("public") \cup (Tok("public") ** Tok("secret"))
    BY <1>2, PlainIs
  <2> QED
    BY <1>1, <1>2, <2>1 DEF Unmarked
<1>3. CASE s # "return_type"
  <2>1. PlainText(s) = {<<>>} \cup Tok("secret")
    BY <1>3, PlainIs
  <2> QED
    BY <1>1, <1>3, <2>1 DEF Unmarked
<1> QED
  BY <1>2, <1>3

LEMMA SpellsSecret == ASSUME NEW T, Tells(T), ReadSecret PROVE Speaks(T, heap', frames', consumed', it')
<1> DEFINE s == Here.stage
           f == frames[Len(frames)]
           O == Outer(T, heap, frames)
           A == Unmarked(s)
           C == Tok("secret")
<1>1. /\ s \in {"return_type", "parameter_type", "declared_type"}
      /\ it = "secret" /\ (consumed # <<>> => Top(consumed) # "secret")
      /\ consumed' = Append(consumed, "secret") /\ UNCHANGED <<heap, frames>>
  BY DEF ReadSecret, SecretNext, Advance, AdvanceTo
<1>2. /\ Sound(frames, heap) /\ Speaks(T, heap, frames, consumed, it)
      /\ Setting(T, heap, T, heap, frames, it)
      /\ Len(frames) \in Nat /\ Len(frames) > 0 /\ Here = f /\ WorksWell(f)
  BY TellsHere
<1>3. Differ(frames, frames, Len(frames))
  BY DEF Differ
<1>4. O \in Languages
  BY <1>2, <1>3, OuterOver
<1>5. A \in Languages /\ PlainText(s) = A \cup (A ** C) /\ C \in Languages
  BY <1>1, MarkedText, FixedType, SymbolList
<1>6. \A end : Said(T, heap, f, end) = A \cup (A ** C)
  <2>1. f.stage \in Plain /\ f.stage = s
    BY <1>1, <1>2 DEF Plain
  <2> QED
    BY <1>5, <2>1, SaidNodes
<1>7. \A end : Heard(T, heap, frames, end) = O ** (A \cup (A ** C))
  <2>1. f.stage # "Block"
    BY <1>1, <1>2
  <2> QED
    BY <1>6, <2>1, HeardPlain, ZenonT(40)
<1>8. consumed \in O ** (A \cup (A ** C))
  BY <1>2, <1>7, ClosingEnds DEF Speaks
<1>9. consumed \in O ** A
  <2>1. consumed \notin O ** (A ** C)
    <3> SUFFICES ASSUME consumed \in O ** (A ** C) PROVE FALSE
      OBVIOUS
    <3>1. consumed # <<>> /\ Top(consumed) = "secret"
      <4> HIDE DEF O, A
      <4> QED
        BY <1>4, <1>5, SecretOnce
    <3> QED
      BY <1>1, <3>1
  <2> DEFINE D == A ** C
  <2>2. consumed \in O ** (A \cup D) /\ consumed \notin O ** D
    BY <1>8, <2>1
  <2> HIDE DEF D, O, A
  <2>3. O ** (A \cup D) = (O ** A) \cup (O ** D)
    BY EitherBehind
  <2> QED
    BY <2>2, <2>3
<1>10. Append(consumed, "secret") \in O ** (A ** C)
  <2> HIDE DEF O, A
  <2> QED
    BY <1>4, <1>5, <1>9, SymbolList, Reads
<1>11. O ** (A ** C) \subseteq O ** (A \cup (A ** C))
  <2> HIDE DEF O, A
  <2> QED
    BY Monotone
<1>12. \A end : Append(consumed, "secret") \in Heard(T, heap, frames, end)
  BY <1>7, <1>10, <1>11
<1>13. Formed(frames, it')
  <2>1. Turns(f, it, f, it')
    BY <1>1, <1>2 DEF Turns
  <2> QED
    BY <1>2, <1>3, <2>1, FormedOver DEF Speaks
<1> QED
  BY <1>1, <1>12, <1>13 DEF Speaks

---------------------------------------------------------------------------
(* Steps that read nothing.                                                *)

\* Stage s may go on at r without reading, and what f says is said there, too.
GoesOn(s, look, r) ==
  /\ r \in Stages /\ r \notin Lists /\ r # "semicolon"
  /\ s \notin {"Block", "block", "block_body"}
  /\ r \in Bare <=> s \in Bare
  /\ s \in {"statement", "target"} /\ look = "," => r \in {"statement", "target"}
SaysAt(T, hp, f, r, look) ==
  \A g : g.stage = r /\ g.parts = f.parts /\ g.list = f.list =>
           \A end \in Closings(look) : Said(T, hp, f, end) \subseteq Said(T, hp, g, end)

LEMMA StayStep ==
  ASSUME NEW T, Tells(T), NEW r, GoesOn(Here.stage, it, r), Goto(r), Stay, UNCHANGED heap,
         Len(Here.parts) \in Members(r), SaysAt(T, heap, Here, r, it)
  PROVE  Speaks(T, heap', frames', consumed', it')
<1> DEFINE f == frames[Len(frames)]
           g == frames'[Len(frames)]
<1>1. /\ Sound(frames, heap) /\ Speaks(T, heap, frames, consumed, it)
      /\ Setting(T, heap, T, heap, frames, it) /\ Here = f
  BY TellsHere
<1>9. r \in Stages
  BY DEF GoesOn
<1>2. /\ Differ(frames, frames', Len(frames))
      /\ g.stage = r /\ g.parts = f.parts /\ g.list = f.list /\ g.gobble = f.gobble
  BY <1>1, <1>9, GotoIs
<1>3. \A end \in Closings(it) : Said(T, heap, f, end) \subseteq Said(T, heap, g, end)
  BY <1>1, <1>2 DEF SaysAt
<1>4. WorksWell(g)
  BY <1>1, <1>2 DEF WorksWell, GoesOn
<1>5. Turns(f, it, g, it)
  BY <1>1, <1>2 DEF Turns, GoesOn
<1>6. consumed' = consumed /\ it' = it
  BY DEF Stay
<1>7. f.stage # "Block"
  BY <1>1 DEF GoesOn
<1> HIDE DEF f, g
<1>8. Speaks(T, heap, frames', consumed, it)
  BY <1>1, <1>2, <1>3, <1>4, <1>5, <1>7, SpeaksStay DEF f, g
<1> QED
  BY <1>6, <1>8

\* A production without a vector says what its node will.
LEMMA SaidMade ==
  ASSUME NEW T, NEW hp, NEW f, NEW end, f.stage \in Simple \cup {"If", "For"}, f.list = <<>>,
         NEW S, f.parts \in Seq(S)
  PROVE  Said(T, hp, f, end) = TextOf(T, hp, f.stage, f.parts, end)
<1>1. Said(T, hp, f, end) = TextOf(T, hp, f.stage, f.list \o f.parts, end)
  <2>1. f.stage \in Simple \cup Compound
    BY DEF Compound
  <2> QED
    BY <2>1 DEF Said, Plain, Simple, Compound
<1>2. <<>> \o f.parts = f.parts
  BY ConcatEmptySeq
<1> QED
  BY <1>1, <1>2

LEMMA SpellsDispatch == ASSUME NEW T, Tells(T), Dispatch PROVE Speaks(T, heap', frames', consumed', it')
<1> DEFINE r == CASE it = "{"                 -> "block"
                  [] it \in {"secret", "type"} -> "declared_type"
                  [] OTHER                    -> "target"
<1>1. Here.stage = "statement" /\ Goto(r) /\ Stay /\ UNCHANGED heap
  BY DEF Dispatch, At, Here
<1>2. /\ r \in {"block", "declared_type", "target"}
      /\ it = "," => r = "target"
  OBVIOUS
<1> HIDE DEF r
<1>3. Len(Here.parts) \in {0}
  BY <1>1, TellsHere DEF Members, One, Two
<1>4. Len(Here.parts) \in Members(r) /\ GoesOn(Here.stage, it, r)
  BY <1>1, <1>2, <1>3 DEF GoesOn, Stages, Members, One, Two, Lists, Bare
<1>5. ASSUME NEW g, g.stage = r, NEW end PROVE Said(T, heap, Here, end) \subseteq Said(T, heap, g, end)
  <2>1. Here.stage \in Plain /\ g.stage \in Plain
    BY <1>1, <1>2, <1>5 DEF Plain
  <2>2. Said(T, heap, Here, end) = {<<>>} /\ Said(T, heap, g, end) = PlainText(r)
    BY <1>1, <1>5, <2>1, SaidNodes, PlainIs
  <2>3. {<<>>} \subseteq PlainText(r)
    BY <1>2, PlainIs
  <2> QED
    BY <2>2, <2>3
<1>6. SaysAt(T, heap, Here, r, it)
  BY <1>5 DEF SaysAt
<1> QED
  BY <1>1, <1>4, <1>6, StayStep

LEMMA SpellsNothing == ASSUME NEW T, Tells(T), ReturnNothing PROVE Speaks(T, heap', frames', consumed', it')
<1> DEFINE r == "Return"
<1>1. Here.stage = "returned_value" /\ Goto(r) /\ Stay /\ UNCHANGED heap
  BY DEF ReturnNothing, At, Here
<1>2. Len(Here.parts) = 0 /\ Here.parts \in Seq(1..Len(heap)) /\ Here.list = <<>>
  BY <1>1, TellsHere DEF Members, One, Two, FrameOK, Listing, Collecting
<1>3. Here.parts = <<>>
  BY <1>2, EmptySeq
<1>4. ASSUME NEW g, g.stage = r, g.parts = Here.parts, g.list = Here.list, NEW end
      PROVE  Said(T, heap, Here, end) \subseteq Said(T, heap, g, end)
  <2>1. Said(T, heap, Here, end) = Tok("return")
    <3>1. Here.stage \in Plain
      BY <1>1 DEF Plain
    <3> QED
      BY <1>1, <3>1, SaidNodes, PlainIs
  <2>2. Said(T, heap, g, end) = TextOf(T, heap, "Return", <<>>, end)
    <3>1. g.stage \in Simple \cup {"If", "For"}
      BY <1>4 DEF Simple
    <3> QED
      BY <1>2, <1>3, <1>4, <3>1, SaidMade
  <2>3. TextOf(T, heap, "Return", <<>>, end) = Tok("return")
    BY DEF TextOf, ReturnText
  <2> QED
    BY <2>1, <2>2, <2>3
<1>5. Len(Here.parts) \in Members(r) /\ GoesOn(Here.stage, it, r)
  <2>1. Len(Here.parts) \in Members(r)
    BY <1>1, <1>2 DEF Members, One, Two
  <2>2. GoesOn(Here.stage, it, r)
    BY <1>1, <1>2 DEF GoesOn, Stages, Lists, Bare
  <2> QED
    BY <2>1, <2>2
<1>6. SaysAt(T, heap, Here, r, it)
  BY <1>4 DEF SaysAt
<1> HIDE DEF r
<1> QED
  BY <1>1, <1>5, <1>6, StayStep

LEMMA SpellsDeclaration == ASSUME NEW T, Tells(T), DeclareOnly PROVE Speaks(T, heap', frames', consumed', it')
<1> DEFINE r == "VariableDeclaration"
<1>1. Here.stage \in {"array", "initial_value"} /\ Goto(r) /\ Stay /\ UNCHANGED heap
  BY DEF DeclareOnly, At, Here
<1>2. Len(Here.parts) = 1 /\ Here.parts \in Seq(1..Len(heap)) /\ Here.list = <<>>
  BY <1>1, TellsHere DEF Members, One, Two, FrameOK, Listing, Collecting
<1>3. ASSUME NEW g, g.stage = r, g.parts = Here.parts, g.list = Here.list, NEW end
      PROVE  Said(T, heap, Here, end) \subseteq Said(T, heap, g, end)
  <2>1. Said(T, heap, Here, end) \subseteq Declared ** Array
    <3>1. Here.stage \in Plain
      BY <1>1 DEF Plain
    <3>2. CASE Here.stage = "array"
      <4>1. Said(T, heap, Here, end) = Declared
        BY <3>1, <3>2, SaidNodes, PlainIs
      <4>2. Declared \in Languages
        BY FixedType
      <4>3. Declared ** {<<>>} = Declared
        BY <4>2, Silent
      <4>4. {<<>>} \subseteq Array
        BY DEF Array
      <4>5. Declared ** {<<>>} \subseteq Declared ** Array
        BY <4>4, Monotone
      <4> QED
        BY <4>1, <4>3, <4>5
    <3>3. CASE Here.stage = "initial_value"
      BY <3>1, <3>3, SaidNodes, PlainIs
    <3> QED
      BY <1>1, <3>2, <3>3
  <2>2. Said(T, heap, g, end) = TextOf(T, heap, r, Here.parts, end)
    <3>1. g.stage \in Simple \cup {"If", "For"}
      BY <1>3 DEF Simple
    <3> QED
      BY <1>2, <1>3, <3>1, SaidMade
  <2>3. TextOf(T, heap, r, Here.parts, end) = Declared ** Array
    BY <1>2 DEF TextOf, DeclarationText, Declared
  <2> QED
    BY <2>1, <2>2, <2>3
<1>4. Len(Here.parts) \in Members(r) /\ GoesOn(Here.stage, it, r)
  <2>1. Len(Here.parts) \in Members(r)
    BY <1>1, <1>2 DEF Members, One, Two
  <2>2. GoesOn(Here.stage, it, r)
    BY <1>1, <1>2 DEF GoesOn, Stages, Lists, Bare
  <2> QED
    BY <2>1, <2>2
<1>5. SaysAt(T, heap, Here, r, it)
  BY <1>3 DEF SaysAt
<1> HIDE DEF r
<1> QED
  BY <1>1, <1>4, <1>5, StayStep

LEMMA SpellsOtherwise == ASSUME NEW T, Tells(T), Otherwise PROVE Speaks(T, heap', frames', consumed', it')
<1>1. /\ Here.stage = "otherwise" /\ UNCHANGED heap
      /\ \/ it = "else" /\ Goto("else") /\ Advance
         \/ it # "else" /\ Goto("If") /\ Stay
  BY DEF Otherwise, At, Here
<1>2. CASE it = "else"
  <2>1. LeadsOn(Here.stage, it, "else") /\ Goto("else") /\ Advance
    BY <1>1, <1>2 DEF LeadsOn
  <2> QED
    BY <1>1, <2>1, LeadStep
<1>3. CASE it # "else"
  <2> DEFINE r == "If"
  <2>1. Len(Here.parts) = 2 /\ Here.parts \in Seq(1..Len(heap)) /\ Here.list = <<>>
    BY <1>1, TellsHere DEF Members, One, Two, FrameOK, Listing, Collecting
  <2>2. ASSUME NEW g, g.stage = r, g.parts = Here.parts, g.list = Here.list, NEW end \in Closings(it)
        PROVE  Said(T, heap, Here, end) \subseteq Said(T, heap, g, end)
    <3>1. end = "any"
      BY <1>3, <2>2 DEF Closings
    <3>2. Said(T, heap, Here, end) = Condition ** BranchText(T, heap, Here.parts[2], "any")
      BY <1>1, <3>1, SaidNodes
    <3>3. Said(T, heap, g, end) = TextOf(T, heap, "If", Here.parts, end)
      BY <2>1, <2>2, SaidMade
    <3>4. TextOf(T, heap, "If", Here.parts, end) = IfText(T, heap, Here.parts, end)
      BY <2>1 DEF TextOf
    <3>5. IfText(T, heap, Here.parts, end) = Condition ** BranchText(T, heap, Here.parts[2], "any")
      BY <2>1, <3>1 DEF IfText
    <3> QED
      BY <3>2, <3>3, <3>4, <3>5
  <2>3. Len(Here.parts) \in Members(r) /\ GoesOn(Here.stage, it, r)
    <3>1. Len(Here.parts) \in Members(r)
      BY <1>1, <2>1 DEF Members, One, Two
    <3>2. GoesOn(Here.stage, it, r)
      BY <1>1, <2>1 DEF GoesOn, Stages, Lists, Bare
    <3> QED
      BY <3>1, <3>2
  <2>5. SaysAt(T, heap, Here, r, it)
    BY <2>2 DEF SaysAt
  <2>4. Goto(r) /\ Stay
    BY <1>1, <1>3
  <2> HIDE DEF r
  <2> QED
    BY <1>1, <2>3, <2>4, <2>5, StayStep
<1> QED
  BY <1>2, <1>3

LEMMA SpellsUpdates == ASSUME NEW T, Tells(T), EndUpdates PROVE Speaks(T, heap', frames', consumed', it')
<1> DEFINE r == "for_close"
<1>1. Here.stage \in {"update", "updates"} /\ Goto(r) /\ Stay /\ UNCHANGED heap
  BY DEF EndUpdates, At, Here
<1>2. Len(Here.parts) = 2
  BY <1>1, TellsHere DEF Members, One, Two
<1>3. ASSUME NEW g, g.stage = r, g.parts = Here.parts, g.list = Here.list, NEW end
      PROVE  Said(T, heap, Here, end) \subseteq Said(T, heap, g, end)
  <2> DEFINE H == ForHead(T, heap, Here.parts[1])
  <2>1. Said(T, heap, g, end) = Followed(H, Clauses(T, Here.list))
    BY <1>3, SaidFor
  <2>2. CASE Here.stage = "update"
    <3>1. Here.list = <<>>
      BY <2>2, TellsHere DEF FrameOK, Listing, Collecting
    <3>2. Said(T, heap, Here, end) = H
      BY <2>2, SaidFor
    <3>3. Followed(H, Clauses(T, <<>>)) = H
      BY ListNone
    <3> QED
      BY <2>1, <3>1, <3>2, <3>3
  <2>3. CASE Here.stage = "updates"
    <3>1. Said(T, heap, Here, end) = Followed(H, Clauses(T, Here.list))
      BY <2>3, SaidFor
    <3> QED
      BY <2>1, <3>1
  <2> QED
    BY <1>1, <2>2, <2>3
<1>4. Len(Here.parts) \in Members(r) /\ GoesOn(Here.stage, it, r)
  <2>1. Len(Here.parts) \in Members(r)
    BY <1>1, <1>2 DEF Members, One, Two
  <2>2. GoesOn(Here.stage, it, r)
    BY <1>1, <1>2 DEF GoesOn, Stages, Lists, Bare
  <2> QED
    BY <2>1, <2>2
<1>5. SaysAt(T, heap, Here, r, it)
  BY <1>3 DEF SaysAt
<1> HIDE DEF r
<1> QED
  BY <1>1, <1>4, <1>5, StayStep

---------------------------------------------------------------------------
(* Steps that make a node that is held.                                    *)

\* T2 also has the texts of the node that is made.
Grown(T, T2, kind, kids) ==
  /\ IsText(T2, heap') /\ Typed(T2, heap')
  /\ Setting(T, heap, T2, heap', frames, it)
  /\ Continues(T, heap, T2, heap')
  /\ \A end \in Ends : T2[Fresh][end] = TextOf(T, heap, kind, kids, end)

LEMMA MakesText ==
  ASSUME NEW T, Tells(T), IsText(T, heap), NEW kind \in Kinds, NEW k \in Seq(1..Len(heap)),
         heap' = Append(heap, Node(kind, k))
  PROVE  \E T2 : Grown(T, T2, kind, k)
<1>1. /\ Sound(frames, heap) /\ Typed(T, heap) /\ Formed(frames, it)
      /\ heap \in Seq(NodeType) /\ OwnsOlder(heap) /\ Fresh = Len(heap) + 1
  BY Now, SoundTop DEF Tells, Speaks
<1>2. heap' = Made(heap, kind, k)
  BY DEF Made
<1>3. PICK T2 : /\ IsText(T2, heap') /\ Typed(T2, heap') /\ Continues(T, heap, T2, heap')
                /\ \A end \in Ends : T2[Len(heap) + 1][end] = TextOf(T, heap, kind, k, end)
  BY <1>1, <1>2, TextsGrow
<1>4. Setting(T, heap, T2, heap', frames, it)
  BY <1>1, <1>3 DEF Setting
<1>5. Grown(T, T2, kind, k)
  BY <1>1, <1>3, <1>4 DEF Grown
<1> QED
  BY <1>5

LEMMA FreshNumber == ASSUME Sound(frames, heap) PROVE Fresh \in Nat /\ Fresh = Len(heap) + 1
<1>1. Len(heap) \in Nat
  BY SoundTop
<1> QED
  BY <1>1 DEF Fresh

\* f reads t, holds n and goes on at r.
SaysHolding(T, hp, T2, hq, f, n, r, t) ==
  \A g : g.stage = r /\ g.parts = Append(f.parts, n) /\ g.list = f.list =>
           \A end \in Ends : Said(T, hp, f, "any") ** Tok(t) \subseteq Said(T2, hq, g, end)

LEMMA HoldSpeaks ==
  ASSUME NEW T, Tells(T), NEW T2, Setting(T, heap, T2, heap', frames, it),
         NEW r, GoesOn(Here.stage, it, r), it # ",", Hold(Fresh, r),
         NEW t \in Symbols, consumed' = Append(consumed, t), NEW m \in Members(r), m = Len(Here.parts) + 1,
         SaysHolding(T, heap, T2, heap', Here, Fresh, r, t)
  PROVE  Speaks(T2, heap', frames', consumed', it')
<1> DEFINE f == frames[Len(frames)]
           g == frames'[Len(frames)]
<1>0. /\ Sound(frames, heap) /\ Speaks(T, heap, frames, consumed, it)
      /\ Here = f /\ Here \in FrameType
  BY TellsHere
<1>10. f \in FrameType
  BY <1>0
<1>11. Fresh \in Nat
  BY <1>0, FreshNumber
<1>1. f.parts \in Seq(Nat)
  BY <1>10 DEF FrameType
<1>2. r \in Stages /\ r \notin Lists /\ r # "semicolon" /\ f.stage # "Block"
  BY <1>0 DEF GoesOn
<1>3. /\ Differ(frames, frames', Len(frames)) /\ Fresh = Len(heap) + 1
      /\ g.stage = r /\ g.parts = Append(f.parts, Fresh) /\ g.list = f.list /\ g.gobble = f.gobble
  BY <1>0, <1>2, HoldIs
<1>4. \A end \in Ends : Said(T, heap, f, "any") ** Tok(t) \subseteq Said(T2, heap', g, end)
  BY <1>0, <1>3 DEF SaysHolding
<1>5. Len(g.parts) = Len(f.parts) + 1
  <2> DEFINE p == f.parts
  <2>1. p \in Seq(Nat) /\ Fresh \in Nat /\ g.parts = Append(p, Fresh)
    BY <1>1, <1>3, <1>11
  <2> HIDE DEF p
  <2>2. Len(Append(p, Fresh)) = Len(p) + 1
    BY <2>1, Pushed
  <2> QED
    BY <2>1, <2>2 DEF p
<1>6. WorksWell(g)
  BY <1>0, <1>2, <1>3, <1>5 DEF WorksWell
<1>7. Turns(f, it, g, it')
  BY <1>0, <1>3 DEF Turns, GoesOn
<1>8. "any" \in Closings(it)
  BY ClosingEnds
<1> HIDE DEF f, g
<1>9. Speaks(T2, heap', frames', Append(consumed, t), it')
  BY <1>0, <1>2, <1>3, <1>4, <1>6, <1>7, <1>8, SpeaksRead DEF f, g
<1> QED
  BY <1>9

\* A production that still has no text but that of its tokens.
LEMMA SaysLeading ==
  ASSUME NEW T, NEW hp, NEW T2, NEW hq, NEW f, NEW n, NEW r, NEW t, LeadsHolding(f.stage, t, r)
  PROVE  SaysHolding(T, hp, T2, hq, f, n, r, t)
<1>1. f.stage \in Plain /\ r \in Plain /\ PlainText(f.stage) ** Tok(t) \subseteq PlainText(r)
  BY LeadsText
<1>2. Said(T, hp, f, "any") = PlainText(f.stage)
  BY <1>1, SaidNodes
<1>3. ASSUME NEW g, g.stage = r, NEW end PROVE Said(T2, hq, g, end) = PlainText(r)
  BY <1>1, <1>3, SaidNodes
<1> QED
  BY <1>1, <1>2, <1>3 DEF SaysHolding

LEMMA SpellsTarget ==
  ASSUME NEW T, Tells(T), IsText(T, heap), ReadTarget
  PROVE  \E T2 : IsText(T2, heap') /\ Typed(T2, heap') /\ Speaks(T2, heap', frames', consumed', it')
<1> DEFINE r == "assign"
           kind == "Target"
           e == <<>>
<1>1. /\ Here.stage = "target" /\ it = "id" /\ heap' = Append(heap, Node(kind, e))
      /\ Hold(Fresh, r) /\ consumed' = Append(consumed, "target")
  BY DEF ReadTarget, At, Here, AdvanceTo
<1>2. kind \in Kinds /\ e \in Seq(1..Len(heap))
  BY DEF Kinds
<1> HIDE DEF kind, e
<1>3. PICK T2 : Grown(T, T2, kind, e)
  BY <1>1, <1>2, MakesText
<1>4. Len(Here.parts) = 0
  BY <1>1, TellsHere DEF Members, One, Two
<1>5. 1 \in Members(r) /\ 1 = Len(Here.parts) + 1
  BY <1>4 DEF Members, One, Two
<1>6. GoesOn(Here.stage, it, r)
  BY <1>1 DEF GoesOn, Stages, Lists, Bare
<1>7. SaysHolding(T, heap, T2, heap', Here, Fresh, r, "target")
  <2>1. LeadsHolding(Here.stage, "target", r)
    BY <1>1 DEF LeadsHolding
  <2> QED
    BY <2>1, SaysLeading
<1> HIDE DEF r
<1>8. Speaks(T2, heap', frames', consumed', it')
  BY <1>1, <1>3, <1>5, <1>6, <1>7, SymbolList, HoldSpeaks DEF Grown
<1> QED
  BY <1>3, <1>8 DEF Grown

LEMMA SpellsVariable ==
  ASSUME NEW T, Tells(T), IsText(T, heap), DeclareVariable
  PROVE  \E T2 : IsText(T2, heap') /\ Typed(T2, heap') /\ Speaks(T2, heap', frames', consumed', it')
<1> DEFINE r == "array"
           kind == "Variable"
           e == <<>>
<1>1. /\ Here.stage = "variable" /\ it = "id" /\ heap' = Append(heap, Node(kind, e))
      /\ Hold(Fresh, r) /\ consumed' = Append(consumed, "id")
  BY DEF DeclareVariable, At, Here, Advance, AdvanceTo
<1>2. kind \in Kinds /\ e \in Seq(1..Len(heap))
  BY DEF Kinds
<1> HIDE DEF kind, e
<1>3. PICK T2 : Grown(T, T2, kind, e)
  BY <1>1, <1>2, MakesText
<1>4. Len(Here.parts) = 0
  BY <1>1, TellsHere DEF Members, One, Two
<1>5. 1 \in Members(r) /\ 1 = Len(Here.parts) + 1
  BY <1>4 DEF Members, One, Two
<1>6. GoesOn(Here.stage, it, r)
  BY <1>1 DEF GoesOn, Stages, Lists, Bare
<1>7. SaysHolding(T, heap, T2, heap', Here, Fresh, r, "id")
  <2>1. LeadsHolding(Here.stage, "id", r)
    BY <1>1 DEF LeadsHolding
  <2> QED
    BY <2>1, SaysLeading
<1> HIDE DEF r
<1>8. Speaks(T2, heap', frames', consumed', it')
  BY <1>1, <1>3, <1>5, <1>6, <1>7, SymbolList, HoldSpeaks DEF Grown
<1> QED
  BY <1>3, <1>8 DEF Grown

\* An expression ends the text of its statement, or a part of it.
LEMMA SaysExpression ==
  ASSUME NEW T, NEW T2, Tells(T), Continues(T, heap, T2, heap'), NEW r,
         \/ Here.stage = "if_condition" /\ r = "if_close"
         \/ Here.stage = "for_condition" /\ r = "condition_end"
         \/ Here.stage = "returned_value" /\ r = "Return"
         \/ Here.stage = "assigned_value" /\ r = "Assignment"
         \/ Here.stage = "declared_value" /\ r = "VariableDeclaration"
  PROVE  SaysHolding(T, heap, T2, heap', Here, Fresh, r, "expr")
<1>1. /\ Here.parts \in Seq(1..Len(heap)) /\ Here.list = <<>> /\ Len(heap) \in Nat
      /\ Len(Here.parts) \in Members(Here.stage) /\ Fresh = Len(heap) + 1
  BY TellsHere, SoundTop, Now DEF FrameOK, Listing, Collecting
<1>2. ASSUME NEW g, g.stage = r, g.parts = Append(Here.parts, Fresh), g.list = Here.list, NEW end \in Ends
      PROVE  Said(T, heap, Here, "any") ** Tok("expr") \subseteq Said(T2, heap', g, end)
  <2>0. /\ g.parts \in Seq(Nat) /\ g.list = <<>> /\ Len(g.parts) = Len(Here.parts) + 1
        /\ \A i \in 1..Len(Here.parts) : g.parts[i] = Here.parts[i]
    <3>1. Here.parts \in Seq(Nat) /\ Fresh \in Nat
      BY <1>1
    <3> QED
      BY <1>1, <1>2, <3>1, Pushed
  <2>1. CASE Here.stage = "if_condition"
    <3>1. LeadsHolding(Here.stage, "expr", r)
      BY <2>1 DEF LeadsHolding
    <3>2. SaysHolding(T, heap, T2, heap', Here, Fresh, r, "expr")
      BY <3>1, SaysLeading
    <3> QED
      BY <1>2, <3>2 DEF SaysHolding
  <2>2. CASE Here.stage = "for_condition"
    <3>1. Len(Here.parts) = 1
      BY <1>1, <2>2 DEF Members, One, Two
    <3>2. Here.parts[1] \in 1..Len(heap) /\ g.parts[1] = Here.parts[1]
      BY <1>1, <2>0, <3>1, ElementOfSeq
    <3>3. Said(T, heap, Here, "any") = ForStart(T, heap, Here.parts[1])
      BY <2>2, SaidFor
    <3>4. Said(T2, heap', g, end) = ForStart(T2, heap', g.parts[1]) ** Tok("expr")
      BY <1>2, <2>2, SaidFor
    <3>5. ForStart(T2, heap', Here.parts[1]) = ForStart(T, heap, Here.parts[1])
      BY <1>1, <3>2, HeaderSame
    <3> QED
      BY <3>2, <3>3, <3>4, <3>5
  <2>3. CASE Here.stage \in {"returned_value", "assigned_value", "declared_value"}
    <3>1. Said(T2, heap', g, end) = TextOf(T2, heap', r, g.parts, end)
      <4>1. g.stage \in Simple \cup {"If", "For"}
        BY <1>2, <2>3 DEF Simple
      <4>2. Said(T2, heap', g, end) = TextOf(T2, heap', g.stage, g.parts, end)
        BY <2>0, <4>1, SaidMade
      <4> QED
        BY <1>2, <4>2
    <3>2. Said(T, heap, Here, "any") = PlainText(Here.stage)
      <4>1. Here.stage \in Plain
        BY <2>3 DEF Plain
      <4> QED
        BY <4>1, SaidNodes
    <3>3. CASE Here.stage = "returned_value"
      <4>1. Len(g.parts) = 1
        BY <1>1, <2>0, <3>3 DEF Members, One, Two
      <4>2. g.parts # <<>>
        BY <4>1
      <4>3. TextOf(T2, heap', r, g.parts, end) = ReturnText(g.parts)
        BY <3>3 DEF TextOf
      <4>4. ReturnText(g.parts) = Tok("return") ** Tok("expr")
        BY <4>2 DEF ReturnText
      <4>5. PlainText(Here.stage) = Tok("return")
        BY <3>3, PlainIs
      <4> QED
        BY <3>1, <3>2, <4>3, <4>4, <4>5
    <3>4. CASE Here.stage = "assigned_value"
      <4>1. TextOf(T2, heap', r, g.parts, end) = Tok("target") ** Tok("=") ** Tok("expr")
        BY <3>4 DEF TextOf
      <4>2. PlainText(Here.stage) = Tok("target") ** Tok("=")
        BY <3>4, PlainIs
      <4> QED
        BY <3>1, <3>2, <4>1, <4>2
    <3>5. CASE Here.stage = "declared_value"
      <4>0. Len(Here.parts) = 1
        <5>1. Len(Here.parts) \in Members(Here.stage)
          BY <1>1
        <5> QED
          BY <3>5, <5>1 DEF Members, One, Two
      <4>1. Len(g.parts) = 2
        BY <2>0, <4>0
      <4>2. TextOf(T2, heap', r, g.parts, end) = DeclarationText(g.parts)
        BY <3>5 DEF TextOf
      <4>3. DeclarationText(g.parts) = Declared ** Array ** Tok("=") ** Tok("expr")
        BY <4>1 DEF DeclarationText, Declared
      <4>4. PlainText(Here.stage) = Declared ** Array ** Tok("=")
        BY <3>5, PlainIs
      <4> QED
        BY <3>1, <3>2, <4>2, <4>3, <4>4
    <3> QED
      BY <2>3, <3>3, <3>4, <3>5
  <2> QED
    BY <2>1, <2>2, <2>3
<1> QED
  BY <1>2 DEF SaysHolding

LEMMA SpellsExpression ==
  ASSUME NEW T, Tells(T), IsText(T, heap), ReadExpression
  PROVE  \E T2 : IsText(T2, heap') /\ Typed(T2, heap') /\ Speaks(T2, heap', frames', consumed', it')
<1> DEFINE r == AfterExpression[Here.stage]
           kind == "Expression"
           e == <<>>
<1>1. /\ Here.stage \in DOMAIN AfterExpression /\ it \in Starts
      /\ heap' = Append(heap, Node(kind, e))
      /\ Hold(Fresh, r) /\ consumed' = Append(consumed, "expr")
  BY DEF ReadExpression, At, Here, AdvanceTo
<1>2. kind \in Kinds /\ e \in Seq(1..Len(heap))
  BY DEF Kinds
<1> HIDE DEF kind, e
<1>3. PICK T2 : Grown(T, T2, kind, e)
  BY <1>1, <1>2, MakesText
<1>4. \/ Here.stage = "if_condition" /\ r = "if_close"
      \/ Here.stage = "for_condition" /\ r = "condition_end"
      \/ Here.stage = "returned_value" /\ r = "Return"
      \/ Here.stage = "assigned_value" /\ r = "Assignment"
      \/ Here.stage = "declared_value" /\ r = "VariableDeclaration"
  BY <1>1 DEF AfterExpression
<1> HIDE DEF r
<1>5. \E m \in Members(r) : m = Len(Here.parts) + 1
  <2>1. Len(Here.parts) \in Members(Here.stage)
    BY TellsHere
  <2> QED
    BY <1>4, <2>1 DEF Members, One, Two
<1>6. GoesOn(Here.stage, it, r)
  BY <1>4 DEF GoesOn, Stages, Lists, Bare
<1>7. SaysHolding(T, heap, T2, heap', Here, Fresh, r, "expr")
  BY <1>3, <1>4, SaysExpression DEF Grown
<1>8. it # ","
  BY <1>1 DEF Starts
<1>9. Speaks(T2, heap', frames', consumed', it')
  BY <1>1, <1>3, <1>5, <1>6, <1>7, <1>8, SymbolList, HoldSpeaks DEF Grown
<1> QED
  BY <1>3, <1>9 DEF Grown

---------------------------------------------------------------------------
(* The lists of a for become Blocks.                                       *)

LEMMA OneMorePart ==
  ASSUME NEW p \in Seq(Nat), NEW n \in Nat
  PROVE  /\ Len(Append(p, n)) = Len(p) + 1 /\ Append(p, n)[Len(p) + 1] = n
         /\ \A i \in 1..Len(p) : Append(p, n)[i] = p[i]
BY Pushed

LEMMA MadeNode ==
  ASSUME Sound(frames, heap), NEW kind \in Kinds, NEW k \in Seq(1..Len(heap)),
         heap' = Append(heap, Node(kind, k))
  PROVE  heap'[Fresh].kids = k /\ heap'[Fresh].kind = kind
<1> DEFINE n == Node(kind, k)
<1>1. heap \in Seq(NodeType) /\ Len(heap) \in Nat
  BY SoundTop
<1>2. n.kids = k /\ n.kind = kind /\ n \in NodeType
  <2>1. k \in Seq(Nat)
    BY <1>1
  <2> QED
    BY <2>1 DEF Node, NodeType
<1>3. heap' = Append(heap, n)
  OBVIOUS
<1> HIDE DEF n
<1>4. heap'[Len(heap) + 1] = n
  BY <1>1, <1>2, <1>3, Pushed
<1> QED
  BY <1>2, <1>4, FreshNumber

LEMMA WrapsText ==
  ASSUME NEW T, Tells(T), IsText(T, heap), NEW r \in Stages, Wrap(r)
  PROVE  \E T2 : Grown(T, T2, "Block", Here.list) /\ heap'[Fresh].kids = Here.list
<1> DEFINE kind == "Block"
           k == Here.list
<1>1. /\ Sound(frames, heap) /\ kind \in Kinds /\ k \in Seq(1..Len(heap))
      /\ heap' = Append(heap, Node(kind, k))
  BY TellsHere DEF Wrap, Kinds, Compound
<1> HIDE DEF kind, k
<1>2. \E T2 : Grown(T, T2, kind, k)
  BY <1>1, MakesText
<1>3. heap'[Fresh].kids = k
  BY <1>1, MadeNode
<1> QED
  BY <1>2, <1>3 DEF kind, k

LEMMA WrapSpeaks ==
  ASSUME NEW T, Tells(T), NEW T2, Setting(T, heap, T2, heap', frames, it),
         NEW r, GoesOn(Here.stage, it, r), Here.stage \notin {"statement", "target"}, Wrap(r),
         NEW m \in Members(r), m = Len(Here.parts) + 1
  PROVE  LET f == frames[Len(frames)]
             g == frames'[Len(frames)]
         IN  /\ Here = f /\ f.stage # "Block" /\ Differ(frames, frames', Len(frames))
             /\ g.stage = r /\ g.parts = Append(f.parts, Fresh) /\ g.list = <<>>
             /\ WorksWell(g) /\ \A look : Turns(f, it, g, look)
<1> DEFINE f == frames[Len(frames)]
           g == frames'[Len(frames)]
<1>1. Sound(frames, heap) /\ Here = f /\ Here \in FrameType
  BY TellsHere
<1>2. Fresh \in Nat
  BY <1>1, FreshNumber
<1>3. r \in Stages /\ r \notin Lists /\ r # "semicolon" /\ f.stage # "Block"
  BY <1>1 DEF GoesOn
<1>4. /\ Differ(frames, frames', Len(frames))
      /\ g.stage = r /\ g.parts = Append(f.parts, Fresh) /\ g.list = <<>> /\ g.gobble = f.gobble
  BY <1>1, <1>3, WrapIs
<1>5. Len(g.parts) = Len(f.parts) + 1
  <2> DEFINE p == f.parts
  <2>1. f \in FrameType
    BY <1>1
  <2>2. p \in Seq(Nat) /\ g.parts = Append(p, Fresh)
    BY <2>1, <1>4 DEF FrameType
  <2> HIDE DEF p
  <2>3. Len(Append(p, Fresh)) = Len(p) + 1
    BY <1>2, <2>2, Pushed
  <2> QED
    BY <2>2, <2>3 DEF p
<1>6. WorksWell(g)
  BY <1>1, <1>3, <1>4, <1>5 DEF WorksWell
<1>7. \A look : Turns(f, it, g, look)
  BY <1>1, <1>4 DEF Turns, GoesOn
<1> QED
  BY <1>1, <1>3, <1>4, <1>6, <1>7

LEMMA SpellsNone ==
  ASSUME NEW T, Tells(T), IsText(T, heap), NoInitializer
  PROVE  \E T2 : IsText(T2, heap') /\ Typed(T2, heap') /\ Speaks(T2, heap', frames', consumed', it')
<1> DEFINE r == "for_condition"
           f == frames[Len(frames)]
           g == frames'[Len(frames)]
<1>1. /\ Here.stage = "initializer" /\ it = ";" /\ Wrap(r)
      /\ consumed' = Append(consumed, ";")
  BY DEF NoInitializer, At, Here, Advance, AdvanceTo
<1>2. Len(Here.parts) = 0 /\ Here.list = <<>> /\ Here.parts \in Seq(1..Len(heap))
  BY <1>1, TellsHere DEF Members, One, Two, FrameOK, Listing, Collecting
<1>3. r \in Stages /\ 1 \in Members(r) /\ 1 = Len(Here.parts) + 1
  BY <1>2 DEF Stages, Members, One, Two
<1>4. PICK T2 : Grown(T, T2, "Block", Here.list) /\ heap'[Fresh].kids = Here.list
  BY <1>1, <1>3, WrapsText
<1>5. GoesOn(Here.stage, it, r) /\ Here.stage \notin {"statement", "target"}
  BY <1>1, <1>3 DEF GoesOn, Lists, Bare
<1>6. /\ Here = f /\ f.stage # "Block" /\ Differ(frames, frames', Len(frames))
      /\ g.stage = r /\ g.parts = Append(f.parts, Fresh) /\ g.list = <<>>
      /\ WorksWell(g) /\ Turns(f, it, g, it')
  <2> HIDE DEF r
  <2> QED
    BY <1>1, <1>3, <1>4, <1>5, WrapSpeaks DEF Grown
<1>7. g.parts[1] = Fresh
  <2>1. Here.parts = <<>>
    BY <1>2, EmptySeq
  <2> QED
    BY <1>6, <2>1
<1>8. \A end \in Ends : Said(T, heap, f, "any") ** Tok(";") \subseteq Said(T2, heap', g, end)
  <2>1. Said(T, heap, f, "any") = ForOpen
    <3>1. f.stage \in Plain /\ f.stage = "initializer"
      BY <1>1, <1>6 DEF Plain
    <3> QED
      BY <3>1, SaidNodes, PlainIs
  <2>2. \A end : Said(T2, heap', g, end) = ForStart(T2, heap', Fresh)
    BY <1>6, <1>7, SaidFor
  <2>3. ForStart(T2, heap', Fresh) = ForOpen ** Tok(";")
    BY <1>2, <1>4 DEF ForStart, ForOpen
  <2> QED
    BY <2>1, <2>2, <2>3
<1>9. "any" \in Closings(it) /\ ";" \in Symbols
  BY ClosingEnds, SymbolList
<1>10. Speaks(T, heap, frames, consumed, it) /\ Setting(T, heap, T2, heap', frames, it)
  BY <1>4, TellsHere DEF Grown
<1> HIDE DEF f, g, r
<1>11. Speaks(T2, heap', frames', Append(consumed, ";"), it')
  BY <1>6, <1>8, <1>9, <1>10, SpeaksRead DEF f, g
<1> QED
  BY <1>1, <1>4, <1>11 DEF Grown

LEMMA SpellsInitializers ==
  ASSUME NEW T, Tells(T), IsText(T, heap), EndInitializers
  PROVE  \E T2 : IsText(T2, heap') /\ Typed(T2, heap') /\ Speaks(T2, heap', frames', consumed', it')
<1> DEFINE r == "for_condition"
           f == frames[Len(frames)]
           g == frames'[Len(frames)]
<1>1. Here.stage = "initializers" /\ Wrap(r) /\ Stay
  BY DEF EndInitializers, At, Here
<1>2. /\ Len(Here.parts) = 0 /\ Len(Here.list) = 1 /\ Here.parts \in Seq(1..Len(heap))
      /\ Here.list \in Seq(1..Len(heap))
  BY <1>1, TellsHere DEF Members, One, Two, WorksWell, Lists
<1>3. r \in Stages /\ 1 \in Members(r) /\ 1 = Len(Here.parts) + 1
  BY <1>2 DEF Stages, Members, One, Two
<1>4. PICK T2 : Grown(T, T2, "Block", Here.list) /\ heap'[Fresh].kids = Here.list
  BY <1>1, <1>3, WrapsText
<1>5. GoesOn(Here.stage, it, r) /\ Here.stage \notin {"statement", "target"}
  BY <1>1, <1>3 DEF GoesOn, Lists, Bare
<1>6. /\ Here = f /\ f.stage # "Block" /\ Differ(frames, frames', Len(frames))
      /\ g.stage = r /\ g.parts = Append(f.parts, Fresh) /\ g.list = <<>>
      /\ WorksWell(g) /\ Turns(f, it, g, it)
  <2> HIDE DEF r
  <2> QED
    BY <1>1, <1>3, <1>4, <1>5, WrapSpeaks DEF Grown
<1>7. g.parts[1] = Fresh
  <2>1. Here.parts = <<>>
    BY <1>2, EmptySeq
  <2> QED
    BY <1>6, <2>1
<1>8. \A end \in Closings(it) : Said(T, heap, f, end) \subseteq Said(T2, heap', g, end)
  <2>1. \A end : Said(T, heap, f, end) = Followed(ForOpen, Sentences(T, heap, Here.list))
    <3>1. f.stage = "initializers" /\ f.list = Here.list
      BY <1>1, <1>6
    <3> HIDE DEF f
    <3>2. \A end : Said(T, heap, f, end) = Followed(ForOpen, Sentences(T, heap, f.list))
      BY <3>1, SaidLists
    <3> QED
      BY <3>1, <3>2
  <2>2. \A end : Said(T2, heap', g, end) = ForStart(T2, heap', Fresh)
    BY <1>6, <1>7, SaidFor
  <2>3. ForStart(T2, heap', Fresh) = Followed(ForOpen, Sentences(T2, heap', Here.list))
    <3>1. Here.list # <<>>
      <4>1. Len(<<>>) = 0
        OBVIOUS
      <4>2. Len(Here.list) = 1
        BY <1>2
      <4> QED
        BY <4>1, <4>2
    <3> QED
      BY <1>4, <3>1 DEF ForStart, ForOpen
  <2>4. Followed(ForOpen, Sentences(T2, heap', Here.list)) = Followed(ForOpen, Sentences(T, heap, Here.list))
    BY <1>2, <1>4, FixedType, ListSame DEF Grown
  <2> QED
    BY <2>1, <2>2, <2>3, <2>4
<1>10. Speaks(T, heap, frames, consumed, it) /\ Setting(T, heap, T2, heap', frames, it)
  BY <1>4, TellsHere DEF Grown
<1> HIDE DEF f, g, r
<1>11. Speaks(T2, heap', frames', consumed, it)
  BY <1>6, <1>8, <1>10, SpeaksStay DEF f, g
<1>12. consumed' = consumed /\ it' = it
  BY <1>1 DEF Stay
<1> QED
  BY <1>4, <1>11, <1>12 DEF Grown

LEMMA SpellsWrapped ==
  ASSUME NEW T, Tells(T), IsText(T, heap), WrapUpdates
  PROVE  \E T2 : IsText(T2, heap') /\ Typed(T2, heap') /\ Speaks(T2, heap', frames', consumed', it')
<1> DEFINE r == "for_body"
           f == frames[Len(frames)]
           g == frames'[Len(frames)]
<1>1. Here.stage = "update_block" /\ Wrap(r) /\ Stay
  BY DEF WrapUpdates, At, Here
<1>2. /\ Len(Here.parts) = 2 /\ Here.parts \in Seq(1..Len(heap))
      /\ Here.list \in Seq(1..Len(heap)) /\ Here \in FrameType
  BY <1>1, TellsHere DEF Members, One, Two
<1>3. r \in Stages /\ 3 \in Members(r) /\ 3 = Len(Here.parts) + 1
  BY <1>2 DEF Stages, Members, One, Two
<1>4. PICK T2 : Grown(T, T2, "Block", Here.list) /\ heap'[Fresh].kids = Here.list
  BY <1>1, <1>3, WrapsText
<1>5. GoesOn(Here.stage, it, r) /\ Here.stage \notin {"statement", "target"}
  BY <1>1, <1>3 DEF GoesOn, Lists, Bare
<1>6. /\ Here = f /\ f.stage # "Block" /\ Differ(frames, frames', Len(frames))
      /\ g.stage = r /\ g.parts = Append(f.parts, Fresh) /\ g.list = <<>>
      /\ WorksWell(g) /\ Turns(f, it, g, it)
  <2> HIDE DEF r
  <2> QED
    BY <1>1, <1>3, <1>4, <1>5, WrapSpeaks DEF Grown
<1>7. g.parts[1] = Here.parts[1] /\ g.parts[3] = Fresh /\ Here.parts[1] \in 1..Len(heap)
  <2> DEFINE p == Here.parts
  <2>1. p \in Seq(Nat) /\ Fresh \in Nat /\ Len(p) = 2
    BY <1>2, TellsHere, FreshNumber DEF FrameType
  <2>2. g.parts = Append(p, Fresh) /\ p[1] \in 1..Len(heap)
    <3>1. p \in Seq(1..Len(heap)) /\ 1 \in 1..Len(p)
      BY <1>2, <2>1
    <3>2. p[1] \in 1..Len(heap)
      BY <3>1, ElementOfSeq
    <3> QED
      BY <1>6, <3>2
  <2> HIDE DEF p
  <2>3. Append(p, Fresh)[Len(p) + 1] = Fresh /\ \A i \in 1..Len(p) : Append(p, Fresh)[i] = p[i]
    BY <2>1, OneMorePart
  <2>4. Append(p, Fresh)[3] = Fresh /\ Append(p, Fresh)[1] = p[1]
    <3>1. 3 = Len(p) + 1 /\ 1 \in 1..Len(p)
      BY <2>1
    <3>2. Append(p, Fresh)[3] = Append(p, Fresh)[Len(p) + 1]
      BY Zenon, <3>1
    <3> QED
      BY Zenon, <2>3, <3>1, <3>2
  <2> QED
    BY <2>2, <2>4 DEF p
<1>8. \A end \in Closings(it) : Said(T, heap, f, end) \subseteq Said(T2, heap', g, end)
  <2>1. \A end : Said(T, heap, f, end) = ForHeader(T, heap, Here.parts[1], Here.list)
    <3>1. f.stage = "update_block" /\ f.list = Here.list /\ f.parts = Here.parts
      BY <1>1, <1>6
    <3> HIDE DEF f
    <3>2. \A end : Said(T, heap, f, end) = ForHeader(T, heap, f.parts[1], f.list)
      BY <3>1, SaidFor
    <3> QED
      BY <3>1, <3>2
  <2>2. \A end : Said(T2, heap', g, end) = ForHeader(T2, heap', Here.parts[1], Here.list)
    <3>1. /\ g.stage = "for_body" /\ g.parts[1] = Here.parts[1]
          /\ heap'[g.parts[3]].kids = Here.list
      BY <1>4, <1>6, <1>7
    <3> HIDE DEF g
    <3>2. \A end : Said(T2, heap', g, end) = ForHeader(T2, heap', g.parts[1], heap'[g.parts[3]].kids)
      BY <3>1, SaidFor
    <3> QED
      BY <3>1, <3>2
  <2>4. ForHeader(T2, heap', Here.parts[1], Here.list) = ForHeader(T, heap, Here.parts[1], Here.list)
    BY <1>2, <1>4, <1>7, HeaderSame DEF Grown
  <2> QED
    BY <2>1, <2>2, <2>4
<1>10. Speaks(T, heap, frames, consumed, it) /\ Setting(T, heap, T2, heap', frames, it)
  BY <1>4, TellsHere DEF Grown
<1> HIDE DEF f, g, r
<1>11. Speaks(T2, heap', frames', consumed, it)
  BY <1>6, <1>8, <1>10, SpeaksStay DEF f, g
<1>12. consumed' = consumed /\ it' = it
  BY <1>1 DEF Stay
<1> QED
  BY <1>4, <1>11, <1>12 DEF Grown

---------------------------------------------------------------------------
(* Calls.                                                                  *)

\* What a production that waits has read.
LEMMA WaitingSaid ==
  ASSUME NEW T, NEW hp, NEW f, f.stage \notin Branching, f.stage # "Block"
  PROVE  Waiting(T, hp, f) = Said(T, hp, f, "any")
BY DEF Waiting, Branching

LEMMA WaitingBranch ==
  ASSUME NEW T, NEW hp, NEW f
  PROVE  /\ f.stage = "Block" => Waiting(T, hp, f) = {<<>>}
         /\ f.stage = "otherwise" => Waiting(T, hp, f) = Condition
         /\ f.stage = "If" =>
              Waiting(T, hp, f) = Condition ** BranchText(T, hp, f.parts[2], "closed") ** Tok("else")
BY DEF Waiting

LEMMA WaitingFor ==
  ASSUME NEW T, NEW hp, NEW f, f.stage = "For"
  PROVE  Waiting(T, hp, f) = ForHeader(T, hp, f.parts[1], hp[f.parts[3]].kids)
BY DEF Waiting

LEMMA WaitingFunction ==
  ASSUME NEW T, NEW hp, NEW f, f.stage = "Function"
  PROVE  Waiting(T, hp, f) = Signature(1..Len(f.list)) ** Tok(")")
BY DEF Waiting

\* f goes on at r when a production has returned that starts at c.
CallsOn(f, look, r, c, gobble) ==
  /\ f.stage \notin {"statement", "target", "Block"}
  /\ r \in Stages /\ r # "Block"
  /\ r \in Bare <=> f.stage \in Bare
  /\ f.stage \in {"block", "block_body"} => r \in {"block", "block_body"}
  /\ Len(f.parts) \in WaitingMembers(r)
  /\ c \in {"statement", "block", "parameter_type"}
  /\ c = "parameter_type" <=> r = "parameters"
  /\ gobble \in BOOLEAN
  /\ r \in Gobbling => gobble
  /\ r = "updates" => ~gobble
  /\ r \in Branching => c = "block"
  /\ r \in Lists => \/ f.list = <<>>
                    \/ Len(f.list) = 1 /\ c = "statement" /\ look = ","
SaysWaiting(T, hp, f, r) ==
  \A g : g.stage = r /\ g.parts = f.parts /\ g.list = f.list =>
           Said(T, hp, f, "any") \subseteq Waiting(T, hp, g)

\* The production that is called has read nothing.
LEMMA Callee ==
  ASSUME NEW c \in {"statement", "block", "parameter_type"}, NEW gobble \in BOOLEAN
  PROVE  LET g == Frame(c, gobble)
         IN  /\ g \in FrameType /\ WorksWell(g)
             /\ g.stage = c /\ g.gobble = gobble /\ g.list = <<>>
             /\ \A T, hp, end : <<>> \in Said(T, hp, g, end)
<1> DEFINE g == Frame(c, gobble)
<1>1. g.stage = c /\ g.gobble = gobble /\ g.list = <<>> /\ g.parts = <<>>
  BY DEF Frame
<1>2. g \in FrameType
  BY DEF Frame, FrameType, Stages
<1> HIDE DEF g
<1>3. WorksWell(g)
  <2>1. Len(g.parts) = 0
    BY <1>1
  <2>2. 0 \in Members(g.stage)
    BY <1>1 DEF Members, One, Two
  <2> QED
    BY <1>1, <2>1, <2>2 DEF WorksWell, Lists
<1>4. ASSUME NEW T, NEW hp, NEW end PROVE <<>> \in Said(T, hp, g, end)
  <2>1. g.stage \in Plain
    BY <1>1 DEF Plain
  <2>2. Said(T, hp, g, end) = PlainText(c)
    BY <1>1, <2>1, SaidNodes
  <2>3. {<<>>} \subseteq PlainText(c)
    BY PlainIs
  <2> QED
    BY <2>2, <2>3
<1> QED
  BY <1>1, <1>2, <1>3, <1>4 DEF g

LEMMA CallSpeaks ==
  ASSUME NEW T, Tells(T), NEW r, NEW c, NEW gobble, CallsOn(Here, it, r, c, gobble),
         SaysWaiting(T, heap, Here, r), Call(r, Frame(c, gobble)), Stay, UNCHANGED heap
  PROVE  Speaks(T, heap', frames', consumed', it')
<1> DEFINE f == frames[Len(frames)]
           L == Len(frames)
           g == frames'[L]
           h == frames'[L + 1]
<1>1. /\ Sound(frames, heap) /\ Speaks(T, heap, frames, consumed, it)
      /\ Setting(T, heap, T, heap, frames, it) /\ Here = f /\ L \in Nat /\ L > 0
  BY TellsHere
<1>2. /\ r \in Stages /\ c \in {"statement", "block", "parameter_type"} /\ gobble \in BOOLEAN
  BY DEF CallsOn
<1>3. /\ Frame(c, gobble) \in FrameType /\ WorksWell(Frame(c, gobble))
      /\ Frame(c, gobble).stage = c /\ Frame(c, gobble).gobble = gobble
      /\ \A hp, end : <<>> \in Said(T, hp, Frame(c, gobble), end)
  BY <1>2, Callee
<1>4. /\ Len(frames') = L + 1 /\ \A j \in 1..(L - 1) : frames'[j] = frames[j]
      /\ g.stage = r /\ g.parts = f.parts /\ g.list = f.list /\ g.gobble = f.gobble
      /\ h = Frame(c, gobble)
  BY <1>1, <1>2, <1>3, CallIs
<1>5. WorksWell(h) /\ h.stage = c /\ h.gobble = gobble /\ \A end \in Ends : <<>> \in Said(T, heap, h, end)
  BY <1>3, <1>4
<1> HIDE DEF f, g, h
<1>6. Turns(f, it, g, it)
  BY <1>1, <1>4 DEF Turns, CallsOn
<1>7. WaitsWell(frames', it, L)
  <2>1. Len(g.parts) \in WaitingMembers(g.stage) /\ g.stage # "Block"
    BY <1>1, <1>4 DEF CallsOn
  <2>2. Fits(g, h)
    <3>1. h.stage \in Bare <=> g.stage = "parameters"
      BY <1>1, <1>4, <1>5 DEF CallsOn, Bare
    <3>2. /\ g.stage \in Gobbling => h.gobble
          /\ g.stage = "updates" => ~h.gobble
          /\ g.stage \in Branching => h.stage = "block"
      BY <1>1, <1>4, <1>5 DEF CallsOn
    <3> QED
      BY <3>1, <3>2 DEF Fits
  <2>3. g.stage \in Lists => \/ g.list = <<>>
                             \/ Len(g.list) = 1 /\ h.stage = "statement" /\ it = ","
    BY <1>1, <1>4, <1>5 DEF CallsOn
  <2>4. L + 1 = Len(frames')
    BY <1>4
  <2> HIDE DEF L
  <2> QED
    BY <2>1, <2>2, <2>3, <2>4 DEF WaitsWell, g, h
<1>8. f.stage \notin {"statement", "target", "Block"}
  BY <1>1 DEF CallsOn
<1>9. Said(T, heap, f, "any") \subseteq Waiting(T, heap, g)
  BY <1>1, <1>4 DEF SaysWaiting
<1>10. Speaks(T, heap, frames', consumed, it)
  BY <1>1, <1>4, <1>5, <1>6, <1>7, <1>8, <1>9, SpeaksCall DEF f, g, h
<1> QED
  BY <1>10 DEF Stay

\* The loops of parse() and of parseBlockStatement call parseStatement,
LEMMA SpellsStatement ==
  ASSUME NEW T, Tells(T), NextStatement PROVE Speaks(T, heap', frames', consumed', it')
<1> DEFINE r == Here.stage
           c == "statement"
           b == TRUE
<1>1. r \in {"statements", "block_body"} /\ Call(r, Frame(c, b)) /\ Stay /\ UNCHANGED heap
  BY DEF NextStatement, At, Here
<1>2. Len(Here.parts) \in WaitingMembers(r)
  <2>1. Len(Here.parts) \in Members(r)
    BY TellsHere
  <2> QED
    BY <1>1, <2>1 DEF WaitingMembers
<1>3. CallsOn(Here, it, r, c, b)
  BY <1>1, <1>2 DEF CallsOn, Stages, Bare, Gobbling, Branching, Lists
<1>4. SaysWaiting(T, heap, Here, r)
  <2> SUFFICES ASSUME NEW g, g.stage = r, g.parts = Here.parts, g.list = Here.list
               PROVE  Said(T, heap, Here, "any") \subseteq Waiting(T, heap, g)
    BY DEF SaysWaiting
  <2>1. Waiting(T, heap, g) = Said(T, heap, g, "any")
    BY <1>1, WaitingSaid DEF Branching
  <2>2. Said(T, heap, g, "any") = Said(T, heap, Here, "any")
    BY <1>1, SaidLists
  <2> QED
    BY <2>1, <2>2
<1> HIDE DEF r, c, b
<1> QED
  BY <1>1, <1>3, <1>4, CallSpeaks

\* parseFunctionStatement the production of a parameter,
LEMMA SpellsNextParameter ==
  ASSUME NEW T, Tells(T), NextParameter PROVE Speaks(T, heap', frames', consumed', it')
<1> DEFINE r == "parameters"
           c == "parameter_type"
           b == TRUE
<1>1. Here.stage = r /\ Call(r, Frame(c, b)) /\ Stay /\ UNCHANGED heap
  BY DEF NextParameter, At, Here
<1>2. Len(Here.parts) \in WaitingMembers(r)
  <2>1. Len(Here.parts) \in Members(r)
    BY <1>1, TellsHere
  <2> QED
    BY <1>1, <2>1 DEF WaitingMembers
<1>3. CallsOn(Here, it, r, c, b)
  BY <1>1, <1>2 DEF CallsOn, Stages, Bare, Gobbling, Branching, Lists
<1>4. SaysWaiting(T, heap, Here, r)
  <2> SUFFICES ASSUME NEW g, g.stage = r, g.parts = Here.parts, g.list = Here.list
               PROVE  Said(T, heap, Here, "any") \subseteq Waiting(T, heap, g)
    BY DEF SaysWaiting
  <2>1. Waiting(T, heap, g) = Said(T, heap, g, "any")
    BY WaitingSaid DEF Branching
  <2>2. Said(T, heap, g, "any") = Said(T, heap, Here, "any")
    BY <1>1, SaidParameters
  <2> QED
    BY <2>1, <2>2
<1> HIDE DEF r, c, b
<1> QED
  BY <1>1, <1>3, <1>4, CallSpeaks

\* for and function the block,
LEMMA SpellsBody ==
  ASSUME NEW T, Tells(T), Body PROVE Speaks(T, heap', frames', consumed', it')
<1> DEFINE r == IF Here.stage = "for_body" THEN "For" ELSE "Function"
           c == "block"
           b == TRUE
<1>1. /\ Here.stage \in {"for_body", "function_body"}
      /\ Call(r, Frame(c, b)) /\ Stay /\ UNCHANGED heap
  BY DEF Body, At, Here
<1>2. Len(Here.parts) \in WaitingMembers(r)
  <2>1. Len(Here.parts) \in Members(Here.stage)
    BY TellsHere
  <2> QED
    BY <1>1, <2>1 DEF WaitingMembers, Members, One, Two
<1>3. CallsOn(Here, it, r, c, b)
  BY <1>1, <1>2 DEF CallsOn, Stages, Bare, Gobbling, Branching, Lists
<1>4. SaysWaiting(T, heap, Here, r)
  <2> SUFFICES ASSUME NEW g, g.stage = r, g.parts = Here.parts, g.list = Here.list
               PROVE  Said(T, heap, Here, "any") \subseteq Waiting(T, heap, g)
    BY DEF SaysWaiting
  <2>1. CASE Here.stage = "for_body"
    <3>1. Waiting(T, heap, g) = ForHeader(T, heap, g.parts[1], heap[g.parts[3]].kids)
      BY <2>1, WaitingFor
    <3>2. Said(T, heap, Here, "any") = ForHeader(T, heap, Here.parts[1], heap[Here.parts[3]].kids)
      BY <2>1, SaidFor
    <3> QED
      BY <3>1, <3>2
  <2>2. CASE Here.stage = "function_body"
    <3>1. Waiting(T, heap, g) = Signature(1..Len(g.list)) ** Tok(")")
      BY <2>2, WaitingFunction
    <3>2. Said(T, heap, Here, "any") = Signature(1..Len(Here.list)) ** Tok(")")
      BY <2>2, SaidBody
    <3> QED
      BY <3>1, <3>2
  <2> QED
    BY <1>1, <2>1, <2>2
<1> HIDE DEF r, c, b
<1> QED
  BY <1>1, <1>3, <1>4, CallSpeaks

\* and the lists of a for another statement.
LEMMA SpellsFirst ==
  ASSUME NEW T, Tells(T), FirstListed PROVE Speaks(T, heap', frames', consumed', it')
<1> DEFINE r == IF Here.stage = "update" THEN "updates" ELSE "initializers"
           c == "statement"
           b == r = "initializers"
<1>1. /\ Here.stage \in {"update", "initializer"}
      /\ Call(r, Frame(c, b)) /\ Stay /\ UNCHANGED heap
  BY DEF FirstListed, ListedStatement, At, Here
<1>2. Len(Here.parts) \in WaitingMembers(r) /\ Here.list = <<>>
  <2>1. Len(Here.parts) \in Members(Here.stage)
    BY TellsHere
  <2>2. Here.list = <<>>
    BY <1>1, TellsHere DEF FrameOK, Listing, Collecting
  <2> QED
    BY <1>1, <2>1, <2>2 DEF WaitingMembers, Members, One, Two
<1>3. CallsOn(Here, it, r, c, b)
  <2>1. b \in BOOLEAN
    OBVIOUS
  <2> QED
    BY <1>1, <1>2, <2>1 DEF CallsOn, Stages, Bare, Gobbling, Branching, Lists
<1>4. SaysWaiting(T, heap, Here, r)
  <2> SUFFICES ASSUME NEW g, g.stage = r, g.parts = Here.parts, g.list = Here.list
               PROVE  Said(T, heap, Here, "any") \subseteq Waiting(T, heap, g)
    BY DEF SaysWaiting
  <2>1. Waiting(T, heap, g) = Said(T, heap, g, "any")
    BY WaitingSaid DEF Branching
  <2>2. CASE Here.stage = "update"
    <3> DEFINE H == ForHead(T, heap, Here.parts[1])
    <3>1. Said(T, heap, g, "any") = Followed(ForHead(T, heap, g.parts[1]), Clauses(T, g.list))
      BY <2>2, SaidFor
    <3>2. Said(T, heap, Here, "any") = H
      BY <2>2, SaidFor
    <3>3. Followed(H, Clauses(T, <<>>)) = H
      BY ListNone
    <3> QED
      BY <1>2, <2>1, <3>1, <3>2, <3>3
  <2>3. CASE Here.stage = "initializer"
    <3>1. Said(T, heap, g, "any") = Followed(ForOpen, Sentences(T, heap, g.list))
      BY <2>3, SaidLists
    <3>2. Said(T, heap, Here, "any") = ForOpen
      <4>1. Here.stage \in Plain
        BY <2>3 DEF Plain
      <4> QED
        BY <2>3, <4>1, SaidNodes, PlainIs
    <3>3. Followed(ForOpen, Sentences(T, heap, <<>>)) = ForOpen
      BY ListNone
    <3> QED
      BY <1>2, <2>1, <3>1, <3>2, <3>3
  <2> QED
    BY <1>1, <2>2, <2>3
<1> HIDE DEF r, c, b
<1> QED
  BY <1>1, <1>3, <1>4, CallSpeaks

LEMMA SpellsNext ==
  ASSUME NEW T, Tells(T), NextListed PROVE Speaks(T, heap', frames', consumed', it')
<1> DEFINE r == Here.stage
           c == "statement"
           b == r = "initializers"
<1>0. Here.stage \in {"initializers", "updates"}
  BY DEF NextListed, At, Here
<1>1. Len(Here.list) = 1
  BY <1>0, TellsHere DEF WorksWell, Lists
<1>2. it = "," /\ Call(r, Frame(c, b)) /\ Stay /\ UNCHANGED heap
  <2>1. it = "," /\ Call(r, Frame(c, b)) /\ UNCHANGED heap
    BY DEF NextListed, ListedStatement
  <2>2. ~(Len(Here.list) > 1)
    BY <1>1
  <2>3. Stay
    BY <2>2 DEF NextListed
  <2> QED
    BY <2>1, <2>3
<1>3. Len(Here.parts) \in WaitingMembers(r)
  <2>1. Len(Here.parts) \in Members(Here.stage)
    BY TellsHere
  <2> QED
    BY <1>0, <2>1 DEF WaitingMembers
<1>4. CallsOn(Here, it, r, c, b)
  <2>1. b \in BOOLEAN
    OBVIOUS
  <2> QED
    BY <1>0, <1>1, <1>2, <1>3, <2>1 DEF CallsOn, Stages, Bare, Gobbling, Branching, Lists
<1>5. SaysWaiting(T, heap, Here, r)
  <2> SUFFICES ASSUME NEW g, g.stage = r, g.parts = Here.parts, g.list = Here.list
               PROVE  Said(T, heap, Here, "any") \subseteq Waiting(T, heap, g)
    BY DEF SaysWaiting
  <2>1. Waiting(T, heap, g) = Said(T, heap, g, "any")
    BY <1>0, WaitingSaid DEF Branching
  <2>2. Said(T, heap, g, "any") = Said(T, heap, Here, "any")
    <3>1. CASE r = "initializers"
      BY <3>1, SaidLists
    <3>2. CASE r = "updates"
      BY <3>2, SaidFor
    <3> QED
      BY <1>0, <3>1, <3>2
  <2> QED
    BY <2>1, <2>2
<1> HIDE DEF r, c, b
<1> QED
  BY <1>2, <1>4, <1>5, CallSpeaks

\* A production that has read nothing adds nothing.
LEMMA HeardNothing ==
  ASSUME NEW T, NEW hp, NEW fs, NEW end, fs[Len(fs)].stage = "statement",
         Outer(T, hp, fs) \in Languages
  PROVE  Heard(T, hp, fs, end) = Outer(T, hp, fs)
<1> DEFINE h == fs[Len(fs)]
<1>1. h.stage = "statement" /\ h.stage \in Plain
  BY DEF Plain
<1>2. Heard(T, hp, fs, end) = Outer(T, hp, fs) ** Said(T, hp, h, end)
  BY <1>1, HeardPlain
<1> HIDE DEF h
<1>3. Said(T, hp, h, end) = {<<>>}
  BY <1>1, SaidNodes, PlainIs
<1> QED
  BY <1>2, <1>3, Silent

\* A branch without braces is entered as a Block and the statement in it.
LEMMA BareCall ==
  ASSUME NEW T, NEW hp, NEW fs, NEW look, Setting(T, hp, T, hp, fs, look),
         NEW w, Speaks(T, hp, fs, w, look),
         NEW gs, Len(gs) = Len(fs) + 2, \A j \in 1..(Len(fs) - 1) : gs[j] = fs[j],
         fs[Len(fs)].stage \notin {"statement", "target", "Block"},
         NEW p, p = gs[Len(fs)], Turns(fs[Len(fs)], look, p, look),
         p.stage \in {"otherwise", "If"}, Len(p.parts) \in WaitingMembers(p.stage),
         HoldsUpTo(p, Len(hp)),
         gs[Len(fs) + 1] = Frame("Block", TRUE), gs[Len(fs) + 2] = Frame("statement", TRUE),
         Said(T, hp, fs[Len(fs)], "any") \subseteq Waiting(T, hp, p)
  PROVE  Speaks(T, hp, gs, w, look)
<1> DEFINE L == Len(fs)
           b == Frame("Block", TRUE)
           s == Frame("statement", TRUE)
           f == fs[L]
           ms == [j \in 1..(L + 1) |-> gs[j]]
<1>1. L \in Nat /\ L > 0 /\ f \in FrameType /\ Len(f.parts) \in Members(f.stage)
  BY SettingTop
<1>2. Len(ms) = L + 1 /\ \A j \in 1..(L + 1) : ms[j] = gs[j]
  <2>1. ms \in [1..(L + 1) -> {gs[j] : j \in 1..(L + 1)}] /\ L + 1 \in Nat
    BY <1>1
  <2>2. Len(ms) = L + 1
    <3> HIDE DEF ms
    <3> QED
      BY <2>1, SeqOf
  <2> QED
    BY <2>2
<1>3. /\ b.stage = "Block" /\ b.parts = <<>> /\ b.list = <<>> /\ b.gobble = TRUE
      /\ s.stage = "statement" /\ s.parts = <<>> /\ s.list = <<>> /\ s.gobble = TRUE
  BY DEF Frame
<1>13. gs[L + 1] = b /\ gs[L + 2] = s /\ Len(gs) = L + 2
  OBVIOUS
<1> HIDE DEF ms, b, s
<1>14. gs[L + 1].stage = "Block" /\ gs[Len(gs)].stage = "statement"
  BY <1>3, <1>13
<1>4. ms[L] = p /\ ms[L + 1] = b /\ \A j \in 1..(L - 1) : ms[j] = fs[j]
  <2>1. L \in 1..(L + 1) /\ L + 1 \in 1..(L + 1) /\ 1..(L - 1) \subseteq 1..(L + 1)
    BY <1>1
  <2>2. ms[L] = gs[L] /\ ms[L + 1] = gs[L + 1] /\ \A j \in 1..(L - 1) : ms[j] = gs[j]
    BY <1>2, <2>1
  <2> QED
    BY <2>2 DEF b
<1>5. /\ 0 \in Members("Block") /\ 0 \in Members("statement") /\ 0 \in WaitingMembers("Block")
      /\ Len(<<>>) = 0
  BY DEF Members, WaitingMembers, One, Two
<1>6. WorksWell(b) /\ WorksWell(s)
  BY <1>3, <1>5 DEF WorksWell, Lists
<1>7. Fits(p, b) /\ Fits(b, s)
  BY <1>3 DEF Fits, Bare, Gobbling, Branching
<1>8. \A hs : Len(hs) \in Nat /\ hs[L] = p /\ hs[L + 1] = b => WaitsWell(hs, look, L)
  BY <1>7 DEF WaitsWell, Lists
<1>9. Formed(ms, look)
  <2>1. WaitsWell(ms, look, L)
    BY <1>1, <1>2, <1>4, <1>8
  <2>2. Turns(f, look, ms[L], look) /\ WorksWell(ms[L + 1]) /\ f.stage \notin {"statement", "target"}
    BY <1>4, <1>6
  <2> QED
    BY <1>1, <1>2, <1>4, <2>1, <2>2, FormedCall DEF Setting
<1>10. Formed(gs, look)
  <2>1. Len(gs) = L + 2 /\ gs[L] = p /\ gs[L + 1] = b /\ gs[L + 2] = s
    BY DEF b, s
  <2>2. ASSUME NEW i \in 1..(Len(gs) - 1) PROVE WaitsWell(gs, look, i)
    <3>1. CASE i < L
      <4>1. i \in Nat /\ i + 1 < Len(ms) /\ i > 0 /\ Len(ms) \in Nat
        BY <1>1, <1>2, <3>1
      <4>2. i \in 1..(Len(ms) - 1)
        BY <4>1
      <4>3. WaitsWell(ms, look, i)
        BY <1>9, <4>2 DEF Formed
      <4>4. i \in 1..(L + 1) /\ i + 1 \in 1..(L + 1) /\ (i > 1 => i - 1 \in 1..(L + 1))
        BY <1>1, <3>1
      <4>5. gs[i] = ms[i] /\ gs[i + 1] = ms[i + 1] /\ (i > 1 => gs[i - 1] = ms[i - 1])
        BY <1>2, <4>4
      <4> QED
        BY <4>1, <4>3, <4>5, WaitsBelow
    <3>2. CASE i = L
      BY <1>1, <1>8, <2>1, <3>2
    <3>3. CASE i = L + 1
      <4>1. gs[i] = b /\ gs[i + 1] = s /\ gs[i - 1] = p /\ i > 1
        BY <1>1, <2>1, <3>3
      <4> QED
        BY <1>3, <1>5, <1>7, <4>1 DEF WaitsWell, Lists
    <3> QED
      BY <1>1, <2>1, <3>1, <3>2, <3>3
  <2>3. WorksWell(gs[Len(gs)])
    BY <1>6, <2>1
  <2> QED
    BY <2>2, <2>3 DEF Formed
<1>11. Outer(T, hp, gs) = Outer(T, hp, fs) ** Waiting(T, hp, p) /\ Outer(T, hp, fs) \in Languages
       /\ Waiting(T, hp, p) \in Languages
  <2>1. Outer(T, hp, ms) = Outer(T, hp, fs) ** Waiting(T, hp, p) /\ Outer(T, hp, fs) \in Languages
    BY <1>2, <1>4, OuterCall
  <2>2. Waiting(T, hp, p) \in Languages
    <3>1. p.stage \in Stages
      BY DEF Stages
    <3>2. Continues(T, hp, T, hp)
      BY DEF Setting
    <3> QED
      BY <3>1, <3>2, WaitingSame
  <2>3. Outer(T, hp, ms) \in Languages
    BY <2>1, <2>2, BehindType
  <2>4. Outer(T, hp, ms) = WaitingOf(T, hp, ms, L) /\ Outer(T, hp, gs) = WaitingOf(T, hp, gs, L + 1)
    <3>1. Len(ms) - 1 = L /\ Len(gs) - 1 = L + 1
      BY <1>1, <1>2
    <3> QED
      BY <3>1 DEF Outer
  <2>5. WaitingOf(T, hp, gs, L + 1) = WaitingOf(T, hp, gs, L) ** Waiting(T, hp, gs[L + 1])
    BY <1>1, WaitingNext, ZenonT(40)
  <2>6. WaitingOf(T, hp, gs, L) = WaitingOf(T, hp, ms, L)
    <3>1. \A i \in 1..L : gs[i] = ms[i]
      BY <1>1, <1>2
    <3> QED
      BY <1>1, <3>1, WaitingLocal
  <2>7. Waiting(T, hp, gs[L + 1]) = {<<>>}
    <3> DEFINE h == gs[L + 1]
    <3>1. h.stage = "Block"
      BY <1>14
    <3> HIDE DEF h
    <3>2. Waiting(T, hp, h) = {<<>>}
      BY <3>1 DEF Waiting
    <3> QED
      BY <3>2 DEF h
  <2>8. Outer(T, hp, ms) ** {<<>>} = Outer(T, hp, ms)
    BY <2>3, Silent
  <2> QED
    BY <2>1, <2>2, <2>4, <2>5, <2>6, <2>7, <2>8
<1>12. \A end : w \in Heard(T, hp, gs, end)
  <2> SUFFICES ASSUME NEW end PROVE w \in Heard(T, hp, gs, end)
    OBVIOUS
  <2> DEFINE X == Outer(T, hp, fs)
             Y == Waiting(T, hp, p)
             Z == Said(T, hp, f, "any")
  <2>1. w \in X ** Z
    <3>1. w \in Heard(T, hp, fs, "any")
      BY ClosingEnds DEF Speaks
    <3> QED
      BY <3>1, HeardPlain
  <2>2. Z \subseteq Y /\ X \in Languages /\ Y \in Languages
    BY <1>11
  <2>3. Outer(T, hp, gs) = X ** Y
    BY <1>11
  <2>4. X ** Y \in Languages
    BY <2>2, BehindType
  <2>5. Heard(T, hp, gs, end) = Outer(T, hp, gs)
    <3>1. gs[Len(gs)].stage = "statement"
      BY <1>14
    <3>2. Outer(T, hp, gs) \in Languages
      BY <2>3, <2>4
    <3> QED
      BY <3>1, <3>2, HeardNothing
  <2> HIDE DEF X, Y, Z
  <2>6. X ** Z \subseteq X ** Y
    BY <2>2, Monotone
  <2> QED
    BY <2>1, <2>3, <2>5, <2>6
<1> QED
  BY <1>10, <1>12 DEF Speaks

\* One more frame, and two.
LEMMA TwoMore ==
  ASSUME NEW S, NEW s \in Seq(S), NEW g \in S, NEW h \in S
  PROVE  s \o <<g>> = Append(s, g) /\ s \o <<g, h>> = Append(Append(s, g), h)
<1>1. s \o <<g>> = Append(s, g) /\ <<g>> \in Seq(S) /\ <<h>> \in Seq(S) /\ Append(s, g) \in Seq(S)
  BY AppendIsConcat
<1>2. <<g, h>> = <<g>> \o <<h>>
  <2>1. <<g, h>> \in Seq(S) /\ <<g>> \o <<h>> \in Seq(S)
    OBVIOUS
  <2>2. Len(<<g, h>>) = 2 /\ Len(<<g>> \o <<h>>) = 2
    OBVIOUS
  <2>3. \A i \in 1..2 : (<<g>> \o <<h>>)[i] = <<g, h>>[i]
    OBVIOUS
  <2> QED
    BY <2>1, <2>2, <2>3, SeqEqual
<1>3. s \o (<<g>> \o <<h>>) = (s \o <<g>>) \o <<h>>
  BY <1>1, ConcatAssociative
<1>4. Append(Append(s, g), h) = Append(s, g) \o <<h>>
  BY <1>1, AppendIsConcat
<1> QED
  BY <1>1, <1>2, <1>3, <1>4

\* if goes on with a branch.
LEMMA SpellsBranch == ASSUME NEW T, Tells(T), Branch PROVE Speaks(T, heap', frames', consumed', it')
<1> DEFINE r == IF Here.stage = "then" THEN "otherwise" ELSE "If"
           L == Len(frames)
           called == [frames EXCEPT ![L].stage = r]
           b == TRUE
<1>1. /\ Here.stage \in {"then", "else"} /\ UNCHANGED heap /\ Stay
      /\ frames' = called \o (IF it = "{" THEN <<Frame("block", TRUE)>>
                              ELSE <<Frame("Block", TRUE), Frame("statement", TRUE)>>)
  BY DEF Branch, At, Here
<1>2. /\ Sound(frames, heap) /\ Speaks(T, heap, frames, consumed, it)
      /\ Setting(T, heap, T, heap, frames, it)
      /\ L \in Nat /\ L > 0 /\ Here = frames[L] /\ Here \in FrameType
      /\ Len(Here.parts) \in Members(Here.stage)
  BY TellsHere
<1>3. /\ r \in Stages /\ Goes(Here.stage, r) /\ r \in {"otherwise", "If"}
      /\ Len(Here.parts) \in WaitingMembers(r)
  BY <1>1, <1>2 DEF Goes, Listing, Collecting, Bare, Stages, WaitingMembers, Members, One, Two
<1>4. SaysWaiting(T, heap, Here, r)
  <2> SUFFICES ASSUME NEW g, g.stage = r, g.parts = Here.parts, g.list = Here.list
               PROVE  Said(T, heap, Here, "any") \subseteq Waiting(T, heap, g)
    BY DEF SaysWaiting
  <2>1. CASE Here.stage = "then"
    <3>1. g.stage = "otherwise" /\ Here.stage \in Plain
      BY <2>1 DEF Plain
    <3>2. Said(T, heap, Here, "any") = Condition
      BY <2>1, <3>1, SaidNodes, PlainIs
    <3>3. Waiting(T, heap, g) = Condition
      BY <3>1, WaitingBranch
    <3> QED
      BY <3>2, <3>3
  <2>2. CASE Here.stage = "else"
    <3> DEFINE B(f) == Condition ** BranchText(T, heap, f.parts[2], "closed") ** Tok("else")
    <3>1. g.stage = "If"
      BY <2>2
    <3>2. Said(T, heap, Here, "any") = B(Here)
      BY <2>2, SaidNodes
    <3>3. Waiting(T, heap, g) = B(g)
      BY <3>1, WaitingBranch
    <3> QED
      BY <3>2, <3>3
  <2> QED
    BY <1>1, <2>1, <2>2
<1>5. Sound(called, heap) /\ called \in Seq(FrameType) /\ Len(called) = L
      /\ \A j \in 1..L : j # L => called[j] = frames[j]
  <2>1. Sound(called, heap)
    <3> HIDE DEF r
    <3> QED
      BY <1>2, <1>3, GotoKeeps
  <2>2. called \in Seq(FrameType)
    BY <2>1, SoundTop DEF Shaped
  <2>3. frames \in Seq(FrameType)
    BY <1>2, SoundTop DEF Shaped
  <2> QED
    BY <1>2, <2>1, <2>2, <2>3
<1>6. called[L].stage = r /\ called[L].parts = Here.parts /\ called[L].list = Here.list
      /\ called[L].gobble = Here.gobble
  <2>1. L \in DOMAIN frames
    BY <1>2, SoundTop DEF Shaped
  <2>2. called[L] = [Here EXCEPT !.stage = r]
    BY <1>2, <2>1
  <2> QED
    BY <1>2, <2>2 DEF FrameType
<1>7. \A stage \in Stages : Frame(stage, TRUE) \in FrameType
  BY DEF Frame, FrameType
<1>8. {"block", "Block", "statement"} \subseteq Stages
  BY DEF Stages
<1>9. CASE it = "{"
  <2> DEFINE c == "block"
             g == Frame(c, b)
  <2>1. g \in FrameType
    BY <1>7, <1>8
  <2>2. frames' = called \o <<g>>
    BY <1>1, <1>9
  <2>3. Call(r, g)
    <3> HIDE DEF g, called
    <3>1. called \o <<g>> = Append(called, g)
      BY <1>5, <2>1, TwoMore
    <3> QED
      BY <2>2, <3>1 DEF Call, called
  <2>4. CallsOn(Here, it, r, c, b)
    BY <1>1, <1>3 DEF CallsOn, Stages, Bare, Gobbling, Branching, Lists
  <2> HIDE DEF r, c, b, called
  <2> QED
    BY <1>1, <1>4, <2>3, <2>4, CallSpeaks DEF g
<1>10. CASE it # "{"
  <2> DEFINE g == Frame("Block", TRUE)
             h == Frame("statement", TRUE)
             p == frames'[L]
  <2>1. g \in FrameType /\ h \in FrameType
    BY <1>7, <1>8
  <2>2. frames' = called \o <<g, h>>
    BY <1>1, <1>10
  <2>3. frames' = Append(Append(called, g), h)
    <3> HIDE DEF g, h, called
    <3> QED
      BY <1>5, <2>1, <2>2, TwoMore
  <2>4. /\ Len(frames') = L + 2 /\ frames'[L + 1] = g /\ frames'[L + 2] = h
        /\ \A j \in 1..L : frames'[j] = called[j]
    <3> HIDE DEF g, h, called
    <3>1. /\ Append(called, g) \in Seq(FrameType) /\ Len(Append(called, g)) = L + 1
          /\ Append(called, g)[L + 1] = g /\ \A j \in 1..L : Append(called, g)[j] = called[j]
      BY <1>5, <2>1, Pushed
    <3> DEFINE s == Append(called, g)
    <3> HIDE DEF s
    <3>2. /\ Len(Append(s, h)) = L + 1 + 1 /\ Append(s, h)[L + 1 + 1] = h
          /\ \A j \in 1..(L + 1) : Append(s, h)[j] = s[j]
      BY <2>1, <3>1, Pushed DEF s
    <3>3. L + 1 + 1 = L + 2 /\ L + 1 \in 1..(L + 1) /\ 1..L \subseteq 1..(L + 1)
      BY <1>2
    <3>4. frames' = Append(s, h)
      BY <2>3 DEF s
    <3>5. s[L + 1] = g /\ \A j \in 1..L : s[j] = called[j]
      BY <3>1 DEF s
    <3> QED
      BY <3>2, <3>3, <3>4, <3>5
  <2>5. \A j \in 1..(L - 1) : frames'[j] = frames[j]
    <3>1. \A j \in 1..(L - 1) : j \in 1..L /\ j # L
      BY <1>2
    <3> QED
      BY <1>5, <2>4, <3>1
  <2>6. p.stage = r /\ p.parts = Here.parts /\ p.list = Here.list /\ p.gobble = Here.gobble
    <3>1. L \in 1..L
      BY <1>2
    <3> QED
      BY <1>6, <2>4, <3>1
  <2>7. HoldsUpTo(p, Len(heap))
    BY <2>6, TellsHere DEF HoldsUpTo
  <2> HIDE DEF p
  <2>8. Turns(Here, it, p, it)
    BY <1>1, <1>3, <2>6 DEF Turns, Bare
  <2>9. Said(T, heap, Here, "any") \subseteq Waiting(T, heap, p)
    BY <1>4, <2>6 DEF SaysWaiting
  <2>10. Here.stage \notin {"statement", "target", "Block"} /\ p.stage \in {"otherwise", "If"}
         /\ Len(p.parts) \in WaitingMembers(p.stage)
    BY <1>1, <1>3, <2>6
  <2> HIDE DEF g, h, called, r
  <2>11. Speaks(T, heap, frames', consumed, it)
    BY <1>2, <2>4, <2>5, <2>7, <2>8, <2>9, <2>10, BareCall DEF g, h, p
  <2> QED
    BY <1>1, <2>11 DEF Stay
<1> QED
  BY <1>9, <1>10

---------------------------------------------------------------------------
(* Nodes that are made and returned.                                       *)

LEMMA SaidPending ==
  ASSUME NEW T, NEW hp, NEW f, f.stage = "semicolon", NEW end
  PROVE  Said(T, hp, f, end) = T[f.parts[1]][end]
BY DEF Said, Simple, Compound, Plain

LEMMA SaidText ==
  ASSUME NEW T, NEW hp, NEW f, f.stage \in Simple \cup Compound, NEW end
  PROVE  Said(T, hp, f, end) = TextOf(T, hp, f.stage, f.list \o f.parts, end)
BY SaidNodes

\* A simple statement waits for its semicolon,
LEMMA SpellsPending ==
  ASSUME NEW T, Tells(T), IsText(T, heap), Build, Here.stage \in Simple, Here.gobble
  PROVE  \E T2 : IsText(T2, heap') /\ Typed(T2, heap') /\ Speaks(T2, heap', frames', consumed', it')
<1> DEFINE L == Len(frames)
           f == frames[L]
           g == frames'[L]
           k == Here.list \o Here.parts
<1>1. /\ heap' = Append(heap, Node(Here.stage, k)) /\ Stay
      /\ frames' = [frames EXCEPT ![L] = [@ EXCEPT !.stage = "semicolon", !.parts = <<Fresh>>]]
  BY DEF Build
<1>2. /\ Sound(frames, heap) /\ Speaks(T, heap, frames, consumed, it)
      /\ L \in Nat /\ L > 0 /\ Here = f /\ Here \in FrameType
      /\ Here.parts \in Seq(1..Len(heap)) /\ Here.list \in Seq(1..Len(heap))
  BY TellsHere
<1>3. Here.stage \in Kinds /\ k \in Seq(1..Len(heap))
  BY <1>2, ConcatProperties DEF Kinds
<1>4. PICK T2 : Grown(T, T2, Here.stage, k)
  <2> HIDE DEF k
  <2> QED
    BY <1>1, <1>3, MakesText
<1>5. /\ Differ(frames, frames', L)
      /\ g.stage = "semicolon" /\ g.parts = <<Fresh>> /\ g.list = f.list /\ g.gobble = f.gobble
  <2>1. frames \in Seq(FrameType) /\ L \in 1..Len(frames)
    BY <1>2, SoundTop DEF Shaped
  <2>2. Differ(frames, frames', L)
    BY <1>1, <2>1 DEF Differ
  <2>3. g = [f EXCEPT !.stage = "semicolon", !.parts = <<Fresh>>]
    <3> DEFINE h == [f EXCEPT !.stage = "semicolon", !.parts = <<Fresh>>]
    <3>1. frames' = [frames EXCEPT ![L] = h] /\ L \in DOMAIN frames
      BY <1>1, <2>1
    <3> HIDE DEF h
    <3> QED
      BY <3>1 DEF h
  <2>4. f \in FrameType
    BY <1>2
  <2> HIDE DEF f, g
  <2> QED
    BY <2>2, <2>3, <2>4 DEF FrameType
<1>6. Fresh \in Nat /\ g.parts[1] = Fresh /\ Len(g.parts) = 1
  BY <1>2, <1>5, FreshNumber
<1>7. WorksWell(g) /\ Turns(f, it, g, it) /\ f.stage # "Block"
  <2>1. 1 \in Members("semicolon")
    BY DEF Members, One, Two
  <2>2. f.stage \in {"Return", "Assignment", "VariableDeclaration"} /\ f.gobble
    BY <1>2 DEF Simple
  <2> HIDE DEF f, g
  <2>3. WorksWell(g)
    BY <1>5, <1>6, <2>1, <2>2 DEF WorksWell, Lists
  <2> QED
    BY <1>5, <2>2, <2>3 DEF Turns, Bare
<1>8. \A end \in Closings(it) : Said(T, heap, f, end) \subseteq Said(T2, heap', g, end)
  <2> SUFFICES ASSUME NEW end \in Ends PROVE Said(T, heap, f, end) = Said(T2, heap', g, end)
    BY ClosingEnds
  <2>1. f.stage = Here.stage /\ f.list \o f.parts = k /\ Here.stage \in Simple \cup Compound
    BY <1>2
  <2>2. T2[Fresh][end] = TextOf(T, heap, Here.stage, k, end)
    BY <1>4 DEF Grown
  <2> HIDE DEF f, g, k
  <2>3. Said(T2, heap', g, end) = T2[g.parts[1]][end]
    BY <1>5, SaidPending
  <2>4. Said(T, heap, f, end) = TextOf(T, heap, f.stage, f.list \o f.parts, end)
    BY <2>1, SaidText
  <2> QED
    BY <1>6, <2>1, <2>2, <2>3, <2>4
<1>9. Setting(T, heap, T2, heap', frames, it)
  BY <1>4 DEF Grown
<1> HIDE DEF f, g, k, L
<1>10. Speaks(T2, heap', frames', consumed, it)
  BY <1>2, <1>5, <1>7, <1>8, <1>9, SpeaksStay DEF f, g, L
<1>11. consumed' = consumed /\ it' = it
  BY <1>1 DEF Stay
<1> QED
  BY <1>4, <1>10, <1>11 DEF Grown

\* g is the production p once n has been returned to it.
Takes(T, hp, p, g, n) ==
  /\ Continues(T, hp, T, hp)
  /\ n \in 1..Len(hp)
  /\ p.parts \in Seq(1..Len(hp)) /\ p.list \in Seq(1..Len(hp))
  /\ Len(p.parts) \in WaitingMembers(p.stage)
  /\ p.stage \notin Listing => p.list = <<>>
  /\ g.stage = p.stage
  /\ p.stage \in Collecting => g.list = Append(p.list, n) /\ g.parts = p.parts
  /\ p.stage \notin Collecting => g.list = p.list /\ g.parts = Append(p.parts, n)

LEMMA TakesList ==
  ASSUME NEW T, NEW hp, NEW p, NEW g, NEW n, Takes(T, hp, p, g, n), NEW end,
         p.stage \in {"statements", "block_body", "initializers"}
  PROVE  Said(T, hp, g, end) = Waiting(T, hp, p) ** Sentence(T, hp, n, "any")
<1> DEFINE B == CASE p.stage = "statements" -> {<<>>}
                  [] p.stage = "block_body" -> Tok("{")
                  [] OTHER -> ForOpen
<1>1. /\ Continues(T, hp, T, hp) /\ n \in 1..Len(hp) /\ p.list \in Seq(1..Len(hp))
      /\ g.stage = p.stage /\ g.list = Append(p.list, n)
  BY DEF Takes, Collecting
<1>2. Waiting(T, hp, p) = Said(T, hp, p, "any")
  BY WaitingSaid DEF Branching
<1>3. \A f : f.stage = p.stage => \A e : Said(T, hp, f, e) = Followed(B, Sentences(T, hp, f.list))
  BY SaidLists
<1> HIDE DEF B
<1>4. Followed(B, Sentences(T, hp, Append(p.list, n)))
        = Followed(B, Sentences(T, hp, p.list)) ** Sentence(T, hp, n, "any")
  BY <1>1, ListNext
<1> QED
  BY <1>1, <1>2, <1>3, <1>4

LEMMA TakesUpdate ==
  ASSUME NEW T, NEW hp, NEW p, NEW g, NEW n, Takes(T, hp, p, g, n), NEW end, p.stage = "updates"
  PROVE  Said(T, hp, g, end) = Waiting(T, hp, p) ** T[n]["any"]
<1> DEFINE B == ForHead(T, hp, p.parts[1])
<1>1. /\ Continues(T, hp, T, hp) /\ n \in 1..Len(hp) /\ p.list \in Seq(1..Len(hp))
      /\ g.stage = p.stage /\ g.list = Append(p.list, n) /\ g.parts = p.parts
  BY DEF Takes, Collecting
<1>2. Waiting(T, hp, p) = Said(T, hp, p, "any")
  BY WaitingSaid DEF Branching
<1>3. \A f : f.stage = "updates" =>
        \A e : Said(T, hp, f, e) = Followed(ForHead(T, hp, f.parts[1]), Clauses(T, f.list))
  BY SaidFor
<1>4. Followed(B, Clauses(T, Append(p.list, n))) = Followed(B, Clauses(T, p.list)) ** T[n]["any"]
  <2> HIDE DEF B
  <2> QED
    BY <1>1, ListNext
<1> QED
  BY <1>1, <1>2, <1>3, <1>4

LEMMA TakesParameter ==
  ASSUME NEW T, NEW hp, NEW p, NEW g, NEW n, Takes(T, hp, p, g, n), NEW end, p.stage = "parameters"
  PROVE  Said(T, hp, g, end) = Waiting(T, hp, p) ** Parameter
<1>1. p.list \in Seq(1..Len(hp)) /\ g.stage = "parameters" /\ g.list = Append(p.list, n)
      /\ n \in 1..Len(hp)
  BY DEF Takes, Collecting
<1>2. Waiting(T, hp, p) = Said(T, hp, p, "any")
  BY WaitingSaid DEF Branching
<1>3. Said(T, hp, p, "any") = Signature(1..Len(p.list))
  BY SaidParameters
<1>4. Said(T, hp, g, end) = Signature(1..Len(g.list))
  BY <1>1, SaidParameters
<1>5. Len(g.list) = Len(p.list) + 1 /\ Len(p.list) \in Nat
  BY <1>1, Pushed
<1> QED
  BY <1>2, <1>3, <1>4, <1>5, SignatureNext

\* One more member of a production that had as many.
LEMMA TakesPart ==
  ASSUME NEW T, NEW hp, NEW p, NEW g, NEW n, Takes(T, hp, p, g, n), p.stage \notin Collecting
  PROVE  /\ Len(g.parts) = Len(p.parts) + 1 /\ g.parts[Len(p.parts) + 1] = n
         /\ \A i \in 1..Len(p.parts) : g.parts[i] = p.parts[i]
         /\ g.parts \in Seq(1..Len(hp)) /\ g.stage = p.stage /\ g.list = p.list
<1>1. /\ n \in 1..Len(hp) /\ p.parts \in Seq(1..Len(hp))
      /\ g.stage = p.stage /\ g.list = p.list /\ g.parts = Append(p.parts, n)
  BY DEF Takes
<1> QED
  BY <1>1, Pushed

LEMMA TakesBranch ==
  ASSUME NEW T, NEW hp, NEW p, NEW g, NEW n, Takes(T, hp, p, g, n), NEW end, p.stage = "otherwise"
  PROVE  Said(T, hp, g, end) = Waiting(T, hp, p) ** BranchText(T, hp, n, end)
<1>1. Len(p.parts) = 1
  BY DEF Takes, WaitingMembers
<1>2. g.stage = "otherwise" /\ g.parts[2] = n
  <2>1. g.stage = p.stage /\ g.parts[Len(p.parts) + 1] = n
    BY TakesPart DEF Collecting
  <2>2. Len(p.parts) + 1 = 2
    BY <1>1
  <2> QED
    BY <2>1, <2>2
<1>3. Waiting(T, hp, p) = Condition
  BY WaitingBranch
<1>4. Said(T, hp, g, end) = Condition ** BranchText(T, hp, g.parts[2], end)
  BY <1>2, SaidNodes
<1> QED
  BY <1>2, <1>3, <1>4

LEMMA TakesElse ==
  ASSUME NEW T, NEW hp, NEW p, NEW g, NEW n, Takes(T, hp, p, g, n), NEW end, p.stage = "If"
  PROVE  Said(T, hp, g, end) = Waiting(T, hp, p) ** BranchText(T, hp, n, end)
<1>1. Len(p.parts) = 2 /\ p.list = <<>>
  BY DEF Takes, WaitingMembers, Listing, Collecting
<1>2. /\ g.stage = "If" /\ g.list = <<>> /\ g.parts \in Seq(1..Len(hp))
      /\ Len(g.parts) = 3 /\ g.parts[3] = n /\ g.parts[2] = p.parts[2]
  <2>1. /\ Len(g.parts) = Len(p.parts) + 1 /\ g.parts[Len(p.parts) + 1] = n
        /\ \A i \in 1..Len(p.parts) : g.parts[i] = p.parts[i]
        /\ g.parts \in Seq(1..Len(hp)) /\ g.stage = p.stage /\ g.list = p.list
    BY TakesPart DEF Collecting
  <2>2. Len(p.parts) + 1 = 3 /\ 2 \in 1..Len(p.parts)
    BY <1>1
  <2> QED
    BY <1>1, <2>1, <2>2
<1>3. Waiting(T, hp, p) = Condition ** BranchText(T, hp, p.parts[2], "closed") ** Tok("else")
  BY WaitingBranch
<1>4. Said(T, hp, g, end) = TextOf(T, hp, "If", g.parts, end)
  BY <1>2, SaidMade
<1>5. TextOf(T, hp, "If", g.parts, end)
        = Condition ** BranchText(T, hp, g.parts[2], "closed") ** Tok("else")
            ** BranchText(T, hp, g.parts[3], end)
  BY <1>2 DEF TextOf, IfText
<1> QED
  BY <1>2, <1>3, <1>4, <1>5

LEMMA TakesFor ==
  ASSUME NEW T, NEW hp, NEW p, NEW g, NEW n, Takes(T, hp, p, g, n), NEW end, p.stage = "For"
  PROVE  Said(T, hp, g, end) = Waiting(T, hp, p) ** T[n]["any"]
<1>1. Len(p.parts) = 3 /\ p.list = <<>>
  BY DEF Takes, WaitingMembers, Listing, Collecting
<1>2. /\ g.stage = "For" /\ g.list = <<>> /\ g.parts \in Seq(1..Len(hp))
      /\ Len(g.parts) = 4 /\ g.parts[4] = n /\ g.parts[1] = p.parts[1] /\ g.parts[3] = p.parts[3]
  <2>1. /\ Len(g.parts) = Len(p.parts) + 1 /\ g.parts[Len(p.parts) + 1] = n
        /\ \A i \in 1..Len(p.parts) : g.parts[i] = p.parts[i]
        /\ g.parts \in Seq(1..Len(hp)) /\ g.stage = p.stage /\ g.list = p.list
    BY TakesPart DEF Collecting
  <2>2. Len(p.parts) + 1 = 4 /\ 1 \in 1..Len(p.parts) /\ 3 \in 1..Len(p.parts)
    BY <1>1
  <2> QED
    BY <1>1, <2>1, <2>2
<1>3. Waiting(T, hp, p) = ForHeader(T, hp, p.parts[1], hp[p.parts[3]].kids)
  BY WaitingFor
<1>4. Said(T, hp, g, end) = TextOf(T, hp, "For", g.parts, end)
  <2>1. g.stage \in Simple \cup {"If", "For"}
    BY <1>2
  <2>2. Said(T, hp, g, end) = TextOf(T, hp, g.stage, g.parts, end)
    BY <1>2, <2>1, SaidMade
  <2> QED
    BY <1>2, <2>2
<1>5. TextOf(T, hp, "For", g.parts, end)
        = ForHeader(T, hp, g.parts[1], hp[g.parts[3]].kids) ** T[g.parts[4]]["any"]
  BY <1>2 DEF TextOf, ForText
<1> QED
  BY <1>2, <1>3, <1>4, <1>5

LEMMA TakesFunction ==
  ASSUME NEW T, NEW hp, NEW p, NEW g, NEW n, Takes(T, hp, p, g, n), NEW end, p.stage = "Function"
  PROVE  Said(T, hp, g, end) = Waiting(T, hp, p) ** T[n]["any"]
<1> DEFINE k == p.list \o <<n>>
<1>1. /\ Len(p.parts) = 0 /\ p.parts \in Seq(1..Len(hp)) /\ p.list \in Seq(1..Len(hp))
      /\ n \in 1..Len(hp) /\ g.stage = "Function" /\ g.list = p.list
      /\ g.parts = Append(p.parts, n)
  BY DEF Takes, WaitingMembers, Collecting
<1>2. g.parts = <<n>>
  <2>1. p.parts = <<>>
    BY <1>1, EmptySeq
  <2> QED
    BY <1>1, <2>1
<1>3. k = Append(p.list, n)
  BY <1>1, AppendIsConcat
<1>4. Len(k) = Len(p.list) + 1 /\ k[Len(k)] = n /\ Len(p.list) \in Nat
  <2> HIDE DEF k
  <2> QED
    BY <1>1, <1>3, Pushed
<1>5. Waiting(T, hp, p) = Signature(1..Len(p.list)) ** Tok(")")
  BY WaitingFunction
<1>6. Said(T, hp, g, end) = TextOf(T, hp, "Function", k, end)
  <2>1. g.stage \in Simple \cup Compound
    BY <1>1 DEF Compound
  <2>2. Said(T, hp, g, end) = TextOf(T, hp, g.stage, g.list \o g.parts, end)
    BY <2>1, SaidText
  <2> QED
    BY <1>1, <1>2, <2>2
<1> HIDE DEF k
<1>7. TextOf(T, hp, "Function", k, end)
        = Signature(1..(Len(k) - 1)) ** Tok(")") ** T[k[Len(k)]]["any"]
  BY <1>4 DEF TextOf, FunctionText
<1>8. Len(k) - 1 = Len(p.list)
  BY <1>4
<1> QED
  BY <1>4, <1>5, <1>6, <1>7, <1>8

\* Who waits for the active production.
LEMMA WaitsHere ==
  ASSUME NEW T, Tells(T), Here.stage # "statements"
  PROVE  LET p == frames[Len(frames) - 1]
         IN  /\ Len(frames) > 1 /\ Len(frames) \in Nat /\ p \in FrameType
             /\ p.stage \in Suspended
             /\ p.parts \in Seq(1..Len(heap)) /\ p.list \in Seq(1..Len(heap))
             /\ p.stage \notin Listing => p.list = <<>>
             /\ WaitsWell(frames, it, Len(frames) - 1)
             /\ Len(p.parts) \in WaitingMembers(p.stage)
             /\ Fits(p, Here)
<1> DEFINE i == Len(frames) - 1
<1>1. /\ Sound(frames, heap) /\ Formed(frames, it) /\ Len(frames) \in Nat
      /\ Here = frames[Len(frames)]
  BY TellsHere DEF Speaks
<1>2. Len(frames) > 1
  <2>1. Len(frames) > 0 /\ (Here.stage = "statements" <=> Len(frames) = 1)
    BY <1>1, Now
  <2>2. Len(frames) # 1
    BY <2>1
  <2>3. \A l \in Nat : l > 0 /\ l # 1 => l > 1
    OBVIOUS
  <2> QED
    BY <1>1, <2>1, <2>2, <2>3
<1>3. i \in 1..Len(frames) /\ i \in 1..(Len(frames) - 1) /\ i + 1 = Len(frames)
  BY <1>1, <1>2
<1>4. frames[i] \in FrameType /\ frames[i].stage \in Suspended /\ FrameOK(frames[i], heap)
  BY <1>1, <1>3, SoundTop, ElementOfSeq DEF Shaped
<1>5. HoldsUpTo(frames[i], Len(heap))
  BY <1>1, <1>3, FramesHoldNodes
<1>6. WaitsWell(frames, it, i)
  BY <1>1, <1>3 DEF Formed
<1>7. Len(frames[i].parts) \in WaitingMembers(frames[i].stage) /\ Fits(frames[i], Here)
  <2>1. frames[i + 1] = Here
    BY <1>1, <1>3
  <2> HIDE DEF i
  <2> QED
    BY <1>6, <2>1 DEF WaitsWell
<1> QED
  BY <1>1, <1>2, <1>4, <1>5, <1>6, <1>7 DEF HoldsUpTo, FrameOK

\* It takes what is returned and works well again.
LEMMA ReturnWell ==
  ASSUME NEW T, Tells(T), Here.stage \notin {"statements", "statement", "target"},
         NEW n \in Nat, Return(n)
  PROVE  LET p == frames[Len(frames) - 1]
             g == frames'[Len(frames')]
         IN  /\ Len(frames) > 1 /\ Len(frames') = Len(frames) - 1
             /\ \A j \in 1..(Len(frames) - 2) : frames'[j] = frames[j]
             /\ g.stage = p.stage /\ g.gobble = p.gobble
             /\ p.stage \in Collecting => g.list = Append(p.list, n) /\ g.parts = p.parts
             /\ p.stage \notin Collecting => g.list = p.list /\ g.parts = Append(p.parts, n)
             /\ WorksWell(g)
<1> DEFINE L == Len(frames)
           p == frames[L - 1]
           g == frames'[Len(frames')]
<1>1. /\ Sound(frames, heap) /\ L \in Nat /\ Here = frames[L]
  BY TellsHere
<1>2. /\ L > 1 /\ Len(frames') = L - 1
      /\ \A j \in 1..(L - 2) : frames'[j] = frames[j]
      /\ g.stage = p.stage /\ g.gobble = p.gobble
      /\ p.stage \in Collecting => g.list = Append(p.list, n) /\ g.parts = p.parts
      /\ p.stage \notin Collecting => g.list = p.list /\ g.parts = Append(p.parts, n)
  BY <1>1, ReturnIs
<1>3. /\ p \in FrameType /\ p.stage \in Suspended /\ WaitsWell(frames, it, L - 1)
      /\ Len(p.parts) \in WaitingMembers(p.stage) /\ p.parts \in Seq(Nat)
  BY WaitsHere DEF FrameType
<1>4. p.stage \in Lists => p.list = <<>>
  <2>1. frames[L - 1 + 1] = Here
    BY <1>1
  <2> QED
    BY <1>3, <2>1 DEF WaitsWell
<1> HIDE DEF p, g
<1>5. Len(g.parts) \in Members(g.stage)
  <2>1. CASE p.stage \in Collecting
    <3>1. p.stage \notin {"otherwise", "If", "For", "Function"}
      BY <2>1 DEF Collecting
    <3>2. WaitingMembers(p.stage) = Members(p.stage)
      BY <3>1 DEF WaitingMembers
    <3> QED
      BY <1>2, <1>3, <2>1, <3>2
  <2>2. CASE p.stage \notin Collecting
    <3>1. Len(g.parts) = Len(p.parts) + 1
      BY <1>2, <1>3, <2>2, OneMorePart
    <3>2. p.stage \in {"otherwise", "If", "For", "Function"}
      BY <1>3, <2>2 DEF Suspended, Collecting
    <3>3. CASE p.stage = "otherwise"
      <4>1. Len(p.parts) = 1 /\ 2 \in Members(p.stage)
        BY <1>3, <3>3 DEF WaitingMembers, Members, One, Two
      <4>2. Len(g.parts) = 2
        BY <3>1, <4>1
      <4> QED
        BY <1>2, <4>1, <4>2
    <3>4. CASE p.stage = "If"
      <4>1. Len(p.parts) = 2 /\ 3 \in Members(p.stage)
        BY <1>3, <3>4 DEF WaitingMembers, Members, One, Two
      <4>2. Len(g.parts) = 3
        BY <3>1, <4>1
      <4> QED
        BY <1>2, <4>1, <4>2
    <3>5. CASE p.stage = "For"
      <4>1. Len(p.parts) = 3 /\ 4 \in Members(p.stage)
        BY <1>3, <3>5 DEF WaitingMembers, Members, One, Two
      <4>2. Len(g.parts) = 4
        BY <3>1, <4>1
      <4> QED
        BY <1>2, <4>1, <4>2
    <3>6. CASE p.stage = "Function"
      <4>1. Len(p.parts) = 0 /\ 1 \in Members(p.stage)
        BY <1>3, <3>6 DEF WaitingMembers, Members, One, Two
      <4>2. Len(g.parts) = 1
        BY <3>1, <4>1
      <4> QED
        BY <1>2, <4>1, <4>2
    <3> QED
      BY <3>2, <3>3, <3>4, <3>5, <3>6
  <2> QED
    BY <2>1, <2>2
<1>6. g.stage \in Lists => Len(g.list) = 1
  <2> SUFFICES ASSUME g.stage \in Lists PROVE Len(g.list) = 1
    OBVIOUS
  <2>1. p.list = <<>> /\ g.list = Append(p.list, n)
    BY <1>2, <1>4 DEF Lists, Collecting
  <2> QED
    BY <2>1
<1>7. g.stage # "semicolon"
  BY <1>2, <1>3 DEF Suspended
<1> QED
  BY <1>2, <1>5, <1>6, <1>7 DEF WorksWell, p, g

LEMMA ReturnTakes ==
  ASSUME NEW T, Tells(T), Here.stage \notin {"statements", "statement", "target"},
         NEW T2, Continues(T2, heap', T2, heap'), Len(heap') >= Len(heap),
         NEW n \in 1..Len(heap'), Return(n)
  PROVE  Takes(T2, heap', frames[Len(frames) - 1], frames'[Len(frames')], n)
<1> DEFINE p == frames[Len(frames) - 1]
           g == frames'[Len(frames')]
<1>1. n \in Nat /\ Len(heap) \in Nat /\ Len(heap') \in Nat
  <2>1. Len(heap) \in Nat /\ Len(heap') \in Nat
    BY TellsHere DEF Continues
  <2> QED
    BY <2>1
<1>2. /\ g.stage = p.stage
      /\ p.stage \in Collecting => g.list = Append(p.list, n) /\ g.parts = p.parts
      /\ p.stage \notin Collecting => g.list = p.list /\ g.parts = Append(p.parts, n)
  BY <1>1, ReturnWell
<1>3. /\ p.parts \in Seq(1..Len(heap)) /\ p.list \in Seq(1..Len(heap))
      /\ p.stage \notin Listing => p.list = <<>>
      /\ Len(p.parts) \in WaitingMembers(p.stage)
  BY WaitsHere
<1>4. 1..Len(heap) \subseteq 1..Len(heap')
  BY <1>1
<1> HIDE DEF p, g
<1>5. p.parts \in Seq(1..Len(heap')) /\ p.list \in Seq(1..Len(heap'))
  BY <1>3, <1>4
<1> QED
  BY <1>2, <1>3, <1>5 DEF Takes, p, g

\* What was read for a node that is made is one of its texts,
LEMMA BuiltText ==
  ASSUME NEW T, Tells(T), Here.stage \in Simple \cup Compound,
         NEW T2, Grown(T, T2, Here.stage, Here.list \o Here.parts), NEW end \in Ends
  PROVE  Said(T, heap, Here, end) = T2[Fresh][end]
<1>1. Said(T, heap, Here, end) = TextOf(T, heap, Here.stage, Here.list \o Here.parts, end)
  BY SaidText
<1>2. T2[Fresh][end] = TextOf(T, heap, Here.stage, Here.list \o Here.parts, end)
  BY DEF Grown
<1> QED
  BY <1>1, <1>2

LEMMA BuiltSpoken ==
  ASSUME NEW T, Tells(T), Here.stage \in Simple \cup Compound,
         NEW T2, Grown(T, T2, Here.stage, Here.list \o Here.parts), NEW end \in Ends,
         Here.stage = "Block" => frames[Len(frames) - 1].stage \notin {"otherwise", "If"}
  PROVE  Spoken(T, heap, frames, end) = T2[Fresh][end]
<1>1. Said(T, heap, Here, end) = T2[Fresh][end]
  BY BuiltText
<1>2. Here = frames[Len(frames)]
  BY TellsHere
<1>3. ~Braceless(frames)
  BY <1>2 DEF Braceless
<1> QED
  BY <1>1, <1>2, <1>3 DEF Spoken

\* with or without the braces of a branch.
LEMMA BuiltBranch ==
  ASSUME NEW T, Tells(T), Here.stage = "Block",
         NEW T2, Grown(T, T2, "Block", Here.list \o Here.parts), NEW end \in Ends,
         heap' = Append(heap, Node("Block", Here.list \o Here.parts))
  PROVE  Spoken(T, heap, frames, end) \subseteq BranchText(T2, heap', Fresh, end)
<1> DEFINE l == Here.list
           n == l[1]
           B == T2[Fresh][end]
<1>1. /\ Here = frames[Len(frames)] /\ Sound(frames, heap) /\ Here.parts \in Seq(1..Len(heap))
      /\ l \in Seq(1..Len(heap)) /\ Len(Here.parts) \in Members("Block")
  BY TellsHere
<1>2. l \o Here.parts = l
  <2>1. Len(Here.parts) = 0
    BY <1>1 DEF Members, One, Two
  <2>2. Here.parts = <<>>
    BY <1>1, <2>1, EmptySeq
  <2> QED
    BY <1>1, <2>2, ConcatEmptySeq
<1>3. heap'[Fresh].kids = l
  <2>1. "Block" \in Kinds /\ heap' = Append(heap, Node("Block", l))
    BY <1>2 DEF Kinds, Compound
  <2> HIDE DEF l
  <2> QED
    BY <1>1, <2>1, MadeNode
<1>4. Said(T, heap, Here, end) = B
  BY BuiltText DEF Compound
<1>5. BranchText(T2, heap', Fresh, end)
        = B \cup (IF Len(l) = 1 THEN Sentence(T2, heap', n, end) ELSE {})
  BY <1>3 DEF BranchText
<1>6. Len(l) = 1 => Sentence(T2, heap', n, end) = Sentence(T, heap, n, end)
  <2> SUFFICES ASSUME Len(l) = 1 PROVE Sentence(T2, heap', n, end) = Sentence(T, heap, n, end)
    OBVIOUS
  <2>1. 1 \in 1..Len(l)
    OBVIOUS
  <2>2. n \in 1..Len(heap)
    BY <1>1, <2>1, ElementOfSeq
  <2>3. Continues(T, heap, T2, heap')
    BY DEF Grown
  <2> HIDE DEF n
  <2> QED
    BY <2>2, <2>3, SentenceSame
<1>7. Spoken(T, heap, frames, end)
        = Said(T, heap, Here, end) \cup (IF Braceless(frames) THEN Sentence(T, heap, n, end) ELSE {})
  BY <1>1 DEF Spoken
<1>8. Braceless(frames) => Len(l) = 1
  BY <1>1 DEF Braceless
<1> HIDE DEF l, n, B
<1> QED
  BY <1>4, <1>5, <1>6, <1>7, <1>8

\* The caller goes on with it.
BuiltFor(T, T2) ==
  /\ Tells(T) /\ Here.stage \in Simple \cup Compound
  /\ Grown(T, T2, Here.stage, Here.list \o Here.parts)
  /\ heap' = Append(heap, Node(Here.stage, Here.list \o Here.parts))
  /\ Return(Fresh)
  /\ Takes(T2, heap', frames[Len(frames) - 1], frames'[Len(frames')], Fresh)
  /\ Here.stage \in Simple => ~Here.gobble
TakenAs(T, T2, e, end) ==
  Waiting(T2, heap', frames[Len(frames) - 1]) ** Spoken(T, heap, frames, e)
    \subseteq Spoken(T2, heap', frames', end)

LEMMA SaidSpoken ==
  ASSUME NEW T, NEW hp, NEW fs, NEW end
  PROVE  Said(T, hp, fs[Len(fs)], end) \subseteq Spoken(T, hp, fs, end)
BY DEF Spoken

LEMMA BuiltSentence ==
  ASSUME NEW T, NEW T2, BuiltFor(T, T2), Here.stage \in Compound, NEW end
  PROVE  Sentence(T2, heap', Fresh, end) = T2[Fresh][end]
<1>1. /\ Sound(frames, heap) /\ Here.parts \in Seq(1..Len(heap)) /\ Here.list \in Seq(1..Len(heap))
      /\ heap' = Append(heap, Node(Here.stage, Here.list \o Here.parts))
  BY TellsHere DEF BuiltFor
<1>2. Here.list \o Here.parts \in Seq(1..Len(heap)) /\ Here.stage \in Kinds
  BY <1>1, ConcatProperties DEF Kinds
<1>3. heap'[Fresh].kind = Here.stage
  BY <1>1, <1>2, MadeNode
<1>4. heap'[Fresh].kind \notin Simple
  BY <1>3 DEF Simple, Compound
<1> QED
  BY <1>4 DEF Sentence

LEMMA BuiltInto ==
  ASSUME NEW T, NEW T2, BuiltFor(T, T2), NEW end \in Ends,
         frames[Len(frames) - 1].stage \in {"statements", "block_body", "initializers", "updates", "For", "Function"}
  PROVE  TakenAs(T, T2, "any", end)
<1> DEFINE p == frames[Len(frames) - 1]
           g == frames'[Len(frames')]
           B == T2[Fresh]["any"]
<1>1. /\ Tells(T) /\ Here.stage \in Simple \cup Compound
      /\ Grown(T, T2, Here.stage, Here.list \o Here.parts)
      /\ Takes(T2, heap', p, g, Fresh)
  BY DEF BuiltFor
<1>2. Spoken(T, heap, frames, "any") = B
  BY <1>1, BuiltSpoken DEF Ends
<1>3. Here.stage # "statements"
  BY <1>1 DEF Simple, Compound
<1>4. Fits(p, Here)
  BY <1>1, <1>3, WaitsHere
<1> HIDE DEF p, g, B
<1>5. Said(T2, heap', g, end) = Waiting(T2, heap', p) ** B
  <2>1. CASE p.stage \in {"statements", "block_body", "initializers"}
    <3>1. Here.gobble
      BY <1>4, <2>1 DEF Fits, Gobbling
    <3>2. Here.stage \in Compound
      BY <1>1, <3>1 DEF BuiltFor
    <3>3. Sentence(T2, heap', Fresh, "any") = B
      BY <3>2, BuiltSentence DEF B
    <3>4. Said(T2, heap', g, end) = Waiting(T2, heap', p) ** Sentence(T2, heap', Fresh, "any")
      BY <1>1, <2>1, TakesList
    <3> QED
      BY <3>3, <3>4
  <2>2. CASE p.stage = "updates"
    BY <1>1, <2>2, TakesUpdate DEF B
  <2>3. CASE p.stage = "For"
    BY <1>1, <2>3, TakesFor DEF B
  <2>4. CASE p.stage = "Function"
    BY <1>1, <2>4, TakesFunction DEF B
  <2> QED
    BY <2>1, <2>2, <2>3, <2>4 DEF p
<1>6. Said(T2, heap', g, end) \subseteq Spoken(T2, heap', frames', end)
  BY SaidSpoken DEF g
<1> QED
  BY <1>2, <1>5, <1>6 DEF TakenAs, p

LEMMA BuiltAsBranch ==
  ASSUME NEW T, NEW T2, BuiltFor(T, T2), NEW end \in Ends,
         frames[Len(frames) - 1].stage \in {"otherwise", "If"}
  PROVE  TakenAs(T, T2, end, end)
<1> DEFINE p == frames[Len(frames) - 1]
           g == frames'[Len(frames')]
           B == BranchText(T2, heap', Fresh, end)
           S == Spoken(T, heap, frames, end)
<1>1. /\ Tells(T) /\ Here.stage \in Simple \cup Compound
      /\ Grown(T, T2, Here.stage, Here.list \o Here.parts)
      /\ heap' = Append(heap, Node(Here.stage, Here.list \o Here.parts))
      /\ Takes(T2, heap', p, g, Fresh)
  BY DEF BuiltFor
<1>2. Here.stage # "statements"
  BY <1>1 DEF Simple, Compound
<1>3. Fits(p, Here)
  BY <1>1, <1>2, WaitsHere
<1>4. Here.stage = "Block"
  BY <1>1, <1>3 DEF Fits, Branching, Simple, Compound
<1>5. S \subseteq B
  BY <1>1, <1>4, BuiltBranch
<1> HIDE DEF p, g, B
<1>6. Said(T2, heap', g, end) = Waiting(T2, heap', p) ** B
  <2>1. CASE p.stage = "otherwise"
    BY <1>1, <2>1, TakesBranch DEF B
  <2>2. CASE p.stage = "If"
    BY <1>1, <2>2, TakesElse DEF B
  <2> QED
    BY <2>1, <2>2 DEF p
<1>7. Said(T2, heap', g, end) \subseteq Spoken(T2, heap', frames', end)
  BY SaidSpoken DEF g
<1>8. Waiting(T2, heap', p) ** S \subseteq Waiting(T2, heap', p) ** B
  <2> HIDE DEF S
  <2> QED
    BY <1>5, Monotone
<1> QED
  BY <1>6, <1>7, <1>8 DEF TakenAs, p

\* A branch without braces.
LEMMA BuiltAlone ==
  ASSUME NEW T, NEW T2, BuiltFor(T, T2), NEW end \in Ends,
         frames[Len(frames) - 1].stage = "Block"
  PROVE  TakenAs(T, T2, end, end)
<1> DEFINE L == Len(frames)
           p == frames[L - 1]
           g == frames'[Len(frames')]
           B == T2[Fresh][end]
<1>1. /\ Tells(T) /\ Here.stage \in Simple \cup Compound
      /\ Grown(T, T2, Here.stage, Here.list \o Here.parts) /\ Return(Fresh)
      /\ Continues(T2, heap', T2, heap') /\ Fresh \in 1..Len(heap')
      /\ g.stage = "Block" /\ g.list = Append(p.list, Fresh)
  BY DEF BuiltFor, Takes, Collecting
<1>2. Here.stage \notin {"statements", "statement", "target"} /\ Fresh \in Nat
  <2>1. Fresh \in Nat
    BY <1>1, FreshNumber DEF Tells
  <2> QED
    BY <1>1, <2>1 DEF Simple, Compound
<1>3. /\ L > 1 /\ L \in Nat /\ Fits(p, Here) /\ WaitsWell(frames, it, L - 1)
  BY <1>1, <1>2, WaitsHere
<1>4. /\ Len(frames') = L - 1 /\ \A j \in 1..(L - 2) : frames'[j] = frames[j]
  BY <1>1, <1>2, ReturnWell
<1>5. p.list = <<>> /\ L - 1 > 1 /\ frames[L - 1 - 1].stage \in {"otherwise", "If"}
  BY <1>3 DEF WaitsWell
<1>6. Here.stage \in Compound
  <2>1. Here.gobble
    BY <1>3 DEF Fits, Gobbling
  <2> QED
    BY <1>1, <2>1 DEF BuiltFor
<1>7. Sentence(T2, heap', Fresh, end) = B
  BY <1>6, BuiltSentence
<1>8. Spoken(T, heap, frames, end) = B
  BY <1>1, BuiltSpoken
<1>9. g.list = <<Fresh>>
  BY <1>1, <1>5
<1>10. Braceless(frames')
  <2>1. frames'[Len(frames') - 1].stage \in {"otherwise", "If"} /\ Len(frames') > 1
    <3>1. L - 2 \in 1..(L - 2) /\ Len(frames') - 1 = L - 2 /\ L - 1 - 1 = L - 2
      BY <1>3, <1>4, <1>5
    <3> QED
      BY <1>4, <1>5, <3>1
  <2>2. Len(g.list) = 1
    BY <1>9
  <2> QED
    BY <1>1, <2>1, <2>2 DEF Braceless
<1>11. B \subseteq Spoken(T2, heap', frames', end)
  <2>1. g.list[1] = Fresh
    BY <1>9
  <2> HIDE DEF B
  <2> QED
    BY <1>7, <1>10, <2>1 DEF Spoken
<1>12. Waiting(T2, heap', p) = {<<>>}
  <2> HIDE DEF p
  <2> QED
    BY WaitingBranch DEF p
<1>13. B \in Languages
  BY <1>1 DEF Continues
<1>14. {<<>>} ** B = B
  <2> HIDE DEF B
  <2> QED
    BY <1>13, Silent
<1> QED
  BY <1>8, <1>11, <1>12, <1>14 DEF TakenAs

\* The state after a node was made has a setting of its own.
LEMMA GrownItself ==
  ASSUME NEW T, NEW T2, NEW kind, NEW k, Grown(T, T2, kind, k), Sound(frames', heap')
  PROVE  Continues(T2, heap', T2, heap')
<1>1. heap' \in Seq(NodeType) /\ OwnsOlder(heap')
  BY SoundTop
<1>2. Typed(T2, heap')
  BY DEF Grown
<1> QED
  BY <1>1, <1>2, ContinuesItself

\* parseStatement hands a node to its caller.
LEMMA SpellsReturned ==
  ASSUME NEW T, Tells(T), IsText(T, heap), Build, Here.stage \in Compound \/ ~Here.gobble
  PROVE  \E T2 : IsText(T2, heap') /\ Typed(T2, heap') /\ Speaks(T2, heap', frames', consumed', it')
<1> DEFINE L == Len(frames)
           p == frames[L - 1]
           g == frames'[Len(frames')]
           k == Here.list \o Here.parts
           f == Here
<1>1. /\ Here.stage \in Simple \cup Compound /\ heap' = Append(heap, Node(Here.stage, k)) /\ Stay
      /\ Return(Fresh)
  BY DEF Build, At, Here, Simple, Compound
<1>2. /\ Sound(frames, heap) /\ Speaks(T, heap, frames, consumed, it)
      /\ L \in Nat /\ L > 0 /\ Here.parts \in Seq(1..Len(heap)) /\ Here.list \in Seq(1..Len(heap))
  BY TellsHere
<1>3. Here.stage \in Kinds /\ k \in Seq(1..Len(heap))
  BY <1>1, <1>2, ConcatProperties DEF Kinds
<1>4. PICK T2 : Grown(T, T2, Here.stage, k)
  <2> HIDE DEF k
  <2> QED
    BY <1>1, <1>3, MakesText
<1>5. Sound(frames', heap')
  BY <1>2, SoundBuild
<1>6. Continues(T2, heap', T2, heap')
  BY <1>4, <1>5, GrownItself
<1>7. Here.stage \notin {"statements", "statement", "target"}
  BY <1>1 DEF Simple, Compound
<1>8. Fresh \in 1..Len(heap') /\ Len(heap') >= Len(heap) /\ Fresh \in Nat
  <2>1. Len(heap) \in Nat /\ Len(heap') = Len(heap) + 1 /\ Fresh = Len(heap) + 1
    BY <1>1, <1>2, <1>3, FreshNumber, SoundTop, HeapGrows DEF Made
  <2> QED
    BY <2>1
<1>9. Takes(T2, heap', p, g, Fresh)
  BY <1>1, <1>6, <1>7, <1>8, ReturnTakes
<1>10. /\ L > 1 /\ Len(frames') = L - 1
       /\ \A j \in 1..(L - 2) : frames'[j] = frames[j]
       /\ g.stage = p.stage /\ g.gobble = p.gobble /\ WorksWell(g)
  BY <1>1, <1>7, <1>8, ReturnWell
<1>11. p.stage \in Suspended /\ Fits(p, Here)
  BY <1>7, WaitsHere
<1>12. BuiltFor(T, T2)
  BY <1>1, <1>4, <1>9 DEF BuiltFor, Simple, Compound
<1>13. ASSUME NEW end \in Ends PROVE \E e \in {"any", end} : TakenAs(T, T2, e, end)
  <2>1. CASE p.stage \in {"otherwise", "If"}
    BY <1>12, <2>1, BuiltAsBranch
  <2>2. CASE p.stage = "Block"
    BY <1>12, <2>2, BuiltAlone
  <2>3. CASE p.stage = "parameters"
    BY <1>1, <1>11, <2>3 DEF Fits, Bare, Simple, Compound
  <2>4. CASE p.stage \in {"statements", "block_body", "initializers", "updates", "For", "Function"}
    BY <1>12, <2>4, BuiltInto
  <2> QED
    BY <1>11, <2>1, <2>2, <2>3, <2>4 DEF Suspended
<1>14. \A end \in Closings(it) : \E e \in Closings(it) :
         Waiting(T2, heap', p) ** Spoken(T, heap, frames, e) \subseteq Spoken(T2, heap', frames', end)
  <2> TAKE end \in Closings(it)
  <2>1. end \in Ends /\ "any" \in Closings(it)
    BY ClosingEnds
  <2>2. PICK e \in {"any", end} : TakenAs(T, T2, e, end)
    BY <1>13, <2>1
  <2>3. e \in Closings(it)
    BY <2>1, <2>2
  <2> QED
    BY <2>2, <2>3 DEF TakenAs
<1>15. Setting(T, heap, T2, heap', frames, it)
  BY <1>4 DEF Grown
<1> HIDE DEF p, g, L, k, f
<1>16. Speaks(T2, heap', frames', consumed, it)
  BY <1>2, <1>10, <1>14, <1>15, SpeaksReturn DEF p, g, L
<1>17. consumed' = consumed /\ it' = it
  BY <1>1 DEF Stay
<1> QED
  BY <1>4, <1>16, <1>17 DEF Grown

LEMMA SpellsBuild ==
  ASSUME NEW T, Tells(T), IsText(T, heap), Build
  PROVE  \E T2 : IsText(T2, heap') /\ Typed(T2, heap') /\ Speaks(T2, heap', frames', consumed', it')
<1>1. Here.stage \in Simple \/ Here.stage \in Compound
  BY DEF Build, At, Here
<1>2. CASE Here.stage \in Simple /\ Here.gobble
  BY <1>2, SpellsPending
<1>3. CASE ~(Here.stage \in Simple /\ Here.gobble)
  BY <1>1, <1>3, SpellsReturned
<1> QED
  BY <1>2, <1>3

\* The text of a simple statement does not depend on what is behind it.
LEMMA SimpleEnds ==
  ASSUME NEW T, IsText(T, heap), NEW n \in 1..Len(heap), heap[n].kind \in Simple, NEW end \in Ends
  PROVE  T[n][end] = T[n]["any"]
<1>1. \A e \in Ends : T[n][e] = TextOf(T, heap, heap[n].kind, heap[n].kids, e)
  <2> DEFINE D(m) == [e \in Ends |-> TextOf(T, heap, heap[m].kind, heap[m].kids, e)]
  <2>1. T = [m \in 1..Len(heap) |-> D(m)]
    BY DEF IsText
  <2> HIDE DEF D
  <2>2. T[n] = D(n)
    BY <2>1
  <2> QED
    BY <2>2 DEF D
<1>2. \A k : \A e \in Ends : TextOf(T, heap, heap[n].kind, k, e) = TextOf(T, heap, heap[n].kind, k, "any")
  <2> DEFINE kind == heap[n].kind
  <2>1. kind \in {"Return", "Assignment", "VariableDeclaration"}
    BY DEF Simple
  <2> HIDE DEF kind
  <2>2. ASSUME NEW k, NEW e PROVE TextOf(T, heap, kind, k, e) = TextOf(T, heap, kind, k, "any")
    <3>1. CASE kind = "Return"
      BY <3>1 DEF TextOf
    <3>2. CASE kind = "Assignment"
      BY <3>2 DEF TextOf
    <3>3. CASE kind = "VariableDeclaration"
      BY <3>3 DEF TextOf
    <3> QED
      BY <2>1, <3>1, <3>2, <3>3
  <2> QED
    BY <2>2 DEF kind
<1> QED
  BY <1>1, <1>2, EndsList

\* The semicolon was found.
LEMMA SpellsGobble ==
  ASSUME NEW T, Tells(T), IsText(T, heap), GobbleSemicolon
  PROVE  Speaks(T, heap', frames', consumed', it')
<1> DEFINE L == Len(frames)
           p == frames[L - 1]
           g == frames'[Len(frames')]
           n == Here.parts[1]
           B == T[n]["any"]
           X == T[n]["any"] ** Tok(";")
<1>1. Here.stage = "semicolon" /\ it = ";" /\ Return(n) /\ Advance /\ heap' = heap
  BY DEF GobbleSemicolon, At, Here
<1>2. /\ Sound(frames, heap) /\ Speaks(T, heap, frames, consumed, it)
      /\ Setting(T, heap, T, heap, frames, it) /\ Continues(T, heap, T, heap)
      /\ L \in Nat /\ L > 0 /\ Here = frames[L] /\ FrameOK(Here, heap) /\ WorksWell(Here)
      /\ Len(heap) \in Nat
  BY TellsHere DEF Continues
<1>3. n \in 1..Len(heap) /\ heap[n].kind \in Simple /\ Here.gobble
  BY <1>1, <1>2 DEF FrameOK, WorksWell
<1>4. n \in Nat /\ Len(heap) >= Len(heap)
  BY <1>2, <1>3
<1>5. Here.stage \notin {"statements", "statement", "target"}
  BY <1>1
<1>6. Takes(T, heap, p, g, n)
  <2> HIDE DEF n
  <2>1. Takes(T, heap', p, g, n)
    BY <1>1, <1>2, <1>3, <1>4, <1>5, ReturnTakes
  <2> QED
    BY <1>1, <2>1
<1>7. /\ L > 1 /\ Len(frames') = L - 1
      /\ \A j \in 1..(L - 2) : frames'[j] = frames[j]
      /\ g.stage = p.stage /\ g.gobble = p.gobble /\ WorksWell(g)
      /\ p.stage \in Collecting => g.list = Append(p.list, n)
  <2> HIDE DEF n
  <2> QED
    BY <1>1, <1>4, <1>5, ReturnWell
<1>8. p.stage \in Suspended /\ Fits(p, Here) /\ WaitsWell(frames, it, L - 1)
  BY <1>5, WaitsHere
<1>9. p.stage \in {"statements", "block_body", "initializers", "Block"}
  BY <1>1, <1>3, <1>8 DEF Suspended, Fits, Bare, Branching
<1>10. Spoken(T, heap, frames, "any") = B
  <2>1. Said(T, heap, Here, "any") = B
    <3> DEFINE h == Here
    <3>1. h.stage = "semicolon"
      BY <1>1
    <3> HIDE DEF h
    <3>2. Said(T, heap, h, "any") = T[h.parts[1]]["any"]
      BY <3>1, SaidPending
    <3> QED
      BY <3>2 DEF h
  <2>2. ~Braceless(frames)
    BY <1>1, <1>2 DEF Braceless
  <2> QED
    BY <1>2, <2>1, <2>2 DEF Spoken
<1>11. \A end \in Ends : Sentence(T, heap, n, end) = X
  BY <1>3, SimpleEnds DEF Sentence
<1> HIDE DEF n, B, X
<1>12. X \in Languages
  <2>1. B \in Languages /\ Tok(";") \in Languages
    BY <1>2, <1>3, FixedType, SymbolList, EndsList DEF Continues, B
  <2> QED
    BY <2>1, BehindType DEF X, B
<1>13. ASSUME NEW end \in Ends PROVE Waiting(T, heap, p) ** X \subseteq Spoken(T, heap, frames', end)
  <2>1. CASE p.stage \in {"statements", "block_body", "initializers"}
    <3>1. Said(T, heap, g, end) = Waiting(T, heap, p) ** Sentence(T, heap, n, "any")
      <4> HIDE DEF p, g
      <4> QED
        BY <1>6, <2>1, TakesList DEF p
    <3>2. Said(T, heap, g, end) \subseteq Spoken(T, heap, frames', end)
      BY SaidSpoken
    <3> QED
      BY <1>11, <3>1, <3>2, EndsList
  <2>2. CASE p.stage = "Block"
    <3>1. p.list = <<>> /\ L - 1 > 1 /\ frames[L - 1 - 1].stage \in {"otherwise", "If"}
      BY <1>8, <2>2 DEF WaitsWell
    <3>2. g.list = <<n>> /\ g.stage = "Block"
      BY <1>7, <2>2, <3>1 DEF Collecting
    <3>3. Braceless(frames')
      <4>1. frames'[Len(frames') - 1].stage \in {"otherwise", "If"} /\ Len(frames') > 1
        <5>1. L - 2 \in 1..(L - 2) /\ Len(frames') - 1 = L - 2 /\ L - 1 - 1 = L - 2
          BY <1>2, <1>7, <3>1
        <5> QED
          BY <1>7, <3>1, <5>1
      <4>2. Len(g.list) = 1
        BY <3>2
      <4> QED
        BY <3>2, <4>1, <4>2 DEF Braceless
    <3>4. Sentence(T, heap, g.list[1], end) \subseteq Spoken(T, heap, frames', end)
      BY <3>3 DEF Spoken
    <3>5. g.list[1] = n
      BY <3>2
    <3>6. Waiting(T, heap, p) = {<<>>}
      <4> HIDE DEF p
      <4> QED
        BY <2>2, WaitingBranch DEF p
    <3>7. {<<>>} ** X = X
      BY <1>12, Silent
    <3> QED
      BY <1>11, <3>4, <3>5, <3>6, <3>7
  <2> QED
    BY <1>9, <2>1, <2>2
<1>14. \A end \in Ends : Waiting(T, heap, p) ** (Spoken(T, heap, frames, "any") ** Tok(";"))
                           \subseteq Spoken(T, heap, frames', end)
  BY <1>10, <1>13 DEF X, B
<1>15. ";" \in Symbols /\ consumed' = Append(consumed, ";")
  BY <1>1, SymbolList DEF Advance, AdvanceTo
<1> HIDE DEF p, g, L
<1>16. Speaks(T, heap, frames', Append(consumed, ";"), it')
  BY <1>2, <1>7, <1>14, <1>15, SpeaksReadReturn DEF p, g, L
<1> QED
  BY <1>1, <1>15, <1>16

\* A parameter is made, and the comma behind it read if there is one.
LEMMA SpellsParameter ==
  ASSUME NEW T, Tells(T), IsText(T, heap), BuildParameter
  PROVE  \E T2 : IsText(T2, heap') /\ Typed(T2, heap') /\ Speaks(T2, heap', frames', consumed', it')
<1> DEFINE L == Len(frames)
           p == frames[L - 1]
           g == frames'[Len(frames')]
           k == <<>>
           c == "FunctionParameter"
<1>1. Here.stage = c /\ heap' = Append(heap, Node(c, k)) /\ Return(Fresh)
  BY DEF BuildParameter, At, Here
<1>2. /\ Sound(frames, heap) /\ Speaks(T, heap, frames, consumed, it)
      /\ L \in Nat /\ L > 0 /\ Here = frames[L]
  BY TellsHere
<1>3. c \in Kinds /\ k \in Seq(1..Len(heap))
  BY DEF Kinds
<1>4. PICK T2 : Grown(T, T2, c, k)
  <2> HIDE DEF k, c
  <2> QED
    BY <1>1, <1>3, MakesText
<1>5. Sound(frames', heap')
  BY <1>2, SoundParameter
<1>6. Continues(T2, heap', T2, heap')
  BY <1>4, <1>5, GrownItself
<1>7. Here.stage \notin {"statements", "statement", "target"}
  BY <1>1
<1>8. Fresh \in 1..Len(heap') /\ Len(heap') >= Len(heap) /\ Fresh \in Nat
  <2>1. Len(heap) \in Nat /\ Len(heap') = Len(heap) + 1 /\ Fresh = Len(heap) + 1
    <3> HIDE DEF k, c
    <3> QED
      BY <1>1, <1>2, <1>3, FreshNumber, SoundTop, HeapGrows DEF Made
  <2> QED
    BY <2>1
<1>9. Takes(T2, heap', p, g, Fresh)
  BY <1>1, <1>6, <1>7, <1>8, ReturnTakes
<1>10. /\ L > 1 /\ Len(frames') = L - 1
       /\ \A j \in 1..(L - 2) : frames'[j] = frames[j]
       /\ g.stage = p.stage /\ g.gobble = p.gobble /\ WorksWell(g)
  BY <1>1, <1>7, <1>8, ReturnWell
<1>11. p.stage = "parameters"
  <2>1. Fits(p, Here)
    BY <1>7, WaitsHere
  <2> QED
    BY <1>1, <2>1 DEF Fits, Bare
<1>12. \A end : Spoken(T, heap, frames, end) = Declared
  <2> TAKE end
  <2>1. ~Braceless(frames)
    BY <1>1, <1>2 DEF Braceless
  <2>2. Here.stage \in Plain
    BY <1>1 DEF Plain
  <2>3. Said(T, heap, Here, end) = Declared
    BY <1>1, <2>2, SaidNodes, PlainIs
  <2> QED
    BY <1>2, <2>1, <2>3 DEF Spoken
<1>13. Declared \subseteq Parameter /\ Declared ** Tok(",") \subseteq Parameter
  <2> DEFINE C == {<<>>} \cup Tok(",")
  <2>1. Parameter = Declared ** C
    BY DEF Parameter, Declared
  <2>2. Declared ** {<<>>} = Declared
    BY FixedType, Silent
  <2>3. Declared ** {<<>>} \subseteq Declared ** C /\ Declared ** Tok(",") \subseteq Declared ** C
    <3>1. {<<>>} \subseteq C /\ Tok(",") \subseteq C
      OBVIOUS
    <3> HIDE DEF C
    <3> QED
      BY <3>1, Monotone
  <2> QED
    BY <2>1, <2>2, <2>3
<1>14. \A end : Waiting(T2, heap', p) ** Parameter \subseteq Spoken(T2, heap', frames', end)
  <2> TAKE end
  <2>1. Said(T2, heap', g, end) = Waiting(T2, heap', p) ** Parameter
    <3> HIDE DEF p, g
    <3> QED
      BY <1>9, <1>11, TakesParameter DEF p
  <2> QED
    BY <2>1, SaidSpoken
<1>15. Setting(T, heap, T2, heap', frames, it)
  BY <1>4 DEF Grown
<1> HIDE DEF p, g, L, k, c
<1>16. Speaks(T2, heap', frames', consumed', it')
  <2> DEFINE W == Waiting(T2, heap', p)
  <2>1. CASE it = ","
    <3>1. W ** (Declared ** Tok(",")) \subseteq W ** Parameter
      <4> HIDE DEF W
      <4> QED
        BY <1>13, Monotone
    <3>2. \A end \in Ends : W ** (Spoken(T, heap, frames, "any") ** Tok(",")) \subseteq Spoken(T2, heap', frames', end)
      BY <1>12, <1>14, <3>1
    <3>3. "," \in Symbols /\ consumed' = Append(consumed, ",")
      BY <2>1, SymbolList DEF BuildParameter, Advance, AdvanceTo
    <3>4. Speaks(T2, heap', frames', Append(consumed, ","), it')
      BY <1>2, <1>10, <1>15, <3>2, <3>3, SpeaksReadReturn DEF p, g, L
    <3> QED
      BY <3>3, <3>4
  <2>2. CASE it # ","
    <3>1. W ** Declared \subseteq W ** Parameter
      <4> HIDE DEF W
      <4> QED
        BY <1>13, Monotone
    <3>2. \A end \in Closings(it) : \E e \in Closings(it) :
            W ** Spoken(T, heap, frames, e) \subseteq Spoken(T2, heap', frames', end)
      BY <1>12, <1>14, <3>1
    <3>3. consumed' = consumed /\ it' = it
      BY <2>2 DEF BuildParameter, Stay
    <3>4. Speaks(T2, heap', frames', consumed, it)
      BY <1>2, <1>10, <1>15, <3>2, SpeaksReturn DEF p, g, L
    <3> QED
      BY <3>3, <3>4
  <2> QED
    BY <2>1, <2>2
<1> QED
  BY <1>4, <1>16 DEF Grown

---------------------------------------------------------------------------
(* The theorem about the text, from its invariant.                         *)

\* The texts of the nodes say what was consumed.
Spelled == \E T : /\ IsText(T, heap)
                  /\ Typed(T, heap)
                  /\ Speaks(T, heap, frames, consumed, it)
Unharmed == pc \notin {"threw", "refused"}
SpellsInv == Unharmed => /\ Sound(frames, heap)
                         /\ Spelled
                         /\ pc = "done" => Here.stage = "statements"

\* No exception comes without a step that throws, and none goes.
LEMMA StaysUnharmed ==
  ASSUME [Next]_vars, Unharmed'
  PROVE  Unharmed /\ ~Throws /\ ~PassesRaw
<1>1. ~Throws /\ ~PassesRaw
  BY ThrowsHow DEF Unharmed, PassesRaw, ThrowRaw
<1>2. Step => Unharmed
  BY RunningNow DEF Unharmed
<1>3. Finished \/ UNCHANGED vars => Unharmed
  BY DEF Finished, vars, Unharmed
<1> QED
  BY <1>1, <1>2, <1>3 DEF Next

LEMMA SpelledStep == SpellsInv /\ [Next]_vars /\ Unharmed' => Spelled'
<1> SUFFICES ASSUME SpellsInv, [Next]_vars, Unharmed' PROVE Spelled'
  OBVIOUS
<1>0. Unharmed /\ ~Throws
  BY StaysUnharmed
<1>1. PICK T : IsText(T, heap) /\ Typed(T, heap) /\ Speaks(T, heap, frames, consumed, it)
  BY <1>0 DEF SpellsInv, Spelled
<1>2. Tells(T)
  BY <1>0, <1>1 DEF Tells, SpellsInv
\* What every step comes to: the nodes after it have texts that say what was consumed.
<1> DEFINE Retold == \E T2 : /\ IsText(T2, heap')
                         /\ Typed(T2, heap')
                         /\ Speaks(T2, heap', frames', consumed', it')
<1>3. Retold => Spelled'
  BY DEF Spelled
<1>4. heap' = heap /\ Speaks(T, heap', frames', consumed', it') => Retold
  BY <1>1
<1>5. heap' = heap /\ frames' = frames /\ consumed' = consumed /\ it' = it => Retold
  BY <1>1
<1>6. CASE ExpectToken \/ ReadSecret \/ DispatchKeyword \/ Dispatch
  <2>1. Speaks(T, heap', frames', consumed', it')
    BY <1>2, <1>6, SpellsToken, SpellsSecret, SpellsKeyword, SpellsDispatch
  <2>2. heap' = heap
    BY <1>6 DEF ExpectToken, ReadSecret, DispatchKeyword, Dispatch
  <2> QED
    BY <1>3, <1>4, <2>1, <2>2
<1>7. CASE OpenArray \/ Initialize \/ CloseBlock \/ CloseParameters \/ ReturnNothing \/ DeclareOnly
  <2>1. Speaks(T, heap', frames', consumed', it')
    BY <1>2, <1>7, SpellsRead, SpellsNothing, SpellsDeclaration
  <2>2. heap' = heap
    BY <1>7 DEF OpenArray, Initialize, CloseBlock, CloseParameters, ReturnNothing, DeclareOnly
  <2> QED
    BY <1>3, <1>4, <2>1, <2>2
<1>8. CASE Otherwise \/ EndUpdates \/ GobbleSemicolon \/ Branch
  <2>1. Speaks(T, heap', frames', consumed', it')
    BY <1>1, <1>2, <1>8, SpellsOtherwise, SpellsUpdates, SpellsGobble, SpellsBranch
  <2>2. heap' = heap
    BY <1>8 DEF Otherwise, EndUpdates, GobbleSemicolon, Branch
  <2> QED
    BY <1>3, <1>4, <2>1, <2>2
<1>9. CASE NextStatement \/ NextParameter \/ Body \/ FirstListed \/ NextListed
  <2>1. Speaks(T, heap', frames', consumed', it')
    BY <1>2, <1>9, SpellsStatement, SpellsNextParameter, SpellsBody, SpellsFirst, SpellsNext
  <2>2. heap' = heap
    BY <1>9 DEF NextStatement, NextParameter, Body, FirstListed, NextListed
  <2> QED
    BY <1>3, <1>4, <2>1, <2>2
<1>10. CASE ReadExpression \/ ReadTarget \/ DeclareVariable
  <2>1. Retold
    BY <1>1, <1>2, <1>10, SpellsExpression, SpellsTarget, SpellsVariable
  <2> QED
    BY <1>3, <2>1
<1>11. CASE NoInitializer \/ EndInitializers \/ WrapUpdates
  <2>1. Retold
    BY <1>1, <1>2, <1>11, SpellsNone, SpellsInitializers, SpellsWrapped
  <2> QED
    BY <1>3, <2>1
<1>12. CASE Build \/ BuildParameter
  <2>1. Retold
    BY <1>1, <1>2, <1>12, SpellsBuild, SpellsParameter
  <2> QED
    BY <1>3, <2>1
<1>13. CASE Finish \/ Finished \/ UNCHANGED vars
  <2>1. heap' = heap /\ frames' = frames /\ consumed' = consumed /\ it' = it
    BY <1>13 DEF Finish, Finished, vars
  <2> QED
    BY <1>3, <1>5, <2>1
<1> QED
  BY <1>0, <1>6, <1>7, <1>8, <1>9, <1>10, <1>11, <1>12, <1>13 DEF Next, Step, Throws

\* parse() returns when no production but its own is active.
LEMMA DoneAtTop ==
  (pc = "done" => Here.stage = "statements") /\ [Next]_vars
    => (pc = "done" => Here.stage = "statements")'
<1> SUFFICES ASSUME pc = "done" => Here.stage = "statements", [Next]_vars, pc' = "done"
             PROVE  Here.stage' = "statements"
  OBVIOUS
<1>1. CASE Finish
  BY <1>1 DEF Finish, At, Here
<1>2. CASE Finished \/ UNCHANGED vars
  BY <1>2 DEF Finished, vars, Here
<1>3. CASE Step /\ ~Finish
  <2>1. pc' # "done"
    <3>1. CASE ExpectToken \/ ReadSecret \/ ReadExpression \/ ReadTarget \/ DispatchKeyword \/ Dispatch
               \/ Build \/ GobbleSemicolon \/ ReturnNothing \/ DeclareVariable \/ OpenArray
               \/ DeclareOnly \/ Initialize
      BY <3>1 DEF ExpectToken, ReadSecret, ReadExpression, ReadTarget, DispatchKeyword, Dispatch, Build,
                  GobbleSemicolon, ReturnNothing, DeclareVariable, OpenArray, DeclareOnly, Initialize, At
    <3>2. CASE NextStatement \/ CloseBlock \/ Branch \/ Otherwise \/ NextParameter \/ BuildParameter
               \/ CloseParameters \/ Body \/ NoInitializer \/ FirstListed \/ NextListed
               \/ EndInitializers \/ EndUpdates \/ WrapUpdates
      BY <3>2 DEF NextStatement, CloseBlock, Branch, Otherwise, NextParameter, BuildParameter,
                  CloseParameters, Body, NoInitializer, FirstListed, NextListed, EndInitializers,
                  EndUpdates, WrapUpdates, At
    <3>3. CASE Throws
      BY <3>3, ThrowsHow
    <3> QED
      BY <1>3, <3>1, <3>2, <3>3 DEF Step, Throws
  <2> QED
    BY <2>1
<1> QED
  BY <1>1, <1>2, <1>3 DEF Next

LEMMA SpelledInit == Init => SpellsInv
<1> SUFFICES ASSUME Init PROVE SpellsInv
  OBVIOUS
<1> DEFINE f == Frame("statements", FALSE)
           T == [n \in 1..0 |-> 0]
<1>1. heap = <<>> /\ frames = <<f>> /\ consumed = <<>> /\ pc = "parse"
  BY DEF Init
<1>2. f.stage = "statements" /\ f.parts = <<>> /\ f.list = <<>>
  BY DEF Frame
<1>3. Len(heap) = 0 /\ Len(frames) = 1 /\ frames[1] = f /\ Len(frames) - 1 = 0
  BY <1>1
<1>4. IsText(T, heap)
  <2>1. 1..Len(heap) = 1..0 /\ \A n \in 1..0 : FALSE
    BY <1>3
  <2> QED
    BY <2>1 DEF IsText
<1>5. Typed(T, heap)
  BY <1>3 DEF Typed
<1> HIDE DEF f, T
<1>6. Formed(frames, it)
  <2>1. WorksWell(f)
    <3>1. Len(f.parts) = 0
      BY <1>2
    <3>2. 0 \in Members(f.stage)
      BY <1>2 DEF Members, One, Two
    <3> QED
      BY <1>2, <3>1, <3>2 DEF WorksWell, Lists
  <2> QED
    BY <1>3, <2>1 DEF Formed
<1>7. ASSUME NEW end PROVE consumed \in Heard(T, heap, frames, end)
  <2>1. Outer(T, heap, frames) = {<<>>}
    BY <1>3, WaitingNone DEF Outer
  <2>2. Said(T, heap, f, end) = {<<>>}
    <3>1. Said(T, heap, f, end) = Followed({<<>>}, Sentences(T, heap, f.list))
      BY <1>2, SaidLists
    <3> QED
      BY <1>2, <3>1, ListNone
  <2>3. <<>> \in {<<>>} ** {<<>>}
    BY FixedType, Silent
  <2>4. Outer(T, heap, frames) ** Said(T, heap, frames[Len(frames)], end) \subseteq Heard(T, heap, frames, end)
    BY HeardPlain
  <2> QED
    BY <1>1, <1>3, <2>1, <2>2, <2>3, <2>4
<1>8. Speaks(T, heap, frames, consumed, it)
  BY <1>6, <1>7 DEF Speaks
<1>9. Sound(frames, heap)
  BY SoundInit
<1> QED
  BY <1>1, <1>4, <1>5, <1>8, <1>9 DEF SpellsInv, Spelled

LEMMA SpellsStep == SpellsInv /\ [Next]_vars => SpellsInv'
<1> SUFFICES ASSUME SpellsInv, [Next]_vars, Unharmed'
             PROVE  (Sound(frames, heap) /\ Spelled /\ (pc = "done" => Here.stage = "statements"))'
  BY DEF SpellsInv
<1>1. Sound(frames, heap) /\ (pc = "done" => Here.stage = "statements") /\ ~PassesRaw
  BY StaysUnharmed DEF SpellsInv
<1>2. (pc = "done" => Here.stage = "statements")'
  BY <1>1, DoneAtTop
<1> QED
  BY <1>1, <1>2, SpelledStep, SoundStep

LEMMA SpelledTree == SpellsInv => TreeSpellsText
<1> SUFFICES ASSUME SpellsInv, pc = "done"
             PROVE  consumed \in Followed({<<>>}, Sentences(Texts, heap, frames[1].list))
  BY DEF TreeSpellsText
<1>0. Unharmed
  BY DEF Unharmed
<1>1. PICK T : IsText(T, heap) /\ Typed(T, heap) /\ Speaks(T, heap, frames, consumed, it)
  BY <1>0 DEF SpellsInv, Spelled
<1>2. Tells(T)
  BY <1>0, <1>1 DEF Tells, SpellsInv
<1>3. /\ Sound(frames, heap) /\ Continues(T, heap, T, heap) /\ Here = frames[Len(frames)]
      /\ Here.list \in Seq(1..Len(heap))
  BY <1>2, TellsHere
<1>4. Here.stage = "statements" /\ Len(frames) = 1
  BY <1>0, <1>3, Now DEF SpellsInv
<1> DEFINE F == Followed({<<>>}, Sentences(T, heap, Here.list))
<1>5. Texts = T
  BY <1>1, <1>3, SoundTop, TextsAre
<1>6. consumed \in Heard(T, heap, frames, "any")
  BY <1>1, ClosingEnds DEF Speaks
<1>7. Heard(T, heap, frames, "any") = Outer(T, heap, frames) ** Said(T, heap, Here, "any")
  BY <1>3, <1>4, HeardPlain
<1>8. Outer(T, heap, frames) = {<<>>}
  <2>1. Len(frames) - 1 = 0
    BY <1>4
  <2> QED
    BY <2>1, WaitingNone DEF Outer
<1>9. Said(T, heap, Here, "any") = F
  BY <1>4, SaidLists
<1>10. F \in Languages
  BY <1>3, FixedType, ListSame
<1> HIDE DEF F
<1>11. {<<>>} ** F = F
  BY <1>10, Silent
<1>12. consumed \in F
  BY <1>6, <1>7, <1>8, <1>9, <1>11
<1> QED
  BY <1>3, <1>4, <1>5, <1>12 DEF F

\* A text that is accepted is a text of the tree that parse() returns.
THEOREM AcceptedTreeSpellsText == Spec => []TreeSpellsText
<1>1. Init => SpellsInv
  BY SpelledInit
<1>2. SpellsInv /\ [Next]_vars => SpellsInv'
  BY SpellsStep
<1>3. SpellsInv => TreeSpellsText
  BY SpelledTree
<1> QED
  BY <1>1, <1>2, <1>3, PTL DEF Spec
=============================================================================
