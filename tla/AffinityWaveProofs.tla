-------------------------- MODULE AffinityWaveProofs --------------------------
(***************************************************************************)
(* Theorems about AffinityWave for any number of lanes, layers and passes. *)
(***************************************************************************)
EXTENDS AffinityWave, FunctionTheorems, FiniteSetTheorems, TLAPS

-----------------------------------------------------------------------------
(* The program of a pass, and the order on it.                             *)

Diagonals == 0 .. LastDiagonal
Cell(p, d, j) == [pass |-> p, lane |-> j, layer |-> LayerOf(d, j)]

OpsAt(p, d) == Corridors(p, d) \cup Graphs(p, d) \cup Requests(p, d) \cup Owners(p, d)
                 \cup Returns(p, d) \cup Sums(p, d) \cup Posts(p, d)
Ops(p) == UNION {OpsAt(p, d) : d \in Diagonals}

Legal(x) ==
    /\ x.diagonal \in Diagonals
    /\ x = Op(x.do, x.pass, x.diagonal, x.n, x.o)
    /\ \/ x.do = "corridor" /\ x.n \in Active(x.diagonal) \ {0} /\ x.o = x.n - 1
       \/ x.do = "copied" /\ x.n \in Active(x.diagonal) \ {0} /\ x.o = x.n
       \/ x.do \in {"pre", "source", "pack", "input", "sum", "post"}
            /\ x.n \in Active(x.diagonal) /\ x.o = x.n
       \/ x.do = "send" /\ x.n \in Active(x.diagonal) /\ x.o \in Lanes /\ x.o # x.n
       \/ x.do \in {"compute", "output"} /\ x.n \in GroupsOf(x.diagonal) /\ x.o \in Lanes
       \/ x.do = "shared" /\ SharedService /\ x.n \in Active(x.diagonal) /\ x.o = x.n
       \/ x.do = "return" /\ x.n \in Active(x.diagonal) /\ x.o \in Lanes

-----------------------------------------------------------------------------
(* Numbers.                                                                *)

\* What the constants are; there is a lane, and a group for every lane.
LEMMA ConstantFact ==
  /\ NLanes \in Nat \ {0} /\ NLayers \in Nat \ {0} /\ Passes \in Nat \ {0}
  /\ LaneStagger \in Nat \ {0} /\ GroupCells \in Nat \ {0} /\ GroupCells <= NLanes
  /\ LastDiagonal \in Nat
  /\ Lanes \subseteq Nat /\ Groups = Lanes /\ 0 \in Lanes /\ IsFiniteSet(Lanes)
  <1>1. /\ NLanes \in Nat \ {0} /\ NLayers \in Nat \ {0} /\ Passes \in Nat \ {0}
        /\ LaneStagger \in Nat \ {0} /\ GroupCells \in Nat \ {0} /\ GroupCells <= NLanes
    BY WaveAssumption
  <1>2. LaneStagger * (NLanes - 1) \in Nat
    BY <1>1
  <1>3. LastDiagonal \in Nat
    BY <1>1, <1>2 DEF LastDiagonal
  <1>4. Lanes \subseteq Nat /\ Groups = Lanes /\ 0 \in Lanes /\ IsFiniteSet(Lanes)
    BY <1>1, FS_Interval DEF Lanes, Groups
  <1>5. QED
    BY <1>1, <1>3, <1>4

\* The active lanes of a diagonal are finitely many, each with a layer of its own.
LEMMA LayerFact ==
  ASSUME NEW d \in Diagonals
  PROVE  /\ d \in Nat /\ \A j \in Lanes : LayerOf(d, j) \in Int
         /\ Active(d) \subseteq Lanes /\ IsFiniteSet(Active(d))
         /\ \A j \in Active(d) : LayerOf(d, j) \in Layers
  <1>1. d \in Nat
    BY ConstantFact DEF Diagonals
  <1>2. Active(d) \subseteq Lanes
    BY DEF Active
  <1>3. QED
    BY <1>1, <1>2, ConstantFact, FS_Subset DEF LayerOf, Active

\* Division with remainder.
LEMMA DivFact ==
  ASSUME NEW a \in Nat, NEW b \in Nat \ {0}
  PROVE  /\ a \div b \in Nat /\ a \div b <= a /\ a % b \in 0 .. b - 1
         /\ a = b * (a \div b) + (a % b)
  OBVIOUS

\* An active cell has a place: its group, and its index in the group.
LEMMA PositionFact ==
  ASSUME NEW d \in Diagonals, NEW j \in Active(d)
  PROVE  /\ Position(d, j) \in Nat /\ GroupOf(d, j) \in Groups
         /\ InGroup(d, j) \in 0 .. GroupCells - 1
         /\ Position(d, j) = GroupCells * GroupOf(d, j) + InGroup(d, j)
         /\ GroupOf(d, j) \in GroupsOf(d) /\ j \in Members(d, GroupOf(d, j))
  <1> DEFINE B == {i \in Active(d) : i < j}
  <1>1. j \in Nat /\ j \in 0 .. NLanes - 1
    BY LayerFact, ConstantFact DEF Lanes
  <1>2. B \subseteq 0 .. j - 1
    <2>1. Active(d) \subseteq Nat
      BY LayerFact, ConstantFact
    <2>2. \A i \in Nat : i < j => i \in 0 .. j - 1
      BY <1>1
    <2>3. QED
      BY <2>1, <2>2
  <1>3. IsFiniteSet(0 .. j - 1) /\ Cardinality(0 .. j - 1) = j
    <2>1. PICK n \in Int : n = j - 1 /\ n + 1 = j
      BY <1>1
    <2>2. CASE j = 0
      BY <2>1, <2>2, FS_EmptySet
    <2>3. CASE j > 0
      <3>1. /\ IsFiniteSet(0 .. n)
            /\ Cardinality(0 .. n) = IF 0 > n THEN 0 ELSE n - 0 + 1
        BY FS_Interval
      <3>2. QED
        BY <1>1, <2>1, <2>3, <3>1
    <2>4. QED
      BY <1>1, <2>2, <2>3
  <1>4. Cardinality(B) \in Nat /\ Cardinality(B) <= j
    <2> HIDE DEF B
    <2>1. QED
      BY <1>2, <1>3, FS_Subset, FS_CardinalityType
  <1>5. Position(d, j) = Cardinality(B)
    BY DEF Position
  <1>6. PICK a \in Nat : a = Position(d, j) /\ a <= j
    BY <1>4, <1>5
  <1>7. /\ GroupOf(d, j) \in Nat /\ GroupOf(d, j) <= a /\ InGroup(d, j) \in 0 .. GroupCells - 1
        /\ a = GroupCells * GroupOf(d, j) + InGroup(d, j)
    BY <1>6, DivFact, ConstantFact DEF GroupOf, InGroup
  <1>8. GroupOf(d, j) \in Groups
    BY <1>1, <1>6, <1>7, ConstantFact DEF Groups
  <1>9. QED
    BY <1>6, <1>7, <1>8 DEF GroupsOf, Members

\* A group has one cell at each index.
LEMMA SameCell ==
  ASSUME NEW d \in Diagonals, NEW j \in Active(d), NEW k \in Active(d),
         GroupOf(d, j) = GroupOf(d, k), InGroup(d, j) = InGroup(d, k)
  PROVE  j = k
  <1>1. Position(d, j) = Position(d, k)
    BY PositionFact
  <1>2. j \in Nat /\ k \in Nat
    BY LayerFact, ConstantFact
  <1>3. ASSUME NEW a \in Active(d), NEW b \in Active(d), a < b PROVE Position(d, a) # Position(d, b)
    <2> DEFINE A == {i \in Active(d) : i < a}
               B == {i \in Active(d) : i < b}
    <2>1. a \in Nat /\ b \in Nat /\ Active(d) \subseteq Nat /\ IsFiniteSet(Active(d))
      BY LayerFact, ConstantFact
    <2>2. A \subseteq B
      BY <1>3, <2>1
    <2>3. a \in B /\ a \notin A
      BY <1>3, <2>1
    <2>4. IsFiniteSet(B)
      BY <2>1, FS_Subset
    <2>5. Position(d, a) = Cardinality(A) /\ Position(d, b) = Cardinality(B)
      BY DEF Position
    <2> HIDE DEF A, B
    <2>6. QED
      BY <2>2, <2>3, <2>4, <2>5, FS_Subset
  <1>4. QED
    BY <1>1, <1>2, <1>3

-----------------------------------------------------------------------------
(* The operations of a pass.                                               *)

\* The fields of an operation.
LEMMA OpFact ==
  ASSUME NEW k, NEW p, NEW d, NEW n, NEW o
  PROVE  /\ Op(k, p, d, n, o).do = k /\ Op(k, p, d, n, o).pass = p
         /\ Op(k, p, d, n, o).diagonal = d
         /\ Op(k, p, d, n, o).n = n /\ Op(k, p, d, n, o).o = o
  BY DEF Op

\* What each phase issues.
LEMMA PhaseFact ==
  ASSUME NEW p, NEW d \in Diagonals, NEW x
  PROVE  /\ x \in Corridors(p, d) \cup Graphs(p, d) <=>
              Legal(x) /\ x.pass = p /\ x.diagonal = d /\ x.do \in {"corridor", "copied", "pre"}
         /\ x \in Requests(p, d) <=>
              Legal(x) /\ x.pass = p /\ x.diagonal = d /\ x.do \in {"source", "pack", "send", "input"}
         /\ x \in Owners(p, d) <=>
              Legal(x) /\ x.pass = p /\ x.diagonal = d /\ x.do \in {"compute", "shared"}
         /\ x \in Returns(p, d) <=>
              Legal(x) /\ x.pass = p /\ x.diagonal = d /\ x.do \in {"return", "output"}
         /\ x \in Sums(p, d) <=> Legal(x) /\ x.pass = p /\ x.diagonal = d /\ x.do = "sum"
         /\ x \in Posts(p, d) <=> Legal(x) /\ x.pass = p /\ x.diagonal = d /\ x.do = "post"
  <1>1. x \in Corridors(p, d) \cup Graphs(p, d) <=>
              Legal(x) /\ x.pass = p /\ x.diagonal = d /\ x.do \in {"corridor", "copied", "pre"}
    <2>1. ASSUME x \in Corridors(p, d) \cup Graphs(p, d)
          PROVE  Legal(x) /\ x.pass = p /\ x.diagonal = d /\ x.do \in {"corridor", "copied", "pre"}
      BY <2>1, OpFact DEF Corridors, Graphs, Legal
    <2>2. ASSUME Legal(x), x.pass = p, x.diagonal = d, x.do \in {"corridor", "copied", "pre"}
          PROVE  x \in Corridors(p, d) \cup Graphs(p, d)
      BY <2>2 DEF Corridors, Graphs, Legal
    <2>3. QED
      BY <2>1, <2>2
  <1>2. x \in Requests(p, d) <=>
              Legal(x) /\ x.pass = p /\ x.diagonal = d /\ x.do \in {"source", "pack", "send", "input"}
    <2>1. ASSUME x \in Requests(p, d)
          PROVE  Legal(x) /\ x.pass = p /\ x.diagonal = d /\ x.do \in {"source", "pack", "send", "input"}
      <3>1. CASE \E k \in {"source", "pack", "input"}, j \in Active(d) : x = Op(k, p, d, j, j)
        BY <3>1, OpFact DEF Legal
      <3>2. CASE \E jo \in Active(d) \X Lanes : jo[1] # jo[2] /\ x = Op("send", p, d, jo[1], jo[2])
        BY <3>2, OpFact DEF Legal
      <3>3. QED
        BY <2>1, <3>1, <3>2 DEF Requests
    <2>2. ASSUME Legal(x), x.pass = p, x.diagonal = d, x.do \in {"source", "pack", "send", "input"}
          PROVE  x \in Requests(p, d)
      <3>1. CASE x.do = "send"
        <4>1. x.n \in Active(d) /\ x.o \in Lanes /\ x.n # x.o /\ x = Op("send", p, d, x.n, x.o)
          BY <2>2, <3>1 DEF Legal
        <4>2. PICK jo : jo = <<x.n, x.o>>
          OBVIOUS
        <4>3. jo \in {y \in Active(d) \X Lanes : y[1] # y[2]} /\ x = Op("send", p, d, jo[1], jo[2])
          BY <4>1, <4>2
        <4>4. QED
          BY <4>3 DEF Requests
      <3>2. CASE x.do # "send"
        BY <2>2, <3>2 DEF Requests, Legal
      <3>3. QED
        BY <3>1, <3>2
    <2>3. QED
      BY <2>1, <2>2
  <1>3. x \in Owners(p, d) <=>
              Legal(x) /\ x.pass = p /\ x.diagonal = d /\ x.do \in {"compute", "shared"}
    <2>1. ASSUME x \in Owners(p, d)
          PROVE  Legal(x) /\ x.pass = p /\ x.diagonal = d /\ x.do \in {"compute", "shared"}
      BY <2>1, OpFact DEF Owners, Legal
    <2>2. ASSUME Legal(x), x.pass = p, x.diagonal = d, x.do \in {"compute", "shared"}
          PROVE  x \in Owners(p, d)
      BY <2>2 DEF Owners, Legal
    <2>3. QED
      BY <2>1, <2>2
  <1>4. x \in Returns(p, d) <=>
              Legal(x) /\ x.pass = p /\ x.diagonal = d /\ x.do \in {"return", "output"}
    <2>1. ASSUME x \in Returns(p, d)
          PROVE  Legal(x) /\ x.pass = p /\ x.diagonal = d /\ x.do \in {"return", "output"}
      BY <2>1, OpFact DEF Returns, Legal
    <2>2. ASSUME Legal(x), x.pass = p, x.diagonal = d, x.do \in {"return", "output"}
          PROVE  x \in Returns(p, d)
      BY <2>2 DEF Returns, Legal
    <2>3. QED
      BY <2>1, <2>2
  <1>5. x \in Sums(p, d) <=> Legal(x) /\ x.pass = p /\ x.diagonal = d /\ x.do = "sum"
    <2>1. ASSUME x \in Sums(p, d) PROVE Legal(x) /\ x.pass = p /\ x.diagonal = d /\ x.do = "sum"
      BY <2>1, OpFact DEF Sums, Legal
    <2>2. ASSUME Legal(x), x.pass = p, x.diagonal = d, x.do = "sum" PROVE x \in Sums(p, d)
      BY <2>2 DEF Sums, Legal
    <2>3. QED
      BY <2>1, <2>2
  <1>6. x \in Posts(p, d) <=> Legal(x) /\ x.pass = p /\ x.diagonal = d /\ x.do = "post"
    <2>1. ASSUME x \in Posts(p, d) PROVE Legal(x) /\ x.pass = p /\ x.diagonal = d /\ x.do = "post"
      BY <2>1, OpFact DEF Posts, Legal
    <2>2. ASSUME Legal(x), x.pass = p, x.diagonal = d, x.do = "post" PROVE x \in Posts(p, d)
      BY <2>2 DEF Posts, Legal
    <2>3. QED
      BY <2>1, <2>2
  <1>7. QED
    BY <1>1, <1>2, <1>3, <1>4, <1>5, <1>6

\* An operation of the program has one of the kinds.
LEMMA LegalKind ==
  ASSUME NEW x, Legal(x)
  PROVE  x.do \in Kinds /\ x.diagonal \in Diagonals
  BY DEF Legal, Kinds

\* The program of a pass is the legal operations of that pass.
LEMMA OpsFact ==
  ASSUME NEW p, NEW x
  PROVE  x \in Ops(p) <=> Legal(x) /\ x.pass = p
  <1>1. ASSUME NEW d \in Diagonals
        PROVE  x \in OpsAt(p, d) <=> Legal(x) /\ x.pass = p /\ x.diagonal = d
    <2>1. Legal(x) => x.do \in Kinds
      BY LegalKind
    <2>2. QED
      BY <2>1, PhaseFact DEF OpsAt, Kinds
  <1>2. QED
    BY <1>1, LegalKind DEF Ops

\* The operations of lane j, of group g and between lane j and device o.
LEMMA LaneOps ==
  ASSUME NEW p, NEW d \in Diagonals, NEW j \in Active(d)
  PROVE  /\ \A k \in {"pre", "source", "pack", "input", "sum", "post"} : Op(k, p, d, j, j) \in Ops(p)
         /\ \A o \in Lanes : Op("return", p, d, j, o) \in Ops(p)
         /\ \A o \in Lanes : o # j => Op("send", p, d, j, o) \in Ops(p)
         /\ SharedService => Op("shared", p, d, j, j) \in Ops(p)
         /\ j # 0 => Op("corridor", p, d, j, j - 1) \in Ops(p) /\ Op("copied", p, d, j, j) \in Ops(p)
         /\ \A o \in Lanes : /\ Op("compute", p, d, GroupOf(d, j), o) \in Ops(p)
                             /\ Op("output", p, d, GroupOf(d, j), o) \in Ops(p)
  <1>1. \A k \in {"pre", "source", "pack", "input", "sum", "post"} : Op(k, p, d, j, j) \in Ops(p)
    <2>1. SUFFICES ASSUME NEW k \in {"pre", "source", "pack", "input", "sum", "post"}
                   PROVE  Op(k, p, d, j, j) \in Ops(p)
      OBVIOUS
    <2>2. Legal(Op(k, p, d, j, j))
      BY OpFact DEF Legal
    <2>3. QED
      BY <2>2, OpsFact, OpFact
  <1>2. ASSUME NEW o \in Lanes PROVE Op("return", p, d, j, o) \in Ops(p)
    <2>1. Legal(Op("return", p, d, j, o))
      BY OpFact DEF Legal
    <2>2. QED
      BY <2>1, OpsFact, OpFact
  <1>3. ASSUME NEW o \in Lanes, o # j PROVE Op("send", p, d, j, o) \in Ops(p)
    <2>1. Legal(Op("send", p, d, j, o))
      BY <1>3, OpFact DEF Legal
    <2>2. QED
      BY <2>1, OpsFact, OpFact
  <1>4. ASSUME SharedService PROVE Op("shared", p, d, j, j) \in Ops(p)
    <2>1. Legal(Op("shared", p, d, j, j))
      BY <1>4, OpFact DEF Legal
    <2>2. QED
      BY <2>1, OpsFact, OpFact
  <1>5. ASSUME j # 0 PROVE Op("corridor", p, d, j, j - 1) \in Ops(p) /\ Op("copied", p, d, j, j) \in Ops(p)
    <2>1. Legal(Op("corridor", p, d, j, j - 1)) /\ Legal(Op("copied", p, d, j, j))
      BY <1>5, OpFact DEF Legal
    <2>2. QED
      BY <2>1, OpsFact, OpFact
  <1>6. ASSUME NEW o \in Lanes
        PROVE  /\ Op("compute", p, d, GroupOf(d, j), o) \in Ops(p)
               /\ Op("output", p, d, GroupOf(d, j), o) \in Ops(p)
    <2>1. Legal(Op("compute", p, d, GroupOf(d, j), o)) /\ Legal(Op("output", p, d, GroupOf(d, j), o))
      BY PositionFact, OpFact DEF Legal
    <2>2. QED
      BY <2>1, OpsFact, OpFact
  <1>7. QED
    BY <1>1, <1>2, <1>3, <1>4, <1>5, <1>6

\* Lanes, groups and devices are numbers.
LEMMA LegalFact ==
  ASSUME NEW x, Legal(x)
  PROVE  /\ x.diagonal \in Diagonals /\ x.n \in Lanes /\ x.o \in Lanes
         /\ x.do \notin {"compute", "output"} =>
              x.n \in Active(x.diagonal) /\ GroupOf(x.diagonal, x.n) \in Groups
                /\ InGroup(x.diagonal, x.n) \in 0 .. GroupCells - 1
         /\ x.do \in {"compute", "output"} => x.n \in GroupsOf(x.diagonal)
  <1>1. x.diagonal \in Diagonals
    BY DEF Legal
  <1>2. Active(x.diagonal) \subseteq Lanes /\ GroupsOf(x.diagonal) \subseteq Lanes
    BY <1>1, LayerFact, ConstantFact DEF GroupsOf
  <1>3. x.n \in Lanes
    BY <1>2 DEF Legal
  <1>4. x.o \in Lanes
    <2>1. CASE x.do = "corridor"
      <3>1. x.n \in Lanes \ {0} /\ x.o = x.n - 1
        BY <1>2, <2>1 DEF Legal
      <3>2. QED
        BY <3>1, ConstantFact DEF Lanes
    <2>2. CASE x.do # "corridor"
      BY <1>2, <2>2 DEF Legal
    <2>3. QED
      BY <2>1, <2>2
  <1>5. x.do \notin {"compute", "output"} => x.n \in Active(x.diagonal)
    BY DEF Legal
  <1>6. x.do \in {"compute", "output"} => x.n \in GroupsOf(x.diagonal)
    BY DEF Legal
  <1>7. QED
    BY <1>1, <1>3, <1>4, <1>5, <1>6, PositionFact

-----------------------------------------------------------------------------
(* The order in which they are issued.                                     *)

\* The four components of a rank, by kind of operation.
LEMMA RankIs ==
  ASSUME NEW x
  PROVE  /\ x.do = "corridor" =>
              /\ Rank(x)[1] = 0 /\ Rank(x)[2] = x.n /\ Rank(x)[3] = 0 /\ Rank(x)[4] = 0
         /\ x.do = "copied" =>
              /\ Rank(x)[1] = 0 /\ Rank(x)[2] = x.n /\ Rank(x)[3] = 1 /\ Rank(x)[4] = 0
         /\ x.do = "pre" =>
              /\ Rank(x)[1] = 1 /\ Rank(x)[2] = x.n /\ Rank(x)[3] = 0 /\ Rank(x)[4] = 0
         /\ x.do = "source" =>
              /\ Rank(x)[1] = 2 /\ Rank(x)[2] = x.n /\ Rank(x)[3] = 0 /\ Rank(x)[4] = 0
         /\ x.do = "pack" =>
              /\ Rank(x)[1] = 2 /\ Rank(x)[2] = x.n /\ Rank(x)[3] = 1 /\ Rank(x)[4] = 0
         /\ x.do = "send" =>
              /\ Rank(x)[1] = 2 /\ Rank(x)[2] = x.n /\ Rank(x)[3] = 2 /\ Rank(x)[4] = x.o
         /\ x.do = "input" =>
              /\ Rank(x)[1] = 2 /\ Rank(x)[2] = x.n /\ Rank(x)[3] = 3 /\ Rank(x)[4] = 0
         /\ x.do = "compute" =>
              /\ Rank(x)[1] = 3 /\ Rank(x)[2] = x.n /\ Rank(x)[3] = x.o /\ Rank(x)[4] = 0
         /\ x.do = "shared" =>
              /\ Rank(x)[1] = 3 /\ Rank(x)[2] = GroupOf(x.diagonal, x.n)
              /\ Rank(x)[3] = x.o /\ Rank(x)[4] = 1
         /\ x.do = "return" =>
              /\ Rank(x)[1] = 4 /\ Rank(x)[2] = GroupOf(x.diagonal, x.n)
              /\ Rank(x)[3] = x.o /\ Rank(x)[4] = InGroup(x.diagonal, x.n)
         /\ x.do = "output" =>
              /\ Rank(x)[1] = 4 /\ Rank(x)[2] = x.n /\ Rank(x)[3] = x.o /\ Rank(x)[4] = GroupCells
         /\ x.do = "sum" =>
              /\ Rank(x)[1] = 5 /\ Rank(x)[2] = x.n /\ Rank(x)[3] = 0 /\ Rank(x)[4] = 0
         /\ x.do = "post" =>
              /\ Rank(x)[1] = 6 /\ Rank(x)[2] = x.n /\ Rank(x)[3] = 0 /\ Rank(x)[4] = 0
  BY DEF Rank

\* Ranks are numbers, and the first says in which phase an operation is issued.
LEMMA RankFact ==
  ASSUME NEW x, Legal(x)
  PROVE  /\ Rank(x)[1] \in 0 .. 6 /\ Rank(x)[2] \in Nat /\ Rank(x)[3] \in Nat /\ Rank(x)[4] \in Nat
         /\ Rank(x)[1] < 2 <=> x.do \in {"corridor", "copied", "pre"}
         /\ Rank(x)[1] = 2 <=> x.do \in {"source", "pack", "send", "input"}
         /\ Rank(x)[1] = 3 <=> x.do \in {"compute", "shared"}
         /\ Rank(x)[1] = 4 <=> x.do \in {"return", "output"}
         /\ Rank(x)[1] = 5 <=> x.do = "sum"
         /\ Rank(x)[1] = 6 <=> x.do = "post"
  <1>1. x.do \in Kinds /\ x.n \in Nat /\ x.o \in Nat /\ GroupCells \in Nat
    BY LegalKind, LegalFact, ConstantFact
  <1>2. x.do \notin {"compute", "output"} =>
          GroupOf(x.diagonal, x.n) \in Nat /\ InGroup(x.diagonal, x.n) \in Nat
    <2>1. Groups \subseteq Nat /\ 0 .. GroupCells - 1 \subseteq Nat
      BY ConstantFact
    <2>2. QED
      BY <2>1, LegalFact
  <1>3. CASE x.do \in {"corridor", "copied", "pre", "source", "pack", "send"}
    BY <1>1, <1>3, RankIs
  <1>4. CASE x.do \in {"input", "compute", "output", "sum", "post"}
    BY <1>1, <1>4, RankIs
  <1>5. CASE x.do \in {"shared", "return"}
    BY <1>1, <1>2, <1>5, RankIs
  <1>6. QED
    BY <1>1, <1>3, <1>4, <1>5 DEF Kinds

\* No two operations of a diagonal have the same rank.
LEMMA SameRank ==
  ASSUME NEW x, Legal(x), NEW y, Legal(y), x.pass = y.pass, x.diagonal = y.diagonal,
         Rank(x)[1] = Rank(y)[1], Rank(x)[2] = Rank(y)[2], Rank(x)[3] = Rank(y)[3], Rank(x)[4] = Rank(y)[4]
  PROVE  x = y
  <1>1. SUFFICES x.do = y.do /\ x.n = y.n /\ x.o = y.o
    BY DEF Legal
  <1>2. x.do \in Kinds /\ y.do \in Kinds
    BY LegalKind
  <1>3. CASE Rank(x)[1] = 0
    <2>1. x.do \in {"corridor", "copied"} /\ y.do \in {"corridor", "copied"}
      <3>1. ASSUME NEW z, Legal(z), Rank(z)[1] = 0 PROVE z.do \in {"corridor", "copied"}
        BY <3>1, RankIs, RankFact
      <3>2. QED
        BY <1>3, <3>1
    <2>2. x.do = y.do /\ x.n = y.n
      BY <2>1, RankIs
    <2>3. QED
      BY <2>1, <2>2 DEF Legal
  <1>4. CASE Rank(x)[1] = 1
    <2>1. x.do = "pre" /\ y.do = "pre"
      <3>1. ASSUME NEW z, Legal(z), Rank(z)[1] = 1 PROVE z.do = "pre"
        BY <3>1, RankIs, RankFact
      <3>2. QED
        BY <1>4, <3>1
    <2>2. QED
      BY <2>1, RankIs DEF Legal
  <1>5. CASE Rank(x)[1] = 2
    <2>1. x.do \in {"source", "pack", "send", "input"} /\ y.do \in {"source", "pack", "send", "input"}
      BY <1>5, RankFact
    <2>2. x.n = y.n /\ x.do = y.do
      BY <2>1, RankIs
    <2>3. x.do = "send" => x.o = y.o
      BY <2>2, RankIs
    <2>4. QED
      BY <2>1, <2>2, <2>3 DEF Legal
  <1>6. CASE Rank(x)[1] = 3
    <2>1. x.do \in {"compute", "shared"} /\ y.do \in {"compute", "shared"}
      BY <1>6, RankFact
    <2>2. x.do = y.do /\ x.o = y.o
      BY <2>1, RankIs
    <2>3. x.do = "compute" => x.n = y.n
      BY <2>2, RankIs
    <2>4. QED
      BY <2>1, <2>2, <2>3 DEF Legal
  <1>7. CASE Rank(x)[1] = 4
    <2>1. x.do \in {"return", "output"} /\ y.do \in {"return", "output"}
      BY <1>7, RankFact
    <2>2. x.o = y.o
      BY <2>1, RankIs
    <2>3. ~(x.do = "return" /\ y.do = "output") /\ ~(x.do = "output" /\ y.do = "return")
      <3>1. ASSUME NEW a, Legal(a), a.do = "return", NEW b, Legal(b), b.do = "output" PROVE Rank(a)[4] # Rank(b)[4]
        <4>1. Rank(a)[4] = InGroup(a.diagonal, a.n) /\ Rank(b)[4] = GroupCells
          BY <3>1, RankIs
        <4>2. InGroup(a.diagonal, a.n) \in 0 .. GroupCells - 1 /\ GroupCells \in Nat
          BY <3>1, LegalFact, ConstantFact
        <4>3. QED
          BY <4>1, <4>2
      <3>2. QED
        BY <3>1
    <2>4. x.do = "output" => x.n = y.n
      BY <2>1, <2>3, RankIs
    <2>5. x.do = "return" => x.n = y.n
      <3>1. SUFFICES ASSUME x.do = "return" PROVE x.n = y.n
        OBVIOUS
      <3>2. y.do = "return"
        BY <2>1, <2>3, <3>1
      <3>3. /\ GroupOf(x.diagonal, x.n) = GroupOf(x.diagonal, y.n)
            /\ InGroup(x.diagonal, x.n) = InGroup(x.diagonal, y.n)
        BY <3>1, <3>2, RankIs
      <3>4. x.n \in Active(x.diagonal) /\ y.n \in Active(x.diagonal) /\ x.diagonal \in Diagonals
        BY <3>1, <3>2, LegalFact
      <3>5. QED
        BY <3>3, <3>4, SameCell
    <2>6. QED
      BY <2>1, <2>2, <2>3, <2>4, <2>5
  <1>8. CASE Rank(x)[1] \in {5, 6}
    <2>1. x.do = y.do /\ x.do \in {"sum", "post"}
      BY <1>8, RankFact
    <2>2. QED
      BY <2>1, RankIs DEF Legal
  <1>9. QED
    BY <1>3, <1>4, <1>5, <1>6, <1>7, <1>8, RankFact

\* The operations of a pass are strictly and totally ordered.
LEMMA LessOrder ==
  ASSUME NEW p, NEW x \in Ops(p), NEW y \in Ops(p), NEW z \in Ops(p)
  PROVE  /\ ~Less(x, x)
         /\ Less(x, y) => ~Less(y, x)
         /\ Less(x, y) /\ Less(y, z) => Less(x, z)
         /\ x = y \/ Less(x, y) \/ Less(y, x)
  <1>1. /\ Legal(x) /\ Legal(y) /\ Legal(z) /\ x.pass = p /\ y.pass = p
        /\ x.diagonal \in Nat /\ y.diagonal \in Nat /\ z.diagonal \in Nat
    BY OpsFact, LegalFact, LayerFact
  <1>2. PICK a, b, c : a = Rank(x) /\ b = Rank(y) /\ c = Rank(z)
    OBVIOUS
  <1>3. /\ a[1] \in Nat /\ a[2] \in Nat /\ a[3] \in Nat /\ a[4] \in Nat
        /\ b[1] \in Nat /\ b[2] \in Nat /\ b[3] \in Nat /\ b[4] \in Nat
        /\ c[1] \in Nat /\ c[2] \in Nat /\ c[3] \in Nat /\ c[4] \in Nat
    BY <1>1, <1>2, RankFact
  <1>4. ~Less(x, x) /\ (Less(x, y) => ~Less(y, x))
    BY <1>1, <1>2, <1>3 DEF Less
  <1>5. Less(x, y) /\ Less(y, z) => Less(x, z)
    BY <1>1, <1>2, <1>3 DEF Less
  <1>6. x = y \/ Less(x, y) \/ Less(y, x)
    <2>1. Less(x, y) \/ Less(y, x) \/ (x.diagonal = y.diagonal /\ a[1] = b[1] /\ a[2] = b[2] /\ a[3] = b[3] /\ a[4] = b[4])
      BY <1>1, <1>2, <1>3 DEF Less
    <2>2. QED
      BY <1>1, <1>2, <2>1, SameRank
  <1>7. QED
    BY <1>4, <1>5, <1>6

-----------------------------------------------------------------------------
(* Streams and events.                                                     *)

\* Every lane has two streams of its own.
LEMMA StreamFact ==
  ASSUME NEW j \in Lanes, NEW k \in Lanes
  PROVE  /\ Main(j) \in Streams /\ Copy(j) \in Streams /\ Main(j) # Copy(k)
         /\ Main(j) = Main(k) <=> j = k
         /\ Copy(j) = Copy(k) <=> j = k
  BY DEF Main, Copy, Streams

\* The stream of an operation, by kind.
LEMMA OnIs ==
  ASSUME NEW x, Legal(x)
  PROVE  /\ On(x) \in Streams
         /\ x.do \in {"pack", "send", "input"} => On(x) = Copy(x.n)
         /\ x.do \in {"return", "output"} => On(x) = Copy(x.o)
         /\ x.do \notin {"pack", "send", "input", "return", "output"} => On(x) = Main(x.o)
  BY LegalFact, StreamFact DEF On

\* Events with different names, groups or devices are different.
LEMMA EventFact ==
  ASSUME NEW a, NEW b, NEW c, NEW u, NEW v, NEW w
  PROVE  Event(a, b, c) = Event(u, v, w) <=> a = u /\ b = v /\ c = w
  BY DEF Event

\* The events that an operation records, by kind.
LEMMA RecordsIs ==
  ASSUME NEW x, Legal(x)
  PROVE  LET g == GroupOf(x.diagonal, x.n) IN
         /\ x.do = "corridor" => Records(x) = {Event("copied", 0, x.o)}
         /\ x.do = "source" => Records(x) = {Event("source_ready", g, x.n)}
         /\ x.do = "input" => Records(x) = {Event("input_ready", g, x.n)}
         /\ x.do = "compute" =>
              Records(x) = {Event("compute_done", x.n, x.o)} \cup
                IF Shares(x.diagonal, x.n, x.o) THEN {} ELSE {Event("scratch_free", x.n, x.o)}
         /\ x.do = "shared" => Records(x) = {Event("scratch_free", g, x.o)}
         /\ x.do = "output" => Records(x) = {Event("output_ready", x.n, x.o)}
         /\ x.do = "sum" => Records(x) = {Event("recv_free", g, x.n)}
         /\ x.do \in {"copied", "pre", "pack", "send", "return", "post"} => Records(x) = {}
  BY DEF Records

\* Operations record events of the service and of the corridors.
LEMMA RecordsFact ==
  ASSUME NEW x, Legal(x)
  PROVE  Records(x) \subseteq Events
  <1>1. x.n \in Lanes /\ x.o \in Lanes /\ Groups = Lanes /\ 0 \in Lanes /\ x.do \in Kinds
    BY LegalFact, ConstantFact, LegalKind
  <1>2. x.do \notin {"compute", "output"} => GroupOf(x.diagonal, x.n) \in Groups
    BY LegalFact
  <1>3. ASSUME NEW a \in {"copied", "source_ready", "input_ready", "compute_done",
                          "scratch_free", "output_ready", "recv_free"}, NEW g \in Groups, NEW j \in Lanes
        PROVE  Event(a, g, j) \in Events
    BY DEF Event, Events
  <1>4. QED
    BY <1>1, <1>2, <1>3, RecordsIs DEF Kinds

\* An event is recorded on one stream, and once on a diagonal.
LEMMA RecorderFact ==
  ASSUME NEW p, NEW x \in Ops(p), NEW y \in Ops(p), NEW e \in Records(x), e \in Records(y)
  PROVE  On(x) = On(y) /\ (x.diagonal = y.diagonal => x = y)
  <1>1. /\ Legal(x) /\ Legal(y) /\ x.pass = p /\ y.pass = p /\ x.do \in Kinds /\ y.do \in Kinds
        /\ x.n \in Lanes /\ x.o \in Lanes /\ y.n \in Lanes /\ y.o \in Lanes
    BY OpsFact, LegalKind, LegalFact
  <1>2. ASSUME NEW z, Legal(z), e \in Records(z)
        PROVE  LET g == GroupOf(z.diagonal, z.n) IN
               \/ z.do = "corridor" /\ e = Event("copied", 0, z.o)
               \/ z.do = "source" /\ e = Event("source_ready", g, z.n)
               \/ z.do = "input" /\ e = Event("input_ready", g, z.n)
               \/ z.do = "compute" /\ e = Event("compute_done", z.n, z.o)
               \/ z.do = "compute" /\ e = Event("scratch_free", z.n, z.o) /\ ~Shares(z.diagonal, z.n, z.o)
               \/ z.do = "shared" /\ e = Event("scratch_free", g, z.o)
               \/ z.do = "output" /\ e = Event("output_ready", z.n, z.o)
               \/ z.do = "sum" /\ e = Event("recv_free", g, z.n)
    BY <1>2, RecordsIs, LegalKind DEF Kinds
  <1>3. \E a, b, c : e = Event(a, b, c)
    BY <1>1, <1>2
  <1>4. PICK a, b, c : e = Event(a, b, c)
    BY <1>3
  <1>5. ASSUME NEW z, Legal(z), e \in Records(z)
        PROVE  LET g == GroupOf(z.diagonal, z.n) IN
               \/ z.do = "corridor" /\ a = "copied" /\ z.o = c
               \/ z.do = "source" /\ a = "source_ready" /\ c = z.n
               \/ z.do = "input" /\ a = "input_ready" /\ c = z.n
               \/ z.do = "compute" /\ a = "compute_done" /\ b = z.n /\ c = z.o
               \/ z.do = "compute" /\ a = "scratch_free" /\ b = z.n /\ c = z.o /\ ~Shares(z.diagonal, z.n, z.o)
               \/ z.do = "shared" /\ a = "scratch_free" /\ b = g /\ c = z.o
               \/ z.do = "output" /\ a = "output_ready" /\ b = z.n /\ c = z.o
               \/ z.do = "sum" /\ a = "recv_free" /\ c = z.n
    BY <1>2, <1>4, <1>5, EventFact
  <1>6. ASSUME NEW z, Legal(z), NEW v, Legal(v), z.do = "shared", v.do = "compute", z.diagonal = v.diagonal,
               v.n = GroupOf(z.diagonal, z.n), v.o = z.o
        PROVE  Shares(v.diagonal, v.n, v.o)
    <2>1. SharedService /\ z.n \in Active(z.diagonal) /\ z.o = z.n
      BY <1>6 DEF Legal
    <2>2. QED
      BY <1>6, <2>1 DEF Shares, Members
  <1>7. On(x) = On(y)
    <2>1. CASE a \in {"copied", "source_ready", "recv_free"}
      <3>1. x.do = y.do /\ x.do \in {"corridor", "source", "sum"} /\ x.o = c /\ y.o = c
        BY <1>1, <1>5, <2>1 DEF Legal
      <3>2. QED
        BY <1>1, <3>1, OnIs
    <2>2. CASE a \in {"compute_done", "scratch_free"}
      <3>1. x.do \in {"compute", "shared"} /\ y.do \in {"compute", "shared"} /\ x.o = c /\ y.o = c
        BY <1>1, <1>5, <2>2
      <3>2. QED
        BY <1>1, <3>1, OnIs
    <2>3. CASE a = "input_ready"
      <3>1. x.do = "input" /\ y.do = "input" /\ x.n = c /\ y.n = c
        BY <1>1, <1>5, <2>3
      <3>2. QED
        BY <1>1, <3>1, OnIs
    <2>4. CASE a = "output_ready"
      <3>1. x.do = "output" /\ y.do = "output" /\ x.o = c /\ y.o = c
        BY <1>1, <1>5, <2>4
      <3>2. QED
        BY <1>1, <3>1, OnIs
    <2>5. QED
      BY <1>1, <1>5, <2>1, <2>2, <2>3, <2>4
  <1>8. ASSUME x.diagonal = y.diagonal PROVE x = y
    <2>1. SUFFICES x.do = y.do /\ x.n = y.n /\ x.o = y.o
      BY <1>1, <1>8 DEF Legal
    <2>2. CASE a \in {"copied", "source_ready", "input_ready", "recv_free"}
      <3>1. x.do = y.do /\ x.do \in {"corridor", "source", "input", "sum"}
        BY <1>1, <1>5, <2>2
      <3>2. CASE x.do = "corridor"
        <4>1. x.o = c /\ y.o = c /\ x.o = x.n - 1 /\ y.o = y.n - 1
          BY <1>1, <1>5, <3>1, <3>2 DEF Legal
        <4>2. x.n \in Nat /\ y.n \in Nat
          BY <1>1, ConstantFact
        <4>3. QED
          BY <3>1, <4>1, <4>2
      <3>3. CASE x.do # "corridor"
        <4>1. x.n = c /\ y.n = c /\ x.o = x.n /\ y.o = y.n
          BY <1>1, <1>5, <3>1, <3>3 DEF Legal
        <4>2. QED
          BY <3>1, <4>1
      <3>4. QED
        BY <3>2, <3>3
    <2>3. CASE a \in {"compute_done", "output_ready"}
      BY <1>1, <1>5, <2>3
    <2>4. CASE a = "scratch_free"
      <3>1. CASE x.do = "compute" /\ y.do = "compute"
        BY <1>1, <1>5, <2>4, <3>1
      <3>2. CASE x.do = "shared" /\ y.do = "shared"
        <4>1. x.o = c /\ y.o = c /\ x.o = x.n /\ y.o = y.n
          BY <1>1, <1>5, <2>4, <3>2 DEF Legal
        <4>2. QED
          BY <3>2, <4>1
      <3>3. CASE x.do = "shared" /\ y.do = "compute"
        <4>1. /\ b = y.n /\ c = y.o /\ ~Shares(y.diagonal, y.n, y.o)
              /\ b = GroupOf(x.diagonal, x.n) /\ c = x.o
          BY <1>1, <1>5, <2>4, <3>3
        <4>2. QED
          BY <1>1, <1>6, <1>8, <3>3, <4>1
      <3>4. CASE x.do = "compute" /\ y.do = "shared"
        <4>1. /\ b = x.n /\ c = x.o /\ ~Shares(x.diagonal, x.n, x.o)
              /\ b = GroupOf(y.diagonal, y.n) /\ c = y.o
          BY <1>1, <1>5, <2>4, <3>4
        <4>2. QED
          BY <1>1, <1>6, <1>8, <3>4, <4>1
      <3>5. QED
        BY <1>1, <1>5, <2>4, <3>1, <3>2, <3>3, <3>4
    <2>5. QED
      BY <1>1, <1>5, <2>2, <2>3, <2>4
  <1>9. QED
    BY <1>7, <1>8

-----------------------------------------------------------------------------
(* What the operations of one lane, group and device wait for.             *)

\* x runs after y: y is earlier on the same stream, or recorded an event x waits for.
Before(y, x)  == Less(y, x) /\ (On(y) = On(x) \/ Waits(x) \cap Records(y) # {})
\* A set of operations that contains what its members had to wait for.
Closed(D, p)  == \A x \in D : \A y \in Ops(p) : Before(y, x) => y \in D

\* The copy of the request of lane j to device o, and the operation after which the
\* scratch of group g on device o is free.
Packed(p, d, j, o) == Op(IF o = j THEN "pack" ELSE "send", p, d, j, o)
Last(p, d, g, o)   == IF Shares(d, g, o) THEN Op("shared", p, d, o, o) ELSE Op("compute", p, d, g, o)

\* The stream of an operation that is given by its fields.
LEMMA OpOn ==
  ASSUME NEW p, NEW d, NEW n, NEW o
  PROVE  /\ \A k \in {"pack", "send", "input"} : On(Op(k, p, d, n, o)) = Copy(n)
         /\ \A k \in {"return", "output"} : On(Op(k, p, d, n, o)) = Copy(o)
         /\ \A k \in {"corridor", "copied", "pre", "source", "compute", "shared", "sum", "post"} :
              On(Op(k, p, d, n, o)) = Main(o)
  BY OpFact DEF On

\* The rank of an operation that is given by its fields.
LEMMA OpRank ==
  ASSUME NEW p, NEW d, NEW n, NEW o, NEW x
  PROVE  LET g == GroupOf(d, n) IN
         /\ x = Op("corridor", p, d, n, o) => Rank(x)[1] = 0 /\ Rank(x)[2] = n /\ Rank(x)[3] = 0
         /\ x = Op("copied", p, d, n, o) => Rank(x)[1] = 0 /\ Rank(x)[2] = n /\ Rank(x)[3] = 1
         /\ x = Op("pre", p, d, n, o) => Rank(x)[1] = 1
         /\ x = Op("source", p, d, n, o) => Rank(x)[1] = 2 /\ Rank(x)[2] = n /\ Rank(x)[3] = 0
         /\ x = Op("pack", p, d, n, o) => Rank(x)[1] = 2 /\ Rank(x)[2] = n /\ Rank(x)[3] = 1
         /\ x = Op("send", p, d, n, o) => Rank(x)[1] = 2 /\ Rank(x)[2] = n /\ Rank(x)[3] = 2
         /\ x = Op("input", p, d, n, o) => Rank(x)[1] = 2 /\ Rank(x)[2] = n /\ Rank(x)[3] = 3
         /\ x = Op("compute", p, d, n, o) =>
              Rank(x)[1] = 3 /\ Rank(x)[2] = n /\ Rank(x)[3] = o /\ Rank(x)[4] = 0
         /\ x = Op("shared", p, d, n, o) =>
              Rank(x)[1] = 3 /\ Rank(x)[2] = g /\ Rank(x)[3] = o /\ Rank(x)[4] = 1
         /\ x = Op("return", p, d, n, o) =>
              Rank(x)[1] = 4 /\ Rank(x)[2] = g /\ Rank(x)[3] = o /\ Rank(x)[4] = InGroup(d, n)
         /\ x = Op("output", p, d, n, o) =>
              Rank(x)[1] = 4 /\ Rank(x)[2] = n /\ Rank(x)[3] = o /\ Rank(x)[4] = GroupCells
         /\ x = Op("sum", p, d, n, o) => Rank(x)[1] = 5
         /\ x = Op("post", p, d, n, o) => Rank(x)[1] = 6
  <1>1. ASSUME NEW k, x = Op(k, p, d, n, o)
        PROVE  x.do = k /\ x.diagonal = d /\ x.n = n /\ x.o = o
    BY <1>1, OpFact
  <1>2. QED
    BY <1>1, RankIs

\* The events that an operation, given by its fields, records.
LEMMA OpRecords ==
  ASSUME NEW p, NEW d, NEW n, NEW o
  PROVE  LET g == GroupOf(d, n) IN
         /\ Event("copied", 0, o) \in Records(Op("corridor", p, d, n, o))
         /\ Event("source_ready", g, n) \in Records(Op("source", p, d, n, o))
         /\ Event("input_ready", g, n) \in Records(Op("input", p, d, n, o))
         /\ Event("compute_done", n, o) \in Records(Op("compute", p, d, n, o))
         /\ Event("output_ready", n, o) \in Records(Op("output", p, d, n, o))
         /\ Event("recv_free", g, n) \in Records(Op("sum", p, d, n, o))
  BY OpFact DEF Records

\* The events that an operation, given by its fields, waits for.
LEMMA OpWaits ==
  ASSUME NEW p, NEW d, NEW n, NEW o
  PROVE  LET g == GroupOf(d, n) IN
         /\ Event("copied", 0, n - 1) \in Waits(Op("copied", p, d, n, o))
         /\ Event("source_ready", g, n) \in Waits(Op("pack", p, d, n, o))
         /\ \A k \in {"pack", "send"} : /\ Event("output_ready", g, o) \in Waits(Op(k, p, d, n, o))
                                        /\ Event("scratch_free", g, o) \in Waits(Op(k, p, d, n, o))
         /\ \A j \in Members(d, n) : Event("input_ready", n, j) \in Waits(Op("compute", p, d, n, o))
         /\ Event("compute_done", g, o) \in Waits(Op("return", p, d, n, o))
         /\ Event("recv_free", g, n) \in Waits(Op("return", p, d, n, o))
         /\ \A c \in Lanes : Event("output_ready", g, c) \in Waits(Op("sum", p, d, n, o))
  <1> DEFINE g == GroupOf(d, n)
  <1>1. Event("copied", 0, n - 1) \in Waits(Op("copied", p, d, n, o))
    BY OpFact DEF Waits, Copied
  <1>2. /\ Waits(Op("pack", p, d, n, o)) = {Event("source_ready", g, n)} \cup Free(g, o)
        /\ Waits(Op("send", p, d, n, o)) = Free(g, o)
    BY OpFact DEF Waits
  <1>3. Waits(Op("compute", p, d, n, o)) = Inputs(d, n)
    BY OpFact DEF Waits
  <1>4. Waits(Op("return", p, d, n, o)) = {Event("compute_done", g, o), Event("recv_free", g, n)}
    BY OpFact DEF Waits
  <1>5. Waits(Op("sum", p, d, n, o)) = {Event("output_ready", g, c) : c \in Lanes}
    BY OpFact DEF Waits
  <1>6. QED
    BY <1>1, <1>2, <1>3, <1>4, <1>5 DEF Free, Inputs

\* An earlier diagonal or a smaller rank comes first.
LEMMA LessFact ==
  ASSUME NEW x, NEW y,
         \/ x.diagonal < y.diagonal
         \/ x.diagonal = y.diagonal /\ Rank(x)[1] < Rank(y)[1]
         \/ x.diagonal = y.diagonal /\ Rank(x)[1] = Rank(y)[1] /\ Rank(x)[2] = Rank(y)[2]
              /\ Rank(x)[3] < Rank(y)[3]
         \/ x.diagonal = y.diagonal /\ Rank(x)[1] = Rank(y)[1] /\ Rank(x)[2] = Rank(y)[2]
              /\ Rank(x)[3] = Rank(y)[3] /\ Rank(x)[4] < Rank(y)[4]
  PROVE  Less(x, y)
  BY DEF Less

\* One link of a chain: earlier on the stream, or recorded what was waited for.
LEMMA ClosedFact ==
  ASSUME NEW p, NEW D, Closed(D, p), NEW x \in D, NEW y \in Ops(p), Less(y, x),
         On(y) = On(x) \/ \E e : e \in Waits(x) /\ e \in Records(y)
  PROVE  y \in D
  BY DEF Closed, Before

\* The operation after which a scratch is free.
LEMMA LastOp ==
  ASSUME NEW p, NEW d \in Diagonals, NEW g \in GroupsOf(d), NEW o \in Lanes
  PROVE  LET x == Last(p, d, g, o) IN
         /\ x \in Ops(p) /\ x.diagonal = d /\ Rank(x)[1] = 3 /\ On(x) = Main(o)
         /\ Event("scratch_free", g, o) \in Records(x)
         /\ x # Op("compute", p, d, g, o) => Less(Op("compute", p, d, g, o), x)
  <1>1. PICK j \in Active(d) : GroupOf(d, j) = g
    BY DEF GroupsOf, Members
  <1>2. CASE Shares(d, g, o)
    <2>1. SharedService /\ o \in Active(d) /\ GroupOf(d, o) = g
      BY <1>2 DEF Shares, Members
    <2>2. PICK x : x = Op("shared", p, d, o, o) /\ x = Last(p, d, g, o)
      BY <1>2 DEF Last
    <2>3. x \in Ops(p) /\ x.diagonal = d /\ On(x) = Main(o)
      BY <2>1, <2>2, LaneOps, OpFact, OpOn
    <2>4. Rank(x)[1] = 3 /\ Rank(x)[2] = g /\ Rank(x)[3] = o /\ Rank(x)[4] = 1
      BY <2>1, <2>2, OpRank
    <2>5. Event("scratch_free", g, o) \in Records(x)
      BY <2>1, <2>2, OpFact DEF Records
    <2>6. PICK y : y = Op("compute", p, d, g, o)
      OBVIOUS
    <2>7. Less(y, x)
      <3>1. y.diagonal = d /\ Rank(y)[1] = 3 /\ Rank(y)[2] = g /\ Rank(y)[3] = o /\ Rank(y)[4] = 0
        BY <2>6, OpRank, OpFact
      <3>2. QED
        BY <2>3, <2>4, <3>1, LessFact
    <2>8. QED
      BY <2>2, <2>3, <2>4, <2>5, <2>6, <2>7
  <1>3. CASE ~Shares(d, g, o)
    <2>1. PICK x : x = Op("compute", p, d, g, o) /\ x = Last(p, d, g, o)
      BY <1>3 DEF Last
    <2>2. x \in Ops(p) /\ x.diagonal = d /\ On(x) = Main(o) /\ Rank(x)[1] = 3
      BY <1>1, <2>1, LaneOps, OpFact, OpOn, OpRank
    <2>3. Event("scratch_free", g, o) \in Records(x)
      BY <1>3, <2>1, OpFact DEF Records
    <2>4. QED
      BY <2>1, <2>2, <2>3
  <1>4. QED
    BY <1>2, <1>3

-----------------------------------------------------------------------------
(* What has run when an operation has run: chains of waits.                *)

\* The request of lane j on device o: where and when it is copied, and what it waits for.
IsRequest(x, p, d, j, o) ==
    /\ x \in Ops(p) /\ x.diagonal = d /\ On(x) = Copy(j)
    /\ Rank(x)[1] = 2 /\ Rank(x)[2] = j /\ Rank(x)[3] \in {1, 2}
    /\ Event("output_ready", GroupOf(d, j), o) \in Waits(x)
    /\ Event("scratch_free", GroupOf(d, j), o) \in Waits(x)
    /\ x # Op("pack", p, d, j, j) => Less(Op("pack", p, d, j, j), x)

\* A packed or a sent input is the request of its lane.
LEMMA PackedOp ==
  ASSUME NEW p, NEW d \in Diagonals, NEW j \in Active(d), NEW o \in Lanes
  PROVE  IsRequest(Packed(p, d, j, o), p, d, j, o)
  <1>1. PICK x : x = Packed(p, d, j, o)
    OBVIOUS
  <1>2. CASE o = j
    <2>1. x = Op("pack", p, d, j, j)
      BY <1>1, <1>2 DEF Packed
    <2>2. x \in Ops(p) /\ x.diagonal = d /\ On(x) = Copy(j)
      BY <2>1, LaneOps, OpFact, OpOn
    <2>3. Rank(x)[1] = 2 /\ Rank(x)[2] = j /\ Rank(x)[3] = 1
      BY <2>1, OpRank
    <2>4. QED
      BY <1>1, <1>2, <2>1, <2>2, <2>3, OpWaits DEF IsRequest
  <1>3. CASE o # j
    <2>1. x = Op("send", p, d, j, o)
      BY <1>1, <1>3 DEF Packed
    <2>2. x \in Ops(p) /\ x.diagonal = d /\ On(x) = Copy(j)
      BY <1>3, <2>1, LaneOps, OpFact, OpOn
    <2>3. Rank(x)[1] = 2 /\ Rank(x)[2] = j /\ Rank(x)[3] = 2
      BY <2>1, OpRank
    <2>4. PICK y : y = Op("pack", p, d, j, j)
      OBVIOUS
    <2>5. y.diagonal = d /\ Rank(y)[1] = 2 /\ Rank(y)[2] = j /\ Rank(y)[3] = 1
      BY <2>4, OpFact, OpRank
    <2>6. Less(y, x)
      BY <2>2, <2>3, <2>5, LessFact
    <2>7. QED
      BY <1>1, <2>1, <2>2, <2>3, <2>4, <2>6, OpWaits DEF IsRequest
  <1>4. QED
    BY <1>2, <1>3

\* An input record follows the lane's requests.
LEMMA InputChain ==
  ASSUME NEW p, NEW D, Closed(D, p), NEW d \in Diagonals, NEW j \in Active(d),
         Op("input", p, d, j, j) \in D
  PROVE  \A o \in Lanes : Packed(p, d, j, o) \in D
  <1>1. PICK x : x = Op("input", p, d, j, j)
    OBVIOUS
  <1>2. x \in D /\ x.diagonal = d /\ On(x) = Copy(j) /\ Rank(x)[1] = 2 /\ Rank(x)[2] = j /\ Rank(x)[3] = 3
    BY <1>1, OpFact, OpOn, OpRank
  <1>3. SUFFICES ASSUME NEW o \in Lanes PROVE Packed(p, d, j, o) \in D
    OBVIOUS
  <1>4. PICK y : y = Packed(p, d, j, o)
    OBVIOUS
  <1>5. /\ y \in Ops(p) /\ y.diagonal = d /\ On(y) = Copy(j)
        /\ Rank(y)[1] = 2 /\ Rank(y)[2] = j /\ Rank(y)[3] \in {1, 2}
    <2>1. IsRequest(y, p, d, j, o)
      BY <1>4, PackedOp
    <2>2. QED
      BY <2>1 DEF IsRequest
  <1>6. Rank(y)[3] < Rank(x)[3]
    BY <1>2, <1>5
  <1>7. Less(y, x)
    BY <1>2, <1>5, <1>6, LessFact
  <1>8. QED
    BY <1>2, <1>4, <1>5, <1>7, ClosedFact

\* What group g of an earlier diagonal had on device o is over when the request of
\* a later cell of that group is copied there.
LEMMA PackedChain ==
  ASSUME NEW p, NEW D, Closed(D, p), NEW d \in Diagonals, NEW j \in Active(d), NEW o \in Lanes,
         Packed(p, d, j, o) \in D
  PROVE  /\ Op("pack", p, d, j, j) \in D /\ Op("pre", p, d, j, j) \in D
         /\ \A c \in Diagonals : c < d /\ GroupOf(d, j) \in GroupsOf(c) =>
              Last(p, c, GroupOf(d, j), o) \in D /\ Op("output", p, c, GroupOf(d, j), o) \in D
  <1>1. PICK x : x = Packed(p, d, j, o)
    OBVIOUS
  <1>2. /\ x \in D /\ x.diagonal = d /\ On(x) = Copy(j)
        /\ Event("output_ready", GroupOf(d, j), o) \in Waits(x)
        /\ Event("scratch_free", GroupOf(d, j), o) \in Waits(x)
        /\ x # Op("pack", p, d, j, j) => Less(Op("pack", p, d, j, j), x)
    <2>1. IsRequest(x, p, d, j, o)
      BY <1>1, PackedOp
    <2>2. QED
      BY <1>1, <2>1 DEF IsRequest
  <1>3. PICK y : y = Op("pack", p, d, j, j)
    OBVIOUS
  <1>4. y \in Ops(p) /\ On(y) = Copy(j) /\ y.diagonal = d /\ Rank(y)[1] = 2 /\ Rank(y)[2] = j /\ Rank(y)[3] = 1
    BY <1>3, LaneOps, OpOn, OpFact, OpRank
  <1>5. y \in D
    BY <1>2, <1>3, <1>4, ClosedFact
  <1>6. PICK z : z = Op("source", p, d, j, j)
    OBVIOUS
  <1>7. z \in Ops(p) /\ On(z) = Main(j) /\ z.diagonal = d /\ Rank(z)[1] = 2 /\ Rank(z)[2] = j /\ Rank(z)[3] = 0
    BY <1>6, LaneOps, OpOn, OpFact, OpRank
  <1>8. z \in D
    <2>1. Less(z, y)
      BY <1>4, <1>7, LessFact
    <2>2. Event("source_ready", GroupOf(d, j), j) \in Waits(y) /\ Event("source_ready", GroupOf(d, j), j) \in Records(z)
      BY <1>3, <1>6, OpWaits, OpRecords
    <2>3. QED
      BY <1>5, <1>7, <2>1, <2>2, ClosedFact
  <1>9. PICK w : w = Op("pre", p, d, j, j)
    OBVIOUS
  <1>10. w \in D
    <2>1. w \in Ops(p) /\ On(w) = Main(j) /\ w.diagonal = d /\ Rank(w)[1] = 1
      BY <1>9, LaneOps, OpOn, OpFact, OpRank
    <2>2. Less(w, z)
      BY <1>7, <2>1, LessFact
    <2>3. QED
      BY <1>7, <1>8, <2>1, <2>2, ClosedFact
  <1>11. ASSUME NEW c \in Diagonals, c < d, GroupOf(d, j) \in GroupsOf(c)
         PROVE  Last(p, c, GroupOf(d, j), o) \in D /\ Op("output", p, c, GroupOf(d, j), o) \in D
    <2>1. PICK g \in GroupsOf(c) : g = GroupOf(d, j)
      BY <1>11
    <2>2. PICK i \in Active(c) : GroupOf(c, i) = g
      BY <2>1 DEF GroupsOf, Members
    <2>3. PICK u : u = Last(p, c, g, o)
      OBVIOUS
    <2>4. u \in Ops(p) /\ u.diagonal = c /\ Event("scratch_free", g, o) \in Records(u)
      BY <2>3, LastOp
    <2>5. PICK v : v = Op("output", p, c, g, o)
      OBVIOUS
    <2>6. v \in Ops(p) /\ v.diagonal = c /\ Event("output_ready", g, o) \in Records(v)
      BY <2>2, <2>5, LaneOps, OpFact, OpRecords
    <2>7. Less(u, x) /\ Less(v, x)
      BY <1>2, <1>11, <2>4, <2>6, LessFact
    <2>8. u \in D
      BY <1>2, <2>1, <2>4, <2>7, ClosedFact
    <2>9. v \in D
      BY <1>2, <2>1, <2>6, <2>7, ClosedFact
    <2>10. QED
      BY <2>1, <2>3, <2>5, <2>8, <2>9
  <1>12. QED
    BY <1>3, <1>5, <1>9, <1>10, <1>11

\* An owner computes when the requests of the group have come, and after the output
\* of what the group had computed there before.
LEMMA ComputeChain ==
  ASSUME NEW p, NEW D, Closed(D, p), NEW d \in Diagonals, NEW g \in GroupsOf(d), NEW o \in Lanes,
         Op("compute", p, d, g, o) \in D
  PROVE  /\ \A j \in Members(d, g) : Op("input", p, d, j, j) \in D
         /\ \A j \in Members(d, g) : \A c \in Lanes : Packed(p, d, j, c) \in D
         /\ \A c \in Diagonals : c < d /\ g \in GroupsOf(c) => Op("output", p, c, g, o) \in D
  <1>1. PICK x : x = Op("compute", p, d, g, o)
    OBVIOUS
  <1>2. x \in D /\ x.diagonal = d /\ Rank(x)[1] = 3
    BY <1>1, OpFact, OpRank
  <1>3. ASSUME NEW j \in Members(d, g) PROVE Op("input", p, d, j, j) \in D
    <2>1. j \in Active(d) /\ GroupOf(d, j) = g
      BY DEF Members
    <2>2. PICK y : y = Op("input", p, d, j, j)
      OBVIOUS
    <2>3. y \in Ops(p) /\ y.diagonal = d /\ Rank(y)[1] = 2
      BY <2>1, <2>2, LaneOps, OpFact, OpRank
    <2>4. Event("input_ready", g, j) \in Waits(x) /\ Event("input_ready", g, j) \in Records(y)
      BY <1>1, <2>1, <2>2, OpWaits, OpRecords
    <2>5. Less(y, x)
      BY <1>2, <2>3, LessFact
    <2>6. QED
      BY <1>2, <2>2, <2>3, <2>4, <2>5, ClosedFact
  <1>4. ASSUME NEW j \in Members(d, g) PROVE \A c \in Lanes : Packed(p, d, j, c) \in D
    BY <1>3, InputChain DEF Members
  <1>5. ASSUME NEW c \in Diagonals, c < d, g \in GroupsOf(c) PROVE Op("output", p, c, g, o) \in D
    <2>1. PICK j \in Members(d, g) : TRUE
      BY DEF GroupsOf
    <2>2. j \in Active(d) /\ GroupOf(d, j) = g /\ Packed(p, d, j, o) \in D
      BY <1>4 DEF Members
    <2>3. QED
      BY <1>5, <2>2, PackedChain
  <1>6. QED
    BY <1>3, <1>4, <1>5

\* When the scratch of an owner is free, the owner has computed.
LEMMA LastChain ==
  ASSUME NEW p, NEW D, Closed(D, p), NEW d \in Diagonals, NEW g \in GroupsOf(d), NEW o \in Lanes,
         Last(p, d, g, o) \in D
  PROVE  Op("compute", p, d, g, o) \in D
  <1>1. PICK j \in Active(d) : GroupOf(d, j) = g
    BY DEF GroupsOf, Members
  <1>2. PICK x, y : x = Last(p, d, g, o) /\ y = Op("compute", p, d, g, o)
    OBVIOUS
  <1>3. y \in Ops(p) /\ On(y) = Main(o)
    BY <1>1, <1>2, LaneOps, OpOn
  <1>4. On(x) = Main(o) /\ x \in D /\ (x # y => Less(y, x))
    BY <1>2, LastOp
  <1>5. QED
    BY <1>2, <1>3, <1>4, ClosedFact

\* The graph of a cell begins after the copies from the lane before it, and after
\* the lane's earlier cells.
LEMMA PreChain ==
  ASSUME NEW p, NEW D, Closed(D, p), NEW d \in Diagonals, NEW j \in Active(d),
         Op("pre", p, d, j, j) \in D
  PROVE  /\ j # 0 => Op("corridor", p, d, j, j - 1) \in D
         /\ \A c \in Diagonals : c < d /\ j \in Active(c) =>
              /\ Op("pre", p, c, j, j) \in D /\ Op("input", p, c, j, j) \in D
  <1>1. PICK x : x = Op("pre", p, d, j, j)
    OBVIOUS
  <1>2. x \in D /\ x.diagonal = d /\ On(x) = Main(j) /\ Rank(x)[1] = 1
    BY <1>1, OpFact, OpOn, OpRank
  <1>3. ASSUME j # 0 PROVE Op("corridor", p, d, j, j - 1) \in D
    <2>1. PICK y, z : y = Op("copied", p, d, j, j) /\ z = Op("corridor", p, d, j, j - 1)
      OBVIOUS
    <2>2. /\ y \in Ops(p) /\ y.diagonal = d /\ On(y) = Main(j)
          /\ Rank(y)[1] = 0 /\ Rank(y)[2] = j /\ Rank(y)[3] = 1
      BY <1>3, <2>1, LaneOps, OpFact, OpOn, OpRank
    <2>3. Less(y, x)
      BY <1>2, <2>2, LessFact
    <2>4. y \in D
      BY <1>2, <2>2, <2>3, ClosedFact
    <2>5. z \in Ops(p) /\ z.diagonal = d /\ Rank(z)[1] = 0 /\ Rank(z)[2] = j /\ Rank(z)[3] = 0
      BY <1>3, <2>1, LaneOps, OpFact, OpRank
    <2>6. Less(z, y)
      BY <2>2, <2>5, LessFact
    <2>7. Event("copied", 0, j - 1) \in Waits(y) /\ Event("copied", 0, j - 1) \in Records(z)
      BY <2>1, OpWaits, OpRecords
    <2>8. QED
      BY <2>1, <2>4, <2>5, <2>6, <2>7, ClosedFact
  <1>4. ASSUME NEW c \in Diagonals, c < d, j \in Active(c)
        PROVE  Op("pre", p, c, j, j) \in D /\ Op("input", p, c, j, j) \in D
    <2>1. j \in Lanes
      BY LayerFact
    <2>2. PICK y, z : y = Op("pre", p, c, j, j) /\ z = Op("compute", p, c, GroupOf(c, j), j)
      OBVIOUS
    <2>3. y \in Ops(p) /\ z \in Ops(p) /\ y.diagonal = c /\ z.diagonal = c /\ On(y) = Main(j) /\ On(z) = Main(j)
      BY <1>4, <2>1, <2>2, LaneOps, OpFact, OpOn
    <2>4. Less(y, x) /\ Less(z, x)
      BY <1>2, <1>4, <2>3, LessFact
    <2>5. y \in D /\ z \in D
      BY <1>2, <2>3, <2>4, ClosedFact
    <2>6. GroupOf(c, j) \in GroupsOf(c) /\ j \in Members(c, GroupOf(c, j))
      BY <1>4, PositionFact
    <2>7. QED
      BY <2>1, <2>2, <2>5, <2>6, ComputeChain
  <1>5. QED
    BY <1>3, <1>4

\* The lane before a cell has executed the same layer on an earlier diagonal.
LEMMA EarlierLane ==
  ASSUME NEW d \in Diagonals, NEW j \in Active(d), j # 0
  PROVE  /\ d - LaneStagger \in Diagonals /\ d - LaneStagger < d /\ j - 1 \in Lanes
         /\ j - 1 \in Active(d - LaneStagger) /\ LayerOf(d - LaneStagger, j - 1) = LayerOf(d, j)
  <1>1. PICK s \in Nat \ {0} : s = LaneStagger
    BY ConstantFact
  <1>2. j \in Nat /\ j - 1 \in Nat /\ j - 1 \in Lanes
    BY LayerFact, ConstantFact DEF Lanes
  <1>3. d \in Nat /\ LayerOf(d, j) = d - s * j /\ LayerOf(d, j) \in Layers
    BY <1>1, LayerFact DEF LayerOf
  <1>4. s * (j - 1) \in Nat /\ s * (j - 1) = s * j - s
    BY <1>1, <1>2
  <1>5. d - s * j \in Nat
    BY <1>3, ConstantFact DEF Layers
  <1>6. LayerOf(d - s, j - 1) = LayerOf(d, j)
    BY <1>1, <1>2, <1>3, <1>4 DEF LayerOf
  <1>7. d - s \in Nat /\ d - s < d
    BY <1>1, <1>2, <1>3, <1>4, <1>5
  <1>8. d - s \in Diagonals
    BY <1>3, <1>7, ConstantFact DEF Diagonals
  <1>9. QED
    BY <1>1, <1>2, <1>3, <1>6, <1>7, <1>8 DEF Active

\* When a corridor was copied, the lane before has run its graph of that layer.
LEMMA CorridorChain ==
  ASSUME NEW p, NEW D, Closed(D, p), NEW d \in Diagonals, NEW j \in Active(d), j # 0,
         Op("corridor", p, d, j, j - 1) \in D
  PROVE  /\ Op("pre", p, d - LaneStagger, j - 1, j - 1) \in D
         /\ Op("post", p, d - LaneStagger, j - 1, j - 1) \in D
  <1>1. PICK x, y, z : /\ x = Op("corridor", p, d, j, j - 1)
                       /\ y = Op("pre", p, d - LaneStagger, j - 1, j - 1)
                       /\ z = Op("post", p, d - LaneStagger, j - 1, j - 1)
    OBVIOUS
  <1>2. x \in D /\ On(x) = Main(j - 1) /\ x.diagonal = d
    BY <1>1, OpOn, OpFact
  <1>3. /\ y \in Ops(p) /\ On(y) = Main(j - 1) /\ y.diagonal < d
        /\ z \in Ops(p) /\ On(z) = Main(j - 1) /\ z.diagonal < d
    BY <1>1, EarlierLane, LaneOps, OpOn, OpFact
  <1>4. Less(y, x) /\ Less(z, x)
    BY <1>2, <1>3, LessFact
  <1>5. QED
    BY <1>1, <1>2, <1>3, <1>4, ClosedFact

\* The output record follows the returns of the group.
LEMMA OutputChain ==
  ASSUME NEW p, NEW D, Closed(D, p), NEW d \in Diagonals, NEW j \in Active(d), NEW o \in Lanes,
         Op("output", p, d, GroupOf(d, j), o) \in D
  PROVE  Op("return", p, d, j, o) \in D
  <1>1. PICK x, y : x = Op("output", p, d, GroupOf(d, j), o) /\ y = Op("return", p, d, j, o)
    OBVIOUS
  <1>2. /\ x \in D /\ On(x) = Copy(o) /\ x.diagonal = d
        /\ Rank(x)[1] = 4 /\ Rank(x)[2] = GroupOf(d, j) /\ Rank(x)[3] = o /\ Rank(x)[4] = GroupCells
    BY <1>1, OpOn, OpFact, OpRank
  <1>3. /\ y \in Ops(p) /\ On(y) = Copy(o) /\ y.diagonal = d
        /\ Rank(y)[1] = 4 /\ Rank(y)[2] = GroupOf(d, j) /\ Rank(y)[3] = o /\ Rank(y)[4] = InGroup(d, j)
    BY <1>1, LaneOps, OpOn, OpFact, OpRank
  <1>4. Rank(y)[4] < Rank(x)[4]
    BY <1>2, <1>3, PositionFact, ConstantFact
  <1>5. Less(y, x)
    BY <1>2, <1>3, <1>4, LessFact
  <1>6. QED
    BY <1>1, <1>2, <1>3, <1>5, ClosedFact

\* A return follows the computation, the earlier returns on its stream, and the sum
\* of what the lane's place in the group received before.
LEMMA ReturnChain ==
  ASSUME NEW p, NEW D, Closed(D, p), NEW d \in Diagonals, NEW j \in Active(d), NEW o \in Lanes,
         Op("return", p, d, j, o) \in D
  PROVE  /\ Op("compute", p, d, GroupOf(d, j), o) \in D
         /\ \A c \in Diagonals : c < d /\ j \in Active(c) =>
              /\ Op("return", p, c, j, o) \in D
              /\ GroupOf(c, j) = GroupOf(d, j) => Op("sum", p, c, j, j) \in D
  <1>1. PICK x, y : x = Op("return", p, d, j, o) /\ y = Op("compute", p, d, GroupOf(d, j), o)
    OBVIOUS
  <1>2. x \in D /\ On(x) = Copy(o) /\ x.diagonal = d /\ Rank(x)[1] = 4
    BY <1>1, OpOn, OpFact, OpRank
  <1>3. y \in Ops(p) /\ y.diagonal = d /\ Rank(y)[1] = 3
    BY <1>1, LaneOps, OpFact, OpRank
  <1>4. Less(y, x)
    BY <1>2, <1>3, LessFact
  <1>5. Event("compute_done", GroupOf(d, j), o) \in Waits(x) /\ Event("compute_done", GroupOf(d, j), o) \in Records(y)
    BY <1>1, OpWaits, OpRecords
  <1>6. y \in D
    BY <1>2, <1>3, <1>4, <1>5, ClosedFact
  <1>7. ASSUME NEW c \in Diagonals, c < d, j \in Active(c)
        PROVE  /\ Op("return", p, c, j, o) \in D
               /\ GroupOf(c, j) = GroupOf(d, j) => Op("sum", p, c, j, j) \in D
    <2>1. PICK z, w : z = Op("return", p, c, j, o) /\ w = Op("sum", p, c, j, j)
      OBVIOUS
    <2>2. z \in Ops(p) /\ w \in Ops(p) /\ On(z) = Copy(o) /\ z.diagonal = c /\ w.diagonal = c
      BY <1>7, <2>1, LaneOps, OpOn, OpFact
    <2>3. Less(z, x) /\ Less(w, x)
      BY <1>2, <1>7, <2>2, LessFact
    <2>4. z \in D
      BY <1>2, <2>2, <2>3, ClosedFact
    <2>5. ASSUME GroupOf(c, j) = GroupOf(d, j) PROVE w \in D
      <3>1. Event("recv_free", GroupOf(d, j), j) \in Waits(x) /\ Event("recv_free", GroupOf(d, j), j) \in Records(w)
        BY <1>1, <2>1, <2>5, OpWaits, OpRecords
      <3>2. QED
        BY <1>2, <2>2, <2>3, <3>1, ClosedFact
    <2>6. QED
      BY <2>1, <2>4, <2>5
  <1>8. QED
    BY <1>1, <1>6, <1>7

\* A sum follows the outputs of all owners.
LEMMA SumChain ==
  ASSUME NEW p, NEW D, Closed(D, p), NEW d \in Diagonals, NEW j \in Active(d),
         Op("sum", p, d, j, j) \in D
  PROVE  \A o \in Lanes : /\ Op("output", p, d, GroupOf(d, j), o) \in D
                          /\ Op("return", p, d, j, o) \in D
  <1>1. SUFFICES ASSUME NEW o \in Lanes PROVE Op("output", p, d, GroupOf(d, j), o) \in D
    BY OutputChain
  <1>2. PICK x, y : x = Op("sum", p, d, j, j) /\ y = Op("output", p, d, GroupOf(d, j), o)
    OBVIOUS
  <1>3. x \in D /\ x.diagonal = d /\ Rank(x)[1] = 5 /\ Event("output_ready", GroupOf(d, j), o) \in Waits(x)
    BY <1>2, OpFact, OpRank, OpWaits
  <1>4. y \in Ops(p) /\ y.diagonal = d /\ Rank(y)[1] = 4 /\ Event("output_ready", GroupOf(d, j), o) \in Records(y)
    BY <1>2, LaneOps, OpFact, OpRank, OpRecords
  <1>5. Less(y, x)
    BY <1>3, <1>4, LessFact
  <1>6. QED
    BY <1>2, <1>3, <1>4, <1>5, ClosedFact

\* A cell completes after the lane's earlier cells, and after the same layer of the
\* lane before it.
LEMMA PostChain ==
  ASSUME NEW p, NEW D, Closed(D, p), NEW d \in Diagonals, NEW j \in Active(d),
         Op("post", p, d, j, j) \in D
  PROVE  /\ \A c \in Diagonals : c < d /\ j \in Active(c) => Op("post", p, c, j, j) \in D
         /\ j # 0 => Op("post", p, d - LaneStagger, j - 1, j - 1) \in D
  <1>1. PICK x, y : x = Op("post", p, d, j, j) /\ y = Op("pre", p, d, j, j)
    OBVIOUS
  <1>2. x \in D /\ x.diagonal = d /\ On(x) = Main(j) /\ Rank(x)[1] = 6
    BY <1>1, OpFact, OpOn, OpRank
  <1>3. y \in Ops(p) /\ y.diagonal = d /\ On(y) = Main(j) /\ Rank(y)[1] = 1
    BY <1>1, LaneOps, OpFact, OpOn, OpRank
  <1>4. y \in D
    <2>1. Less(y, x)
      BY <1>2, <1>3, LessFact
    <2>2. QED
      BY <1>2, <1>3, <2>1, ClosedFact
  <1>5. j # 0 => Op("post", p, d - LaneStagger, j - 1, j - 1) \in D
    BY <1>1, <1>4, PreChain, CorridorChain
  <1>6. ASSUME NEW c \in Diagonals, c < d, j \in Active(c) PROVE Op("post", p, c, j, j) \in D
    <2>1. PICK z : z = Op("post", p, c, j, j)
      OBVIOUS
    <2>2. z \in Ops(p) /\ z.diagonal = c /\ On(z) = Main(j)
      BY <1>6, <2>1, LaneOps, OpFact, OpOn
    <2>3. Less(z, x)
      BY <1>2, <1>6, <2>2, LessFact
    <2>4. QED
      BY <1>2, <2>1, <2>2, <2>3, ClosedFact
  <1>7. QED
    BY <1>5, <1>6

-----------------------------------------------------------------------------
(* A phase is a finite set, and its order.                                 *)

\* The operations of a diagonal are finitely many.
LEMMA PhaseFinite ==
  ASSUME NEW p, NEW d, NEW S \in SUBSET {x \in Ops(p) : x.diagonal = d}
  PROVE  IsFiniteSet(S)
  <1> DEFINE f == [x \in S |-> <<Rank(x)[1], <<Rank(x)[2], <<Rank(x)[3], Rank(x)[4]>>>>>>]
  <1>1. PICK m \in Nat : m = NLanes + 3 /\ m > 3 /\ GroupCells \in 0 .. m /\ Lanes \subseteq 0 .. m
    <2>1. NLanes \in Nat /\ GroupCells \in Nat /\ GroupCells <= NLanes /\ NLanes > 0
      BY ConstantFact
    <2>2. QED
      BY <2>1 DEF Lanes
  <1>2. PICK A, B : A = 0 .. 6 /\ B = 0 .. m
    OBVIOUS
  <1>3. IsFiniteSet(A \X (B \X (B \X B)))
    <2>1. IsFiniteSet(A) /\ IsFiniteSet(B)
      <3>1. 0 \in Int /\ 6 \in Int /\ m \in Int
        OBVIOUS
      <3>2. IsFiniteSet(0 .. 6) /\ IsFiniteSet(0 .. m)
        BY <3>1, FS_Interval, Zenon
      <3>3. QED
        BY <1>2, <3>2
    <2>2. IsFiniteSet(B \X B)
      BY <2>1, FS_Product
    <2>3. IsFiniteSet(B \X (B \X B))
      BY <2>1, <2>2, FS_Product
    <2>4. QED
      BY <2>1, <2>3, FS_Product
  <1>4. ASSUME NEW x \in S
        PROVE  /\ Legal(x) /\ x.pass = p /\ x.diagonal = d
               /\ Rank(x)[1] \in 0 .. 6 /\ Rank(x)[2] \in 0 .. m /\ Rank(x)[3] \in 0 .. m /\ Rank(x)[4] \in 0 .. m
    <2>1. Legal(x) /\ x.pass = p /\ x.diagonal = d
      BY OpsFact
    <2>2. x.do \in Kinds /\ x.n \in 0 .. m /\ x.o \in 0 .. m /\ Rank(x)[1] \in 0 .. 6
      BY <1>1, <2>1, LegalKind, LegalFact, RankFact
    <2>3. {0, 1, 2, 3} \subseteq 0 .. m
      BY <1>1
    <2>4. x.do \notin {"compute", "output"} =>
            GroupOf(x.diagonal, x.n) \in 0 .. m /\ InGroup(x.diagonal, x.n) \in 0 .. m
      <3>1. Groups \subseteq 0 .. m /\ 0 .. GroupCells - 1 \subseteq 0 .. m
        BY <1>1, ConstantFact
      <3>2. QED
        BY <2>1, <3>1, LegalFact
    <2>5. Rank(x)[2] \in 0 .. m /\ Rank(x)[3] \in 0 .. m /\ Rank(x)[4] \in 0 .. m
      <3>1. CASE x.do \in {"corridor", "copied", "pre", "source", "pack", "send"}
        BY <2>2, <2>3, <3>1, RankIs
      <3>2. CASE x.do \in {"input", "compute", "output", "sum", "post"}
        BY <1>1, <2>2, <2>3, <3>2, RankIs
      <3>3. CASE x.do \in {"shared", "return"}
        BY <2>2, <2>3, <2>4, <3>3, RankIs
      <3>4. QED
        BY <2>2, <3>1, <3>2, <3>3 DEF Kinds
    <2>6. QED
      BY <2>1, <2>2, <2>5
  <1>5. \A x \in S : f[x] = <<Rank(x)[1], <<Rank(x)[2], <<Rank(x)[3], Rank(x)[4]>>>>>>
    OBVIOUS
  <1>6. f \in [S -> A \X (B \X (B \X B))]
    <2>1. \A x \in S : Rank(x)[1] \in A /\ Rank(x)[2] \in B /\ Rank(x)[3] \in B /\ Rank(x)[4] \in B
      BY <1>2, <1>4
    <2>2. QED
      BY <2>1
  <1>7. ASSUME NEW x \in S, NEW y \in S, f[x] = f[y] PROVE x = y
    <2>1. /\ Rank(x)[1] = Rank(y)[1] /\ Rank(x)[2] = Rank(y)[2]
          /\ Rank(x)[3] = Rank(y)[3] /\ Rank(x)[4] = Rank(y)[4]
      BY <1>5, <1>7
    <2>2. QED
      BY <1>4, <2>1, SameRank
  <1> HIDE DEF f
  <1>8. f \in Injection(S, A \X (B \X (B \X B)))
    BY <1>6, <1>7, Fun_IsInj
  <1>9. QED
    BY <1>3, <1>8, FS_Injection

\* Two sequences one after the other.
Joined(A, r, q, w, m, n) ==
    /\ r \in Seq(A) /\ DOMAIN r = 1 .. m + n
    /\ \A i \in 1 .. m : r[i] = q[i]
    /\ \A i \in 1 .. m + n : i > m => i - m \in 1 .. n /\ r[i] = w[i - m]

\* What \o builds.
LEMMA JoinedFact ==
  ASSUME NEW A, NEW q \in Seq(A), NEW w \in Seq(A), NEW m \in Nat, NEW n \in Nat, m = Len(q), n = Len(w)
  PROVE  Joined(A, q \o w, q, w, m, n)
  BY DEF Joined

\* InOrder lists every element of a set once, in the order of Less.
LEMMA InOrderFact ==
  ASSUME NEW p, NEW S \in SUBSET Ops(p), IsFiniteSet(S)
  PROVE  /\ Cardinality(S) \in Nat /\ DOMAIN InOrder(S) = 1 .. Cardinality(S)
         /\ \A i \in 1 .. Cardinality(S) : InOrder(S)[i] \in S
         /\ \A x \in S : \E i \in 1 .. Cardinality(S) : InOrder(S)[i] = x
         /\ \A i, k \in 1 .. Cardinality(S) : i < k => Less(InOrder(S)[i], InOrder(S)[k])
  <1> DEFINE Upto(x) == {y \in S : ~Less(x, y)}
             n == Cardinality(S)
             rank == [x \in S |-> Cardinality(Upto(x))]
  <1>1. n \in Nat
    BY FS_CardinalityType
  <1>2. ASSUME NEW x \in S PROVE rank[x] \in 1 .. n /\ IsFiniteSet(Upto(x)) /\ x \in Upto(x)
    <2>1. x \in Upto(x)
      BY LessOrder DEF Upto
    <2>2. /\ IsFiniteSet(Upto(x)) /\ Cardinality(Upto(x)) <= n
          /\ Cardinality(Upto(x)) \in Nat /\ Cardinality(Upto(x)) # 0
      BY <2>1, FS_Subset, FS_CardinalityType, FS_EmptySet
    <2>3. QED
      BY <1>1, <2>1, <2>2
  <1>3. ASSUME NEW x \in S, NEW y \in S, Less(x, y) PROVE rank[x] < rank[y]
    <2>1. Upto(x) \subseteq Upto(y) /\ y \in Upto(y) /\ y \notin Upto(x)
      <3>1. y \in Upto(y) /\ y \notin Upto(x)
        BY <1>2, <1>3
      <3>2. ASSUME NEW z \in Upto(x) PROVE z \in Upto(y)
        <4>1. z \in S /\ ~Less(x, z)
          OBVIOUS
        <4>2. ~Less(y, z)
          BY <1>3, <4>1, LessOrder
        <4>3. QED
          BY <4>1, <4>2
      <3>3. QED
        BY <3>1, <3>2
    <2>2. IsFiniteSet(Upto(y)) /\ rank[x] = Cardinality(Upto(x)) /\ rank[y] = Cardinality(Upto(y))
      BY <1>2
    <2>3. rank[x] \in Nat /\ rank[y] \in Nat
      BY <1>2
    <2> HIDE DEF Upto, rank
    <2>4. rank[x] <= rank[y] /\ rank[x] # rank[y]
      BY <2>1, <2>2, FS_Subset
    <2>5. QED
      BY <2>3, <2>4
  <1>4. \A x, y \in S : rank[x] = rank[y] => x = y
    <2>1. SUFFICES ASSUME NEW x \in S, NEW y \in S, x # y PROVE rank[x] # rank[y]
      OBVIOUS
    <2>2. Less(x, y) \/ Less(y, x)
      BY <2>1, LessOrder
    <2>3. rank[x] \in Nat /\ rank[y] \in Nat
      BY <1>2
    <2> HIDE DEF rank
    <2>4. QED
      BY <1>3, <2>2, <2>3
  <1>5. \A i \in 1 .. n : \E x \in S : rank[x] = i
    <2>1. rank \in Injection(S, 1 .. n)
      <3>1. rank \in [S -> 1 .. n]
        BY <1>2
      <3>2. QED
        BY <1>4, <3>1, Fun_IsInj
    <2>2. IsFiniteSet(1 .. n) /\ Cardinality(1 .. n) = n
      BY <1>1, FS_Interval
    <2>3. rank \in Surjection(S, 1 .. n)
      BY <2>1, <2>2, FS_Injection
    <2>4. QED
      BY <2>3 DEF Surjection
  <1>6. ASSUME NEW i \in 1 .. n PROVE InOrder(S)[i] \in S /\ rank[InOrder(S)[i]] = i
    <2>1. InOrder(S)[i] = CHOOSE x \in S : Cardinality(Upto(x)) = i
      BY DEF InOrder
    <2>2. \E x \in S : Cardinality(Upto(x)) = i
      BY <1>5
    <2>3. QED
      BY <2>1, <2>2
  <1>7. DOMAIN InOrder(S) = 1 .. n
    BY DEF InOrder
  <1>8. ASSUME NEW x \in S PROVE \E i \in 1 .. n : InOrder(S)[i] = x
    <2>1. rank[x] \in 1 .. n
      BY <1>2
    <2> HIDE DEF rank
    <2>2. QED
      BY <1>4, <1>6, <2>1
  <1>9. ASSUME NEW i \in 1 .. n, NEW k \in 1 .. n, i < k PROVE Less(InOrder(S)[i], InOrder(S)[k])
    <2>1. PICK x \in S, y \in S : x = InOrder(S)[i] /\ y = InOrder(S)[k]
      BY <1>6
    <2>2. rank[x] = i /\ rank[y] = k
      BY <1>6, <2>1
    <2>3. x # y
      BY <1>9, <2>2
    <2> HIDE DEF rank
    <2>4. ~Less(y, x)
      <3>1. SUFFICES ASSUME Less(y, x) PROVE FALSE
        OBVIOUS
      <3>2. rank[y] < rank[x]
        BY <1>3, <3>1
      <3>3. QED
        BY <1>9, <2>2, <3>2
    <2>5. QED
      BY <2>1, <2>3, <2>4, LessOrder
  <1>10. QED
    BY <1>1, <1>6, <1>7, <1>8, <1>9

-----------------------------------------------------------------------------
(* The streams: what is enqueued on them, G, and what has run of it.       *)

\* z is on y's stream and not before y: when z has run, y has.
Covers(z, y, G) == z \in G /\ On(z) = On(y) /\ (z = y \/ Less(y, z))

\* A stream holds operations of its own, in the order in which they were issued.
QueueOK(G) ==
  \A s \in Streams :
    /\ \A i \in DOMAIN queue[s] : queue[s][i].op \in G /\ On(queue[s][i].op) = s
    /\ \A i, k \in DOMAIN queue[s] : i < k => Less(queue[s][i].op, queue[s][k].op)
\* An operation waits for all that was recorded before it.
AwaitedOK(G) ==
  \A s \in Streams : \A i \in DOMAIN queue[s] : \A y \in G :
    Less(y, queue[s][i].op) /\ Waits(queue[s][i].op) \cap Records(y) # {} =>
      \E z \in queue[s][i].after : Covers(z, y, G)
\* The last record of an event covers all of its records.
RecordedOK(G) == \A y \in G : \A e \in Records(y) : Covers(recorded[e], y, G)
StreamsOK(G)  == QueueOK(G) /\ AwaitedOK(G) /\ RecordedOK(G)

\* Operations wait for events of the service and of the corridors.
LEMMA WaitsFact ==
  ASSUME NEW x, Legal(x)
  PROVE  Waits(x) \subseteq Events
  <1>1. ASSUME NEW a \in {"copied", "source_ready", "input_ready", "compute_done",
                          "scratch_free", "output_ready", "recv_free"}, NEW g \in Groups, NEW j \in Lanes
        PROVE  Event(a, g, j) \in Events
    BY DEF Event, Events
  <1>2. x.n \in Lanes /\ x.o \in Lanes /\ Groups = Lanes /\ 0 \in Lanes /\ x.do \in Kinds
    BY LegalFact, ConstantFact, LegalKind
  <1>3. x.do \notin {"compute", "output"} => GroupOf(x.diagonal, x.n) \in Groups
    BY LegalFact
  <1>4. CASE x.do = "copied"
    <2>1. x.n \in Lanes /\ x.n # 0
      BY <1>4, <1>2 DEF Legal
    <2>2. x.n - 1 \in Lanes
      BY <2>1, ConstantFact DEF Lanes
    <2>3. QED
      BY <1>1, <1>2, <1>4, <2>2 DEF Waits, Copied
  <1>5. CASE x.do \in {"pack", "send"}
    BY <1>1, <1>2, <1>3, <1>5 DEF Waits, Free
  <1>6. CASE x.do = "compute"
    <2>1. Waits(x) = Inputs(x.diagonal, x.n)
      BY <1>6 DEF Waits
    <2>2. Members(x.diagonal, x.n) \subseteq Lanes
      BY DEF Members, Active
    <2>3. QED
      BY <1>1, <1>2, <2>1, <2>2 DEF Inputs
  <1>7. CASE x.do \in {"return", "sum"}
    BY <1>1, <1>2, <1>3, <1>7 DEF Waits
  <1>8. QED
    BY <1>2, <1>4, <1>5, <1>6, <1>7 DEF Waits, Kinds

\* The operations of the program are well typed.
LEMMA OpsAreOperations ==
  ASSUME NEW p \in 1 .. Passes, NEW x \in Ops(p)
  PROVE  x \in Operations
  <1>1. Legal(x) /\ x.pass = p
    BY OpsFact
  <1>2. x.do \in Kinds /\ x.diagonal \in 0 .. LastDiagonal /\ x.n \in Lanes /\ x.o \in Lanes
    BY <1>1, LegalKind, LegalFact DEF Diagonals
  <1>3. x = Op(x.do, x.pass, x.diagonal, x.n, x.o)
    BY <1>1 DEF Legal
  <1>4. PICK k, d, n, o : k = x.do /\ d = x.diagonal /\ n = x.n /\ o = x.o
    OBVIOUS
  <1>5. x = [do |-> k, pass |-> p, diagonal |-> d, n |-> n, o |-> o]
    BY <1>1, <1>3, <1>4 DEF Op
  <1>6. QED
    BY <1>2, <1>4, <1>5 DEF Operations

\* Stream s grew from q to r by the operations in S that are for it; latest is what
\* recorded every event.
Grown(q, r, s, S, latest) ==
  /\ \A i \in DOMAIN q : i \in DOMAIN r /\ r[i] = q[i]
  /\ \A i \in DOMAIN r : \/ i \in DOMAIN q
                         \/ /\ i > Len(q) /\ r[i].op \in S /\ On(r[i].op) = s
                            /\ \A e \in Waits(r[i].op) : latest[e] \in r[i].after
  /\ \A i, k \in DOMAIN r : i > Len(q) /\ i < k => Less(r[i].op, r[k].op)
  /\ \A x \in S : On(x) = s => \E i \in DOMAIN r : r[i].op = x
\* e was recorded by an operation in S, or not.
Latest(e, old, latest, S) ==
  \/ latest[e] \in S /\ e \in Records(latest[e])
  \/ latest[e] = old[e] /\ \A x \in S : e \notin Records(x)

\* What a phase adds to the streams.
LEMMA Appended ==
  ASSUME NEW p \in 1 .. Passes, NEW d, NEW S \in SUBSET {x \in Ops(p) : x.diagonal = d},
         queue \in [Streams -> Seq(Entries)], recorded \in [Events -> Operations \cup {NoOp}], enqueue(S)
  PROVE  /\ queue' \in [Streams -> Seq(Entries)] /\ recorded' \in [Events -> Operations \cup {NoOp}]
         /\ \A e \in Events : Latest(e, recorded, recorded', S)
         /\ \A s \in Streams : Grown(queue[s], queue'[s], s, S, recorded')
  <1>1. S \subseteq Ops(p) /\ S \subseteq Operations /\ \A x \in S : Legal(x)
    BY OpsAreOperations, OpsFact
  <1>2. recorded' = [e \in Events |-> IF \E x \in S : e \in Records(x)
                                      THEN CHOOSE x \in S : e \in Records(x)
                                      ELSE recorded[e]]
    BY DEF enqueue
  <1>3. ASSUME NEW e \in Events
        PROVE  /\ recorded'[e] \in Operations \cup {NoOp}
               /\ Latest(e, recorded, recorded', S)
    <2>1. CASE \E x \in S : e \in Records(x)
      <3>1. recorded'[e] = CHOOSE x \in S : e \in Records(x)
        BY <1>2, <2>1
      <3>2. QED
        BY <1>1, <2>1, <3>1 DEF Latest
    <2>2. CASE ~ \E x \in S : e \in Records(x)
      BY <1>2, <2>2 DEF Latest
    <2>3. QED
      BY <2>1, <2>2
  <1>4. recorded' \in [Events -> Operations \cup {NoOp}]
    BY <1>2, <1>3
  <1> DEFINE added(s) == {x \in S : On(x) = s}
             R(s) == [i \in DOMAIN InOrder(added(s)) |->
                        [op |-> InOrder(added(s))[i],
                         after |-> {recorded'[e] : e \in Waits(InOrder(added(s))[i])}]]
  <1>5. queue' = [s \in Streams |-> queue[s] \o R(s)]
    BY DEF enqueue
  <1>6. ASSUME NEW s \in Streams
        PROVE  queue'[s] \in Seq(Entries) /\ Grown(queue[s], queue'[s], s, S, recorded')
    <2>1. PICK T \in SUBSET S : T = added(s)
      OBVIOUS
    <2>2. PICK f, n : f = InOrder(T) /\ n = Cardinality(T)
      OBVIOUS
    <2>3. T \in SUBSET {x \in Ops(p) : x.diagonal = d} /\ T \in SUBSET Ops(p)
      OBVIOUS
    <2>4. IsFiniteSet(T)
      BY <2>3, PhaseFinite
    <2>5. /\ n \in Nat /\ DOMAIN f = 1 .. n
          /\ \A i \in 1 .. n : f[i] \in T
          /\ \A x \in T : \E i \in 1 .. n : f[i] = x
          /\ \A i, k \in 1 .. n : i < k => Less(f[i], f[k])
      BY <2>2, <2>3, <2>4, InOrderFact, SMTT(60)
    <2>6. PICK w : w = R(s)
      OBVIOUS
    <2>7. w = [i \in 1 .. n |-> [op |-> f[i], after |-> {recorded'[e] : e \in Waits(f[i])}]]
      BY <2>1, <2>2, <2>5, <2>6
    <2>8. w \in [1 .. n -> Entries]
      <3>1. ASSUME NEW i \in 1 .. n PROVE w[i] \in Entries
        <4>1. f[i] \in S
          BY <2>5
        <4>2. PICK a : a = {recorded'[e] : e \in Waits(f[i])}
          OBVIOUS
        <4>3. Waits(f[i]) \subseteq Events
          BY <1>1, <4>1, WaitsFact
        <4>4. a \in SUBSET (Operations \cup {NoOp})
          BY <1>3, <4>2, <4>3
        <4>5. w[i] = [op |-> f[i], after |-> a]
          BY <2>7, <4>2
        <4>6. f[i] \in Operations
          BY <1>1, <4>1
        <4>7. QED
          BY <4>4, <4>5, <4>6 DEF Entries
      <3>2. QED
        BY <2>7, <3>1
    <2>9. w \in Seq(Entries) /\ Len(w) = n
      BY <2>5, <2>8
    <2>10. PICK q, r : q = queue[s] /\ r = queue'[s]
      OBVIOUS
    <2>11. q \in Seq(Entries) /\ r = q \o w
      BY <1>5, <2>6, <2>10
    <2>12. PICK m \in Nat : m = Len(q) /\ DOMAIN q = 1 .. m
      BY <2>11
    <2>13. /\ r \in Seq(Entries) /\ DOMAIN r = 1 .. m + n
           /\ \A i \in 1 .. m : r[i] = q[i]
           /\ \A i \in 1 .. m + n : i > m => i - m \in 1 .. n /\ r[i] = w[i - m]
      <3>1. PICK A : A = Entries
        OBVIOUS
      <3>2. q \in Seq(A) /\ w \in Seq(A) /\ m = Len(q) /\ n = Len(w)
        BY <2>9, <2>11, <2>12, <3>1
      <3>3. Joined(A, q \o w, q, w, m, n)
        BY <2>5, <2>12, <3>2, JoinedFact
      <3>4. QED
        BY <2>11, <3>1, <3>3 DEF Joined
    <2>14. ASSUME NEW i \in 1 .. n
           PROVE  w[i].op = f[i] /\ \A e \in Waits(w[i].op) : recorded'[e] \in w[i].after
      BY <2>7
    <2>15. \A i \in 1 .. m : i \in 1 .. m + n
      BY <2>5
    <2>16. ASSUME NEW i \in 1 .. m + n, i > m
           PROVE  /\ r[i].op \in S /\ On(r[i].op) = s
                  /\ \A e \in Waits(r[i].op) : recorded'[e] \in r[i].after
      <3>1. i - m \in 1 .. n /\ r[i] = w[i - m]
        BY <2>13, <2>16
      <3>2. PICK k \in 1 .. n : k = i - m
        BY <3>1
      <3>3. r[i].op = f[k] /\ f[k] \in T /\ \A e \in Waits(r[i].op) : recorded'[e] \in r[i].after
        BY <2>5, <2>14, <3>1, <3>2
      <3>4. QED
        BY <2>1, <3>3
    <2>17. ASSUME NEW i \in 1 .. m + n, NEW k \in 1 .. m + n, i > m, i < k
           PROVE  Less(r[i].op, r[k].op)
      <3>1. k > m
        BY <2>5, <2>17
      <3>2. PICK a \in 1 .. n, b \in 1 .. n : a = i - m /\ b = k - m /\ r[i] = w[a] /\ r[k] = w[b]
        BY <2>13, <2>17, <3>1
      <3>3. a < b
        BY <2>5, <2>17, <3>2
      <3>4. QED
        BY <2>5, <2>14, <3>2, <3>3
    <2>18. ASSUME NEW x \in S, On(x) = s PROVE \E i \in 1 .. m + n : r[i].op = x
      <3>1. PICK k \in 1 .. n : f[k] = x
        BY <2>1, <2>5, <2>18
      <3>2. PICK i \in 1 .. m + n : i = m + k
        BY <2>5
      <3>3. i > m /\ i - m = k
        BY <3>2, <2>5
      <3>4. r[i] = w[k]
        BY <2>13, <3>3
      <3>5. QED
        BY <2>14, <3>1, <3>4
    <2>19. \A i \in 1 .. m + n : i \in 1 .. m \/ i > m
      BY <2>5
    <2>20. QED
      <3>1. /\ \A i \in DOMAIN q : i \in DOMAIN r /\ r[i] = q[i]
            /\ \A i \in DOMAIN r : \/ i \in DOMAIN q
                                   \/ /\ i > Len(q) /\ r[i].op \in S /\ On(r[i].op) = s
                                      /\ \A e \in Waits(r[i].op) : recorded'[e] \in r[i].after
        BY <2>12, <2>13, <2>15, <2>16, <2>19
      <3>2. \A i, k \in DOMAIN r : i > Len(q) /\ i < k => Less(r[i].op, r[k].op)
        BY <2>12, <2>13, <2>17
      <3>3. \A x \in S : On(x) = s => \E i \in DOMAIN r : r[i].op = x
        BY <2>13, <2>18
      <3>4. QED
        BY <2>10, <2>13, <3>1, <3>2, <3>3 DEF Grown
  <1>7. queue' \in [Streams -> Seq(Entries)]
    <2>1. \A s \in Streams : queue'[s] \in Seq(Entries)
      BY <1>6
    <2>2. QED
      BY <1>5, <2>1
  <1>8. QED
    BY <1>3, <1>4, <1>6, <1>7

\* A phase leaves the streams in order.
LEMMA EnqueueStep ==
  ASSUME NEW p \in 1 .. Passes, NEW d, NEW G \in SUBSET Ops(p),
         NEW S \in SUBSET Ops(p), \A x \in S : x.diagonal = d,
         queue \in [Streams -> Seq(Entries)], recorded \in [Events -> Operations \cup {NoOp}],
         StreamsOK(G), enqueue(S), \A x \in S : \A y \in G : Less(y, x)
  PROVE  /\ queue' \in [Streams -> Seq(Entries)] /\ recorded' \in [Events -> Operations \cup {NoOp}]
         /\ StreamsOK(G \cup S)'
         /\ \A x \in S : Pending(x)'
         /\ \A x \in G : Pending(x)' <=> Pending(x)
  <1>1. PICK H : H = G \cup S
    OBVIOUS
  <1>2. /\ queue' \in [Streams -> Seq(Entries)] /\ recorded' \in [Events -> Operations \cup {NoOp}]
        /\ \A e \in Events : Latest(e, recorded, recorded', S)
        /\ \A s \in Streams : Grown(queue[s], queue'[s], s, S, recorded')
    <2>1. S \in SUBSET {x \in Ops(p) : x.diagonal = d}
      OBVIOUS
    <2>2. QED
      BY <2>1, Appended
  <1>3. H \subseteq Ops(p) /\ \A x \in H : Legal(x)
    BY <1>1, OpsFact
  <1>4. \A x \in S : \A y \in G : ~Less(x, y)
    BY LessOrder
  <1>5. ASSUME NEW s \in Streams, NEW q, q = queue[s], NEW r, r = queue'[s]
        PROVE  /\ DOMAIN q = 1 .. Len(q) /\ Len(q) \in Nat /\ DOMAIN r \subseteq Nat
               /\ Grown(q, r, s, S, recorded')
               /\ \A i \in DOMAIN q : q[i].op \in G /\ On(q[i].op) = s
               /\ \A i, k \in DOMAIN q : i < k => Less(q[i].op, q[k].op)
    <2>1. q \in Seq(Entries) /\ r \in Seq(Entries)
      BY <1>2, <1>5
    <2>2. DOMAIN q = 1 .. Len(q) /\ Len(q) \in Nat /\ DOMAIN r \subseteq Nat
      BY <2>1
    <2>3. /\ \A i \in DOMAIN q : q[i].op \in G /\ On(q[i].op) = s
          /\ \A i, k \in DOMAIN q : i < k => Less(q[i].op, q[k].op)
      BY <1>5 DEF StreamsOK, QueueOK
    <2>4. QED
      BY <1>2, <1>5, <2>2, <2>3
  <1>6. RecordedOK(H)'
    <2>1. SUFFICES ASSUME NEW y \in H, NEW e \in Records(y) PROVE Covers(recorded'[e], y, H)
      BY DEF RecordedOK
    <2>2. e \in Events
      BY <1>3, RecordsFact
    <2>3. CASE \E x \in S : e \in Records(x)
      <3>1. PICK x \in S : x = recorded'[e] /\ e \in Records(x)
        BY <1>2, <2>2, <2>3 DEF Latest
      <3>2. On(x) = On(y) /\ (x.diagonal = y.diagonal => x = y)
        BY <1>1, <1>3, <3>1, RecorderFact
      <3>3. CASE y \in S
        BY <1>1, <3>1, <3>2, <3>3 DEF Covers
      <3>4. CASE y \in G
        BY <1>1, <3>1, <3>2, <3>4 DEF Covers
      <3>5. QED
        BY <1>1, <3>3, <3>4
    <2>4. CASE ~ \E x \in S : e \in Records(x)
      <3>1. y \in G /\ recorded'[e] = recorded[e]
        BY <1>1, <1>2, <2>2, <2>4 DEF Latest
      <3>2. Covers(recorded[e], y, G)
        BY <3>1 DEF StreamsOK, RecordedOK
      <3>3. QED
        BY <1>1, <3>1, <3>2 DEF Covers
    <2>5. QED
      BY <2>3, <2>4
  <1>7. QueueOK(H)'
    <2>1. SUFFICES ASSUME NEW s \in Streams
                   PROVE  /\ \A i \in DOMAIN queue'[s] : queue'[s][i].op \in H /\ On(queue'[s][i].op) = s
                          /\ \A i, k \in DOMAIN queue'[s] : i < k => Less(queue'[s][i].op, queue'[s][k].op)
      BY DEF QueueOK
    <2>2. PICK q, r : q = queue[s] /\ r = queue'[s]
      OBVIOUS
    <2>6. /\ DOMAIN q = 1 .. Len(q) /\ Len(q) \in Nat /\ DOMAIN r \subseteq Nat
          /\ Grown(q, r, s, S, recorded')
          /\ \A i \in DOMAIN q : q[i].op \in G /\ On(q[i].op) = s
          /\ \A i, k \in DOMAIN q : i < k => Less(q[i].op, q[k].op)
      BY <1>5, <2>2
    <2>3. \A i \in DOMAIN r : r[i].op \in H /\ On(r[i].op) = s
      BY <1>1, <2>6 DEF Grown
    <2>4. ASSUME NEW i \in DOMAIN r, NEW k \in DOMAIN r, i < k PROVE Less(r[i].op, r[k].op)
      <3>1. CASE i > Len(q)
        BY <2>4, <2>6, <3>1 DEF Grown
      <3>2. CASE i \in DOMAIN q /\ k \in DOMAIN q
        BY <2>4, <2>6, <3>2 DEF Grown
      <3>3. CASE i \in DOMAIN q /\ k > Len(q) /\ r[k].op \in S
        <4>1. r[i].op \in G
          BY <2>6, <3>3 DEF Grown
        <4>2. QED
          BY <3>3, <4>1
      <3>4. QED
        BY <2>6, <3>1, <3>2, <3>3 DEF Grown
    <2>5. QED
      BY <2>2, <2>3, <2>4
  <1>8. AwaitedOK(H)'
    <2>1. SUFFICES ASSUME NEW s \in Streams, NEW i \in DOMAIN queue'[s], NEW y \in H,
                          Less(y, queue'[s][i].op), Waits(queue'[s][i].op) \cap Records(y) # {}
                   PROVE  \E z \in queue'[s][i].after : Covers(z, y, H)
      BY DEF AwaitedOK
    <2>2. PICK q, r : q = queue[s] /\ r = queue'[s]
      OBVIOUS
    <2>6. Grown(q, r, s, S, recorded') /\ \A k \in DOMAIN q : q[k].op \in G
      BY <1>5, <2>2
    <2>3. CASE i \in DOMAIN q
      <3>1. r[i] = q[i] /\ q[i].op \in G
        BY <2>3, <2>6 DEF Grown
      <3>2. y \in G
        BY <1>1, <1>4, <2>1, <2>2, <3>1
      <3>3. \E z \in q[i].after : Covers(z, y, G)
        BY <2>1, <2>2, <2>3, <3>1, <3>2 DEF StreamsOK, AwaitedOK
      <3>4. QED
        BY <1>1, <2>2, <3>1, <3>3 DEF Covers
    <2>4. CASE i \notin DOMAIN q
      <3>1. PICK e : e \in Waits(r[i].op) /\ e \in Records(y)
        BY <2>1, <2>2
      <3>2. recorded'[e] \in r[i].after
        BY <2>1, <2>2, <2>4, <2>6, <3>1 DEF Grown
      <3>3. Covers(recorded'[e], y, H)
        BY <1>6, <3>1 DEF RecordedOK
      <3>4. QED
        BY <2>2, <3>2, <3>3
    <2>5. QED
      BY <2>3, <2>4
  <1>9. ASSUME NEW x \in S PROVE Pending(x)'
    <2>1. On(x) \in Streams
      BY <1>1, <1>3, OnIs
    <2>2. \E i \in DOMAIN queue'[On(x)] : queue'[On(x)][i].op = x
      BY <1>2, <2>1 DEF Grown
    <2>3. QED
      BY <2>2 DEF Pending
  <1>10. ASSUME NEW x \in G PROVE Pending(x)' <=> Pending(x)
    <2>1. On(x) \in Streams
      BY <1>1, <1>3, OnIs
    <2>2. x \notin S
      BY <1>3, <1>1, LessOrder
    <2>3. PICK q, r : q = queue[On(x)] /\ r = queue'[On(x)]
      OBVIOUS
    <2>6. Grown(q, r, On(x), S, recorded')
      BY <1>5, <2>1, <2>3
    <2>4. (\E i \in DOMAIN r : r[i].op = x) <=> (\E i \in DOMAIN q : q[i].op = x)
      BY <2>2, <2>6 DEF Grown
    <2>5. QED
      BY <2>3, <2>4 DEF Pending
  <1>12. StreamsOK(G \cup S)'
    BY <1>1, <1>6, <1>7, <1>8 DEF StreamsOK
  <1>13. QED
    BY <1>2, <1>9, <1>10, <1>12

\* D has run of G, what was issued of pass p.
HasRun(D, G, p) ==
  /\ queue \in [Streams -> Seq(Entries)]
  /\ G \subseteq Ops(p) /\ \A y \in Ops(p) : \A z \in G : Less(y, z) => y \in G
  /\ D \subseteq G /\ \A y \in G : y \in D <=> ~Pending(y)
  /\ StreamsOK(G) /\ Closed(D, p)

\* x is what stream s runs.
RunsNext(s, kinds, x) == s \in Streams /\ Runs(s, kinds) /\ x = Head(queue[s]).op

\* What runs next had to wait for nothing that has not run.
LEMMA RunStep ==
  ASSUME NEW p, NEW G, NEW D, NEW s, NEW kinds, NEW x, HasRun(D, G, p), RunsNext(s, kinds, x)
  PROVE  /\ x \in G /\ x \notin D /\ x.do \in kinds /\ On(x) = s
         /\ HasRun(D \cup {x}, G, p)'
  <1>0. /\ G \subseteq Ops(p) /\ \A y \in Ops(p) : \A z \in G : Less(y, z) => y \in G
        /\ D \subseteq G /\ \A y \in G : y \in D <=> ~Pending(y)
        /\ StreamsOK(G) /\ Closed(D, p)
        /\ queue \in [Streams -> Seq(Entries)] /\ s \in Streams /\ x = Head(queue[s]).op
    BY DEF HasRun, RunsNext
  <1>1. PICK q, r : q = queue[s] /\ r = queue'[s]
    OBVIOUS
  <1>2. /\ q # <<>> /\ Head(q).op.do \in kinds /\ \A z \in Head(q).after : ~Pending(z)
        /\ queue' = [queue EXCEPT ![s] = Tail(@)] /\ recorded' = recorded
    BY <1>0, <1>1 DEF Runs, RunsNext
  <1>3. q \in Seq(Entries) /\ r = Tail(q)
    BY <1>0, <1>1, <1>2
  <1>4. PICK n \in Nat : n = Len(q) /\ n > 0 /\ DOMAIN q = 1 .. n /\ Head(q) = q[1]
    BY <1>0, <1>2, <1>3
  <1>5. /\ r \in Seq(Entries) /\ DOMAIN r = 1 .. n - 1
        /\ \A i \in 1 .. n - 1 : i + 1 \in 1 .. n /\ r[i] = q[i + 1]
    BY <1>0, <1>2, <1>3, <1>4
  <1>6. queue' \in [Streams -> Seq(Entries)] /\ \A t \in Streams : t # s => queue'[t] = queue[t]
    BY <1>0, <1>1, <1>2, <1>5
  <1>7. /\ \A i \in 1 .. n : q[i].op \in G /\ On(q[i].op) = s
        /\ \A i, k \in 1 .. n : i < k => Less(q[i].op, q[k].op)
    BY <1>0, <1>1, <1>4 DEF StreamsOK, QueueOK
  <1>8. 1 \in 1 .. n /\ x = q[1].op
    BY <1>0, <1>1, <1>4
  <1>9. x \in G /\ On(x) = s /\ x.do \in kinds /\ Pending(x) /\ x \notin D
    <2>1. x \in G /\ On(x) = s /\ x.do \in kinds
      BY <1>0, <1>1, <1>2, <1>7, <1>8
    <2>2. Pending(x)
      BY <1>0, <1>1, <1>4, <1>8, <2>1 DEF Pending
    <2>3. QED
      BY <1>0, <2>1, <2>2
  <1>10. ASSUME NEW i \in 1 .. n, i # 1 PROVE Less(x, q[i].op) /\ i - 1 \in 1 .. n - 1 /\ r[i - 1] = q[i]
    <2>1. 1 < i /\ i - 1 \in 1 .. n - 1
      BY <1>0, <1>10
    <2>2. (i - 1) + 1 = i
      BY <1>0, <1>10
    <2>3. QED
      BY <1>0, <1>5, <1>7, <1>8, <2>1, <2>2
  <1>11. ASSUME NEW y \in G PROVE Pending(y)' <=> Pending(y) /\ y # x
    <2>1. On(y) \in Streams
      BY <1>0, OpsFact, OnIs
    <2>2. CASE On(y) # s
      <3>1. queue'[On(y)] = queue[On(y)] /\ y # x
        BY <1>0, <1>6, <1>9, <2>1, <2>2
      <3>2. QED
        BY <1>0, <3>1 DEF Pending
    <2>3. CASE On(y) = s
      <3>1. Pending(y) <=> \E i \in 1 .. n : q[i].op = y
        BY <1>0, <1>1, <1>4, <2>3 DEF Pending
      <3>2. Pending(y)' <=> \E i \in 1 .. n - 1 : r[i].op = y
        BY <1>0, <1>1, <1>5, <2>3 DEF Pending
      <3>3. ASSUME NEW i \in 1 .. n - 1, r[i].op = y PROVE y # x /\ \E k \in 1 .. n : q[k].op = y
        <4>1. PICK k \in 1 .. n : k = i + 1 /\ r[i] = q[k] /\ k # 1
          BY <1>0, <1>5
        <4>2. Less(x, y)
          BY <1>0, <1>10, <3>3, <4>1
        <4>3. QED
          BY <1>0, <1>9, <3>3, <4>1, <4>2, LessOrder
      <3>4. ASSUME NEW i \in 1 .. n, q[i].op = y, y # x PROVE \E k \in 1 .. n - 1 : r[k].op = y
        BY <1>0, <1>8, <1>10, <3>4
      <3>5. QED
        BY <1>0, <3>1, <3>2, <3>3, <3>4
    <2>4. QED
      BY <1>0, <2>2, <2>3
  <1>12. \A y \in G : Pending(y)' <=> y \notin D \cup {x}
    BY <1>0, <1>9, <1>11
  <1>13. Closed(D \cup {x}, p)
    <2>1. SUFFICES ASSUME NEW y \in Ops(p), Before(y, x) PROVE y \in D
      BY <1>0 DEF Closed
    <2>2. Less(y, x) /\ y \in G /\ y # x
      BY <1>0, <1>9, <2>1, LessOrder DEF Before
    <2>3. CASE On(y) = On(x)
      <3>1. SUFFICES ASSUME Pending(y) PROVE FALSE
        BY <1>0, <2>2
      <3>2. PICK i \in 1 .. n : q[i].op = y
        BY <1>0, <1>1, <1>4, <1>9, <2>3, <3>1 DEF Pending
      <3>3. Less(x, y)
        BY <1>0, <1>8, <1>10, <2>2, <3>2
      <3>4. QED
        BY <1>0, <1>9, <2>2, <3>3, LessOrder
    <2>4. CASE Waits(x) \cap Records(y) # {}
      <3>1. PICK z \in q[1].after : Covers(z, y, G)
        BY <1>0, <1>1, <1>4, <1>8, <2>2, <2>4 DEF StreamsOK, AwaitedOK
      <3>2. z \in D
        BY <1>0, <1>2, <1>4, <3>1 DEF Covers
      <3>3. z = y \/ Before(y, z)
        BY <1>0, <3>1 DEF Covers, Before
      <3>4. QED
        BY <1>0, <3>2, <3>3 DEF Closed
    <2>5. QED
      BY <1>0, <2>1, <2>3, <2>4 DEF Before
  <1>14. QueueOK(G)'
    <2>1. SUFFICES ASSUME NEW t \in Streams
                   PROVE  /\ \A i \in DOMAIN queue'[t] : queue'[t][i].op \in G /\ On(queue'[t][i].op) = t
                          /\ \A i, k \in DOMAIN queue'[t] : i < k => Less(queue'[t][i].op, queue'[t][k].op)
      BY DEF QueueOK
    <2>2. CASE t # s
      BY <1>0, <1>6, <2>2 DEF StreamsOK, QueueOK
    <2>3. CASE t = s
      <3>1. \A i \in 1 .. n - 1 : r[i].op \in G /\ On(r[i].op) = s
        BY <1>0, <1>5, <1>7
      <3>2. ASSUME NEW i \in 1 .. n - 1, NEW k \in 1 .. n - 1, i < k PROVE Less(r[i].op, r[k].op)
        <4>1. i + 1 < k + 1 /\ i + 1 \in 1 .. n /\ k + 1 \in 1 .. n
          BY <1>0, <3>2
        <4>2. QED
          BY <1>0, <1>5, <1>7, <4>1
      <3>3. QED
        BY <1>0, <1>1, <1>5, <2>3, <3>1, <3>2
    <2>4. QED
      BY <1>0, <2>2, <2>3
  <1>15. AwaitedOK(G)'
    <2>1. SUFFICES ASSUME NEW t \in Streams, NEW i \in DOMAIN queue'[t], NEW y \in G,
                          Less(y, queue'[t][i].op), Waits(queue'[t][i].op) \cap Records(y) # {}
                   PROVE  \E z \in queue'[t][i].after : Covers(z, y, G)
      BY DEF AwaitedOK
    <2>2. PICK k \in DOMAIN queue[t] : queue'[t][i] = queue[t][k]
      <3>1. CASE t # s
        BY <1>0, <1>6, <2>1, <3>1
      <3>2. CASE t = s
        BY <1>0, <1>1, <1>4, <1>5, <2>1, <3>2
      <3>3. QED
        BY <1>0, <3>1, <3>2
    <2>3. QED
      BY <1>0, <2>1, <2>2 DEF StreamsOK, AwaitedOK
  <1>16. RecordedOK(G)'
    BY <1>0, <1>2 DEF StreamsOK, RecordedOK
  <1>17. HasRun(D \cup {x}, G, p)'
    <2>1. PICK E : E = D \cup {x}
      OBVIOUS
    <2>2. HasRun(E, G, p)'
      BY <1>0, <1>6, <1>9, <1>12, <1>13, <1>14, <1>15, <1>16, <2>1 DEF HasRun, StreamsOK
    <2>3. QED
      BY <2>1, <2>2
  <1>18. QED
    BY <1>6, <1>9, <1>17

-----------------------------------------------------------------------------
(* The host: what it has issued in this pass, and what has run of it.      *)

\* The first of the ranks that the host has not issued on this diagonal.
Stage(h) == CASE h = "pre" -> 0 [] h = "inputs" -> 2 [] h = "owners" -> 3
              [] h = "outputs" -> 4 [] h = "sums" -> 5 [] h = "post" -> 6 [] OTHER -> 0
Issued(x) == \/ x.diagonal < diagonal
             \/ x.diagonal = diagonal /\ Rank(x)[1] < Stage(hpc)
\* What the host has issued of this pass, and what has run of that.
Given == {x \in Ops(pass) : Issued(x)}
Ran   == {x \in Given : ~Pending(x)}

\* The points at which the host has issued all, and at which all has run.
HostOK ==
  /\ diagonal = LastDiagonal + 1 <=> hpc \in {"sync", "done"}
  /\ hpc = "done" => pass = Passes /\ \A s \in Streams : queue[s] = <<>>
OrderOK == HostOK /\ StreamsOK(Given) /\ Closed(Ran, pass)

\* What was issued has everything before it issued.
LEMMA GivenFact ==
  ASSUME diagonal \in Nat
  PROVE  \A y \in Ops(pass) : \A z \in Given : Less(y, z) => y \in Given
  <1>1. SUFFICES ASSUME NEW y \in Ops(pass), NEW z \in Ops(pass), Issued(z), Less(y, z) PROVE Issued(y)
    BY DEF Given
  <1>2. /\ y.diagonal \in Nat /\ z.diagonal \in Nat /\ Rank(y)[1] \in Nat /\ Rank(z)[1] \in Nat
    BY OpsFact, LegalFact, LayerFact, RankFact
  <1>3. Stage(hpc) \in Nat
    BY DEF Stage
  <1>4. y.diagonal < z.diagonal \/ (y.diagonal = z.diagonal /\ Rank(y)[1] <= Rank(z)[1])
    BY <1>1, <1>2 DEF Less
  <1>5. QED
    BY <1>1, <1>2, <1>3, <1>4 DEF Issued

\* The host issues S, the operations of this diagonal from one rank up to another.
LEMMA HostStep ==
  ASSUME TypeOK, OrderOK, NEW S \in SUBSET {x \in Ops(pass) : x.diagonal = diagonal}, enqueue(S),
         \A x \in S : Rank(x)[1] >= Stage(hpc),
         pass' = pass, Given' = Given \cup S
  PROVE  /\ queue' \in [Streams -> Seq(Entries)] /\ recorded' \in [Events -> Operations \cup {NoOp}]
         /\ StreamsOK(Given)' /\ Ran' = Ran /\ Closed(Ran, pass)'
  <1>1. PICK p, d, G, D : p = pass /\ d = diagonal /\ G = Given /\ D = Ran
    OBVIOUS
  <1>2. /\ p \in 1 .. Passes /\ d \in Nat /\ G \in SUBSET Ops(p)
        /\ queue \in [Streams -> Seq(Entries)] /\ recorded \in [Events -> Operations \cup {NoOp}]
    BY <1>1, ConstantFact DEF TypeOK, Given
  <1>3. ASSUME NEW x \in S, NEW y \in G PROVE Less(y, x)
    <2>1. x.diagonal = d /\ Rank(x)[1] >= Stage(hpc) /\ Legal(x)
      BY <1>1, OpsFact
    <2>2. y.diagonal < d \/ (y.diagonal = d /\ Rank(y)[1] < Stage(hpc))
      BY <1>1 DEF Given, Issued
    <2>3. Rank(x)[1] \in Nat /\ Rank(y)[1] \in Nat /\ Stage(hpc) \in Nat
      <3>1. Legal(y)
        BY <1>2, OpsFact
      <3>2. QED
        BY <2>1, <3>1, RankFact DEF Stage
    <2>4. QED
      BY <2>1, <2>2, <2>3, LessFact
  <1>4. StreamsOK(G) /\ Closed(D, p) /\ D = {x \in G : ~Pending(x)}
    BY <1>1 DEF OrderOK, Ran
  <1>5. S \in SUBSET Ops(p) /\ \A x \in S : x.diagonal = d
    BY <1>1
  <1>6. /\ queue' \in [Streams -> Seq(Entries)] /\ recorded' \in [Events -> Operations \cup {NoOp}]
        /\ StreamsOK(G \cup S)' /\ (\A x \in S : Pending(x)') /\ \A x \in G : Pending(x)' <=> Pending(x)
    BY <1>2, <1>3, <1>4, <1>5, EnqueueStep
  <1>7. PICK H : H = G \cup S
    OBVIOUS
  <1>8. Given' = H /\ StreamsOK(H)'
    BY <1>1, <1>6, <1>7
  <1>9. Ran' = {x \in H : ~Pending(x)'}
    BY <1>8 DEF Ran
  <1>10. Ran' = D
    BY <1>4, <1>6, <1>7, <1>9
  <1>11. StreamsOK(Given)'
    BY <1>8 DEF StreamsOK, QueueOK, AwaitedOK, RecordedOK, Covers
  <1>12. Closed(Ran, pass)'
    BY <1>1, <1>4, <1>10 DEF Closed
  <1>13. QED
    BY <1>1, <1>6, <1>10, <1>11, <1>12

\* What the host has issued after a phase.
LEMMA IssuedAfter ==
  ASSUME TypeOK, hpc # "done", hpc # "sync", OrderOK, NEW S, NEW to, pass' = pass,
         \A x : x \in S <=> /\ Legal(x) /\ x.pass = pass /\ x.diagonal = diagonal
                            /\ Stage(hpc) <= Rank(x)[1] /\ Rank(x)[1] < to,
         \/ diagonal' = diagonal /\ to = Stage(hpc') /\ to >= Stage(hpc)
         \/ diagonal' = diagonal + 1 /\ Stage(hpc') = 0 /\ to = 7
  PROVE  S \subseteq {x \in Ops(pass) : x.diagonal = diagonal} /\ Given' = Given \cup S
  <1>1. PICK p : p = pass
    OBVIOUS
  <1>2. S \subseteq {x \in Ops(pass) : x.diagonal = diagonal}
    BY OpsFact
  <1>3. ASSUME NEW x \in Ops(p) PROVE Issued(x)' <=> Issued(x) \/ x \in S
    <2>1. Legal(x) /\ x.pass = p /\ x.diagonal \in Nat /\ diagonal \in Nat /\ Rank(x)[1] \in 0 .. 6
      BY ConstantFact, OpsFact, LegalFact, LayerFact, RankFact DEF TypeOK
    <2>2. Stage(hpc) \in Nat /\ Stage(hpc') \in Nat
      BY DEF Stage
    <2>3. Issued(x)' <=> x.diagonal < diagonal' \/ (x.diagonal = diagonal' /\ Rank(x)[1] < Stage(hpc'))
      BY DEF Issued
    <2>4. x \in S <=> x.diagonal = diagonal /\ Stage(hpc) <= Rank(x)[1] /\ Rank(x)[1] < to
      BY <1>1, <2>1
    <2>5. PICK r \in 0 .. 6, h \in Nat, k \in Nat : r = Rank(x)[1] /\ h = Stage(hpc) /\ k = Stage(hpc')
      BY <2>1, <2>2
    <2>6. CASE diagonal' = diagonal /\ to = Stage(hpc') /\ to >= Stage(hpc)
      <3>1. x \in S <=> x.diagonal = diagonal /\ h <= r /\ r < k
        BY <2>4, <2>5, <2>6
      <3>2. Issued(x) <=> x.diagonal < diagonal \/ (x.diagonal = diagonal /\ r < h)
        BY <2>5 DEF Issued
      <3>3. Issued(x)' <=> x.diagonal < diagonal \/ (x.diagonal = diagonal /\ r < k)
        BY <2>3, <2>5, <2>6
      <3>4. k >= h
        BY <2>5, <2>6
      <3>5. QED
        BY <3>1, <3>2, <3>3, <3>4
    <2>7. CASE diagonal' = diagonal + 1 /\ Stage(hpc') = 0 /\ to = 7
      <3>1. x \in S <=> x.diagonal = diagonal /\ h <= r
        BY <2>4, <2>5, <2>7
      <3>2. Issued(x) <=> x.diagonal < diagonal \/ (x.diagonal = diagonal /\ r < h)
        BY <2>5 DEF Issued
      <3>3. Issued(x)' <=> x.diagonal < diagonal + 1 \/ (x.diagonal = diagonal + 1 /\ r < 0)
        BY <2>3, <2>5, <2>7
      <3>4. QED
        BY <2>1, <3>1, <3>2, <3>3
    <2>8. QED
      BY <2>6, <2>7
  <1>4. Given' = {x \in Ops(p) : Issued(x)'}
    BY <1>1 DEF Given
  <1>5. Given = {x \in Ops(p) : Issued(x)}
    BY <1>1 DEF Given
  <1>6. S \subseteq Ops(p)
    BY <1>1, <1>2
  <1>7. QED
    BY <1>2, <1>3, <1>4, <1>5, <1>6

\* One operation runs: what has run stays closed.
LEMMA DeviceStep ==
  ASSUME TypeOK, OrderOK, NEW s, NEW kinds, NEW x, RunsNext(s, kinds, x)
  PROVE  /\ x \in Ops(pass) /\ x \notin Ran /\ x.do \in kinds /\ On(x) = s
         /\ queue' \in [Streams -> Seq(Entries)] /\ recorded' = recorded
         /\ pass' = pass /\ diagonal' = diagonal /\ hpc' = hpc
         /\ Ran' = Ran \cup {x} /\ Closed(Ran \cup {x}, pass) /\ OrderOK'
  <1>1. PICK p, G, D, E : p = pass /\ G = Given /\ D = Ran /\ E = D \cup {x}
    OBVIOUS
  <1>2. /\ pass' = pass /\ diagonal' = diagonal /\ hpc' = hpc /\ recorded' = recorded
        /\ s \in Streams /\ queue[s] # <<>>
    BY DEF RunsNext, Runs, host
  <1>3. G \subseteq Ops(p) /\ D \subseteq G /\ (\A y \in G : y \in D <=> ~Pending(y))
    BY <1>1 DEF Given, Ran
  <1>4. queue \in [Streams -> Seq(Entries)] /\ diagonal \in Nat
    BY ConstantFact DEF TypeOK
  <1>5. StreamsOK(G) /\ Closed(D, p)
    BY <1>1 DEF OrderOK
  <1>6. HasRun(D, G, p)
    BY <1>1, <1>3, <1>4, <1>5, GivenFact DEF HasRun
  <1>7. /\ x \in G /\ x \notin D /\ x.do \in kinds /\ On(x) = s
        /\ HasRun(D \cup {x}, G, p)'
    BY <1>6, RunStep
  <1>a. /\ queue' \in [Streams -> Seq(Entries)] /\ StreamsOK(G)' /\ Closed(E, p) /\ \A y \in G : Pending(y)' <=> y \notin E
    <2>1. HasRun(E, G, p)'
      BY <1>1, <1>7
    <2>2. QED
      BY <2>1 DEF HasRun
  <1>8. Given' = G
    BY <1>1, <1>2 DEF Given, Issued
  <1>9. Ran' = {y \in G : ~Pending(y)'}
    BY <1>8 DEF Ran
  <1>10. Ran' = E
    BY <1>1, <1>3, <1>7, <1>9, <1>a
  <1>11. StreamsOK(Given)'
    BY <1>a, <1>8 DEF StreamsOK, QueueOK, AwaitedOK, RecordedOK, Covers
  <1>12. Closed(Ran, pass)'
    BY <1>1, <1>2, <1>a, <1>10 DEF Closed
  <1>13. HostOK'
    BY <1>2 DEF OrderOK, HostOK
  <1>14. QED
    BY <1>1, <1>2, <1>3, <1>7, <1>a, <1>10, <1>11, <1>12, <1>13 DEF OrderOK

-----------------------------------------------------------------------------
(* The buffers.  What an operation wrote is there until the operation that  *)
(* closes its window has run; D are the operations of pass p that have run. *)

\* The activations of a cell are there from its graph until its input record.
SourceOK(D, p) ==
  \A d \in Diagonals : \A j \in Active(d) :
    Op("pre", p, d, j, j) \in D /\ Op("input", p, d, j, j) \notin D => source[j] = Cell(p, d, j)
\* A request is in a scratch from its copy until the scratch is free.
RequestOK(D, p) ==
  \A d \in Diagonals : \A j \in Active(d) : \A o \in Lanes :
    Packed(p, d, j, o) \in D /\ Last(p, d, GroupOf(d, j), o) \notin D =>
      request[GroupOf(d, j)][o][InGroup(d, j)] = Whole(Cell(p, d, j))
\* The partials of a group are there from the computation until the output record.
PartialOK(D, p) ==
  \A d \in Diagonals : \A j \in Active(d) : \A o \in Lanes :
    Op("compute", p, d, GroupOf(d, j), o) \in D /\ Op("output", p, d, GroupOf(d, j), o) \notin D =>
      partial[GroupOf(d, j)][o][InGroup(d, j)] = Whole(Cell(p, d, j))
\* What came back is there from the return until the sum.
RecvOK(D, p) ==
  \A d \in Diagonals : \A j \in Active(d) : \A o \in Lanes :
    Op("return", p, d, j, o) \in D /\ Op("sum", p, d, j, j) \notin D =>
      recv[GroupOf(d, j)][j][o] = Whole(Cell(p, d, j))
\* The rows of the earlier lanes come with the corridor, the lane's own with its graph.
RowsOK(D, p) ==
  \A d \in Diagonals : \A j \in Active(d) : LayerOf(d, j) \in Attention =>
    /\ j # 0 /\ Op("corridor", p, d, j, j - 1) \in D => \A c \in 0 .. j - 1 : kv[j][LayerOf(d, j)][c] = p
    /\ Op("pre", p, d, j, j) \in D => \A c \in 0 .. j : kv[j][LayerOf(d, j)][c] = p
\* The complete cells are those of earlier passes and those whose graph has ended.
ExecutedOK(D, p) ==
  \A c \in Cells :
    c \in executed <=> \/ c.pass < p
                       \/ /\ c.pass = p
                          /\ Op("post", p, c.layer + LaneStagger * c.lane, c.lane, c.lane) \in D
DataOK(D, p) ==
  SourceOK(D, p) /\ RequestOK(D, p) /\ PartialOK(D, p) /\ RecvOK(D, p) /\ RowsOK(D, p) /\ ExecutedOK(D, p)

\* Running an operation of another kind does not run this one.
LEMMA OpsDiffer ==
  ASSUME NEW k, NEW p, NEW d, NEW n, NEW o, NEW D, NEW x, x.do # k
  PROVE  Op(k, p, d, n, o) \in D \cup {x} => Op(k, p, d, n, o) \in D
  BY OpFact

\* An operation that does not write a buffer leaves its windows as they are.
LEMMA FrameStep ==
  ASSUME NEW p, NEW D, NEW x
  PROVE  /\ SourceOK(D, p) /\ source' = source /\ x.do # "pre" => SourceOK(D \cup {x}, p)'
         /\ RequestOK(D, p) /\ request' = request /\ x.do \notin {"pack", "send"} => RequestOK(D \cup {x}, p)'
         /\ PartialOK(D, p) /\ partial' = partial /\ x.do # "compute" => PartialOK(D \cup {x}, p)'
         /\ RecvOK(D, p) /\ recv' = recv /\ x.do # "return" => RecvOK(D \cup {x}, p)'
         /\ RowsOK(D, p) /\ kv' = kv /\ x.do \notin {"corridor", "pre"} => RowsOK(D \cup {x}, p)'
         /\ ExecutedOK(D, p) /\ executed' = executed /\ x.do # "post" => ExecutedOK(D \cup {x}, p)'
  <1>1. PICK E : E = D \cup {x}
    OBVIOUS
  <1>2. D \subseteq E /\ \A k, d, n, o : x.do # k /\ Op(k, p, d, n, o) \in E => Op(k, p, d, n, o) \in D
    BY <1>1, OpsDiffer
  <1>3. SourceOK(D, p) /\ source' = source /\ x.do # "pre" => SourceOK(E, p)'
    BY <1>2 DEF SourceOK
  <1>4. RequestOK(D, p) /\ request' = request /\ x.do \notin {"pack", "send"} => RequestOK(E, p)'
    <2>1. x.do \notin {"pack", "send"} => \A d, j, o : Packed(p, d, j, o) \in E => Packed(p, d, j, o) \in D
      BY <1>2 DEF Packed
    <2>2. QED
      BY <1>2, <2>1 DEF RequestOK
  <1>5. PartialOK(D, p) /\ partial' = partial /\ x.do # "compute" => PartialOK(E, p)'
    BY <1>2 DEF PartialOK
  <1>6. RecvOK(D, p) /\ recv' = recv /\ x.do # "return" => RecvOK(E, p)'
    BY <1>2 DEF RecvOK
  <1>7. RowsOK(D, p) /\ kv' = kv /\ x.do \notin {"corridor", "pre"} => RowsOK(E, p)'
    BY <1>2 DEF RowsOK
  <1>8. ExecutedOK(D, p) /\ executed' = executed /\ x.do # "post" => ExecutedOK(E, p)'
    BY <1>2 DEF ExecutedOK
  <1>9. QED
    BY <1>1, <1>3, <1>4, <1>5, <1>6, <1>7, <1>8

\* f and h differ in one cell, where h has v.
OneChanged2(A, B, V, f, h, a, b, v) ==
    /\ h \in [A -> [B -> V]] /\ h[a][b] = v
    /\ \A x \in A : \A y \in B : x # a \/ y # b => h[x][y] = f[x][y]
OneChanged3(A, B, C, V, f, h, a, b, c, v) ==
    /\ h \in [A -> [B -> [C -> V]]] /\ h[a][b][c] = v
    /\ \A x \in A : \A y \in B : \A z \in C : x # a \/ y # b \/ z # c => h[x][y][z] = f[x][y][z]

\* One cell of a function of two arguments changes.
LEMMA Update2 ==
  ASSUME NEW A, NEW B, NEW V, NEW f \in [A -> [B -> V]], NEW a \in A, NEW b \in B, NEW v \in V,
         NEW h, h = [f EXCEPT ![a][b] = v]
  PROVE  OneChanged2(A, B, V, f, h, a, b, v)
  BY DEF OneChanged2

\* One cell of a function of three arguments changes.
LEMMA Update3 ==
  ASSUME NEW A, NEW B, NEW C, NEW V, NEW f \in [A -> [B -> [C -> V]]],
         NEW a \in A, NEW b \in B, NEW c \in C, NEW v \in V,
         NEW h, h = [f EXCEPT ![a][b][c] = v]
  PROVE  OneChanged3(A, B, C, V, f, h, a, b, c, v)
  <1>1. PICK w : w = [f[a][b] EXCEPT ![c] = v]
    OBVIOUS
  <1>2. h = [f EXCEPT ![a][b] = w]
    BY <1>1
  <1>3. w \in [C -> V] /\ w[c] = v /\ \A z \in C : z # c => w[z] = f[a][b][z]
    BY <1>1
  <1>4. OneChanged2(A, B, [C -> V], f, h, a, b, w)
    BY <1>2, <1>3, Update2
  <1>5. QED
    BY <1>3, <1>4 DEF OneChanged2, OneChanged3

\* Two diagonals of which neither is later are the same.
LEMMA Diagonal ==
  ASSUME NEW c \in Diagonals, NEW d \in Diagonals
  PROVE  c < d \/ c = d \/ d < c
  BY LayerFact

\* What is copied is what the lane's graph just computed.
LEMMA SourceIs ==
  ASSUME NEW p, NEW D, NEW x \in Ops(p), x \notin D, Closed(D \cup {x}, p), Closed(D, p),
         NEW d \in Diagonals, NEW j \in Active(d), NEW o \in Lanes, x = Packed(p, d, j, o), SourceOK(D, p)
  PROVE  source[j] = Cell(p, d, j)
  <1>1. PICK E : E = D \cup {x}
    OBVIOUS
  <1>2. Op("pre", p, d, j, j) \in E
    BY <1>1, PackedChain
  <1>3. x # Op("pre", p, d, j, j)
    <2>1. IsRequest(x, p, d, j, o)
      BY PackedOp
    <2>2. Rank(x)[1] = 2
      BY <2>1 DEF IsRequest
    <2>3. Rank(Op("pre", p, d, j, j))[1] = 1
      BY OpRank
    <2>4. QED
      BY <2>2, <2>3
  <1>4. Op("input", p, d, j, j) \notin D
    BY InputChain
  <1>5. QED
    BY <1>1, <1>2, <1>3, <1>4 DEF SourceOK

\* A scratch holds the request of the cell that is copied there: the group's earlier
\* request is not needed any more, and no later one has come.
LEMMA RequestStep ==
  ASSUME NEW p \in Int, NEW D, NEW x \in Ops(p), x \notin D, Closed(D \cup {x}, p), Closed(D, p),
         NEW d \in Diagonals, NEW j \in Active(d), NEW o \in Lanes, x = Packed(p, d, j, o), RequestOK(D, p),
         request \in [Groups -> [Lanes -> [0 .. GroupCells - 1 -> Parts]]],
         Whole(Cell(p, d, j)) \in Parts,
         request' = [request EXCEPT ![GroupOf(d, j)][o][InGroup(d, j)] = Whole(Cell(p, d, j))]
  PROVE  RequestOK(D \cup {x}, p)' /\ request' \in [Groups -> [Lanes -> [0 .. GroupCells - 1 -> Parts]]]
  <1>1. PICK E, g, i, v : E = D \cup {x} /\ g = GroupOf(d, j) /\ i = InGroup(d, j) /\ v = Whole(Cell(p, d, j))
    OBVIOUS
  <1>2. g \in Groups /\ i \in 0 .. GroupCells - 1 /\ g \in GroupsOf(d)
    BY <1>1, PositionFact
  <1>3. /\ request' \in [Groups -> [Lanes -> [0 .. GroupCells - 1 -> Parts]]] /\ request'[g][o][i] = v
        /\ \A a \in Groups : \A b \in Lanes : \A c \in 0 .. GroupCells - 1 :
             a # g \/ b # o \/ c # i => request'[a][b][c] = request[a][b][c]
    <2>1. PICK C, f, h : C = 0 .. GroupCells - 1 /\ f = request /\ h = request'
      OBVIOUS
    <2>2. /\ g \in Groups /\ o \in Lanes /\ i \in C /\ v \in Parts /\ f \in [Groups -> [Lanes -> [C -> Parts]]]
          /\ h = [f EXCEPT ![g][o][i] = v]
      BY <1>1, <1>2, <2>1
    <2>3. /\ h \in [Groups -> [Lanes -> [C -> Parts]]] /\ h[g][o][i] = v
          /\ \A a \in Groups : \A b \in Lanes : \A c \in C : a # g \/ b # o \/ c # i => h[a][b][c] = f[a][b][c]
      <3>1. OneChanged3(Groups, Lanes, C, Parts, f, h, g, o, i, v)
        BY <2>2, Update3
      <3>2. QED
        BY <3>1 DEF OneChanged3
    <2>4. QED
      BY <2>1, <2>3
  <1>4. SUFFICES ASSUME NEW c \in Diagonals, NEW k \in Active(c), NEW u \in Lanes,
                        Packed(p, c, k, u) \in E, Last(p, c, GroupOf(c, k), u) \notin E
                 PROVE  request'[GroupOf(c, k)][u][InGroup(c, k)] = Whole(Cell(p, c, k))
    <2>1. RequestOK(E, p)'
      BY <1>4 DEF RequestOK
    <2>2. QED
      BY <1>1, <1>3, <2>1
  <1>5. GroupOf(c, k) \in Groups /\ InGroup(c, k) \in 0 .. GroupCells - 1 /\ GroupOf(c, k) \in GroupsOf(c)
    BY PositionFact
  <1>6. CASE Packed(p, c, k, u) = x
    <2>1. c = d /\ k = j /\ u = o
      BY <1>6, OpFact DEF Packed
    <2>2. QED
      BY <1>1, <1>3, <2>1
  <1>7. CASE Packed(p, c, k, u) # x
    <2>1. Packed(p, c, k, u) \in D /\ Last(p, c, GroupOf(c, k), u) \notin D
      BY <1>1, <1>4, <1>7
    <2>2. request[GroupOf(c, k)][u][InGroup(c, k)] = Whole(Cell(p, c, k))
      BY <2>1 DEF RequestOK
    <2>3. ASSUME GroupOf(c, k) = g, u = o, InGroup(c, k) = i PROVE FALSE
      <3>1. CASE c = d
        <4>1. k = j
          BY <1>1, <2>3, <3>1, SameCell
        <4>2. QED
          BY <1>7, <2>3, <3>1, <4>1
      <3>2. CASE c < d
        <4>1. x \in E /\ Closed(E, p)
          BY <1>1
        <4>2. Last(p, c, g, o) \in E
          BY <1>1, <1>5, <2>3, <3>2, <4>1, PackedChain, SMTT(60)
        <4>3. QED
          BY <1>4, <2>3, <4>2
      <3>3. CASE d < c
        <4>1. Last(p, d, g, o) \in D
          BY <1>1, <1>2, <2>1, <2>3, <3>3, PackedChain
        <4>2. Op("compute", p, d, g, o) \in D
          BY <1>2, <4>1, LastChain
        <4>3. j \in Members(d, g)
          BY <1>1 DEF Members
        <4>4. Packed(p, d, j, o) \in D
          BY <1>2, <4>2, <4>3, ComputeChain
        <4>5. QED
          BY <4>4
      <3>4. QED
        BY <3>1, <3>2, <3>3, Diagonal
    <2>4. QED
      BY <1>3, <1>5, <2>2, <2>3
  <1>8. QED
    BY <1>6, <1>7

\* A copy to another device takes the packed input from the home device.
LEMMA PackedIs ==
  ASSUME NEW p, NEW D, NEW x \in Ops(p), x \notin D, Closed(D \cup {x}, p), Closed(D, p),
         NEW d \in Diagonals, NEW j \in Active(d), NEW o \in Lanes, o # j, x = Packed(p, d, j, o),
         RequestOK(D, p)
  PROVE  request[GroupOf(d, j)][j][InGroup(d, j)] = Whole(Cell(p, d, j))
  <1>1. PICK E, g : E = D \cup {x} /\ g = GroupOf(d, j)
    OBVIOUS
  <1>2. j \in Lanes /\ g \in GroupsOf(d) /\ j \in Members(d, g)
    BY <1>1, PositionFact, LayerFact
  <1>3. Op("pack", p, d, j, j) \in E
    BY <1>1, PackedChain
  <1>4. Op("pack", p, d, j, j) # x
    <2>1. x.do = "send"
      BY OpFact DEF Packed
    <2>2. QED
      BY <2>1, OpFact
  <1>5. Packed(p, d, j, j) \in D
    BY <1>1, <1>3, <1>4 DEF Packed
  <1>6. Last(p, d, g, j) \notin D
    <2>1. SUFFICES ASSUME Last(p, d, g, j) \in D PROVE FALSE
      OBVIOUS
    <2>2. Op("compute", p, d, g, j) \in D
      BY <1>2, <2>1, LastChain
    <2>3. Packed(p, d, j, o) \in D
      BY <1>2, <2>2, ComputeChain
    <2>4. QED
      BY <2>3
  <1>7. QED
    BY <1>1, <1>2, <1>5, <1>6 DEF RequestOK

\* What an owner computes from is the request of each cell of the group.
LEMMA RequestIs ==
  ASSUME NEW p, NEW D, NEW x, x \notin D, Closed(D \cup {x}, p), Closed(D, p),
         NEW d \in Diagonals, NEW g \in GroupsOf(d), NEW o \in Lanes, x = Op("compute", p, d, g, o),
         RequestOK(D, p)
  PROVE  \A j \in Members(d, g) : request[g][o][InGroup(d, j)] = Whole(Cell(p, d, j))
  <1>1. SUFFICES ASSUME NEW j \in Members(d, g) PROVE request[g][o][InGroup(d, j)] = Whole(Cell(p, d, j))
    OBVIOUS
  <1>2. PICK E : E = D \cup {x}
    OBVIOUS
  <1>3. j \in Active(d) /\ GroupOf(d, j) = g
    BY DEF Members
  <1>4. Packed(p, d, j, o) \in E
    BY <1>2, ComputeChain
  <1>5. Packed(p, d, j, o) # x
    BY OpFact DEF Packed
  <1>6. Last(p, d, g, o) \notin D
    BY LastChain
  <1>7. QED
    BY <1>2, <1>3, <1>4, <1>5, <1>6 DEF RequestOK

\* The places of the cells of a group.
RowsOf(d, g) == {InGroup(d, j) : j \in Members(d, g)}
\* The partials at rows are of the requests there.
Computed(f, h, r, g, o, rows) ==
  h = [f EXCEPT ![g][o] = [i \in DOMAIN @ |-> IF i \in rows THEN r[g][o][i] ELSE @[i]]]

\* The partials of a group replace those of an earlier group which have all gone.
LEMMA PartialStep ==
  ASSUME NEW p, NEW D, NEW x, x \notin D, Closed(D \cup {x}, p), Closed(D, p),
         NEW d \in Diagonals, NEW g \in GroupsOf(d), NEW o \in Lanes, x = Op("compute", p, d, g, o),
         RequestOK(D, p), PartialOK(D, p), x \in Ops(p),
         request \in [Groups -> [Lanes -> [0 .. GroupCells - 1 -> Parts]]],
         partial \in [Groups -> [Lanes -> [0 .. GroupCells - 1 -> Parts]]],
         Computed(partial, partial', request, g, o, RowsOf(d, g))
  PROVE  PartialOK(D \cup {x}, p)' /\ partial' \in [Groups -> [Lanes -> [0 .. GroupCells - 1 -> Parts]]]
  <1>1. PICK E, C : E = D \cup {x} /\ C = 0 .. GroupCells - 1
    OBVIOUS
  <1>a. PICK rows : rows = RowsOf(d, g)
    OBVIOUS
  <1>2. g \in Groups
    BY DEF GroupsOf
  <1>3. PICK w : w = [i \in C |-> IF i \in rows THEN request[g][o][i] ELSE partial[g][o][i]]
    OBVIOUS
  <1>4. w \in [C -> Parts]
    <2>1. request[g][o] \in [C -> Parts] /\ partial[g][o] \in [C -> Parts]
      <3>1. request[g] \in [Lanes -> [C -> Parts]] /\ partial[g] \in [Lanes -> [C -> Parts]]
        BY <1>1, <1>2
      <3>2. QED
        BY <3>1
    <2>2. PICK a, b : a = request[g][o] /\ b = partial[g][o]
      OBVIOUS
    <2>3. a \in [C -> Parts] /\ b \in [C -> Parts] /\ w = [i \in C |-> IF i \in rows THEN a[i] ELSE b[i]]
      BY <1>3, <2>1, <2>2
    <2>4. QED
      BY <2>3
  <1>5. /\ partial' \in [Groups -> [Lanes -> [C -> Parts]]] /\ partial'[g][o] = w
        /\ \A a \in Groups : \A b \in Lanes : a # g \/ b # o => partial'[a][b] = partial[a][b]
    <2>1. PICK f, h, V : f = partial /\ h = partial' /\ V = [C -> Parts]
      OBVIOUS
    <2>2. DOMAIN partial[g][o] = C
      BY <1>1, <1>2
    <2>3. h = [f EXCEPT ![g][o] = w]
      BY <1>3, <1>a, <2>1, <2>2 DEF Computed
    <2>4. f \in [Groups -> [Lanes -> V]] /\ w \in V
      BY <1>1, <1>4, <2>1
    <2>5. /\ h \in [Groups -> [Lanes -> V]] /\ h[g][o] = w
          /\ \A a \in Groups : \A b \in Lanes : a # g \/ b # o => h[a][b] = f[a][b]
      <3>1. OneChanged2(Groups, Lanes, V, f, h, g, o, w)
        BY <1>2, <2>3, <2>4, Update2
      <3>2. QED
        BY <3>1 DEF OneChanged2
    <2>6. QED
      BY <2>1, <2>5
  <1>6. SUFFICES ASSUME NEW c \in Diagonals, NEW k \in Active(c), NEW u \in Lanes,
                        Op("compute", p, c, GroupOf(c, k), u) \in E, Op("output", p, c, GroupOf(c, k), u) \notin E
                 PROVE  partial'[GroupOf(c, k)][u][InGroup(c, k)] = Whole(Cell(p, c, k))
    <2>1. PartialOK(E, p)'
      BY <1>6 DEF PartialOK
    <2>2. QED
      BY <1>1, <1>5, <2>1
  <1>7. GroupOf(c, k) \in Groups /\ InGroup(c, k) \in C /\ GroupOf(c, k) \in GroupsOf(c) /\ k \in Members(c, GroupOf(c, k))
    BY <1>1, PositionFact
  <1>8. CASE GroupOf(c, k) = g /\ u = o
    <2>1. CASE c = d
      <3>1. k \in Members(d, g) /\ InGroup(c, k) \in rows
        BY <1>7, <1>8, <1>a, <2>1 DEF RowsOf
      <3>2. request[g][o][InGroup(c, k)] = Whole(Cell(p, c, k))
        BY <2>1, <3>1, RequestIs
      <3>3. partial'[g][o][InGroup(c, k)] = request[g][o][InGroup(c, k)]
        BY <1>3, <1>5, <1>7, <3>1
      <3>4. QED
        BY <1>8, <3>2, <3>3
    <2>2. CASE c < d
      <3>1. Op("output", p, c, g, o) \in E
        BY <1>1, <1>7, <1>8, <2>2, ComputeChain
      <3>2. QED
        BY <1>6, <1>8, <3>1
    <2>3. CASE d < c
      <3>1. PICK y : y = Op("compute", p, c, g, o)
        OBVIOUS
      <3>2. y # x
        BY <2>3, <3>1, OpFact, LayerFact
      <3>3. y \in D /\ On(y) = On(x) /\ x.diagonal < y.diagonal
        BY <1>1, <1>6, <1>8, <2>3, <3>1, <3>2, OpOn, OpFact
      <3>4. Less(x, y)
        BY <3>3, LessFact
      <3>5. x \in D
        BY <3>3, <3>4, ClosedFact
      <3>6. QED
        BY <3>5
    <2>4. QED
      BY <2>1, <2>2, <2>3, Diagonal
  <1>9. CASE ~(GroupOf(c, k) = g /\ u = o)
    <2>1. Op("compute", p, c, GroupOf(c, k), u) # x
      BY <1>9, OpFact
    <2>2. Op("compute", p, c, GroupOf(c, k), u) \in D /\ Op("output", p, c, GroupOf(c, k), u) \notin D
      BY <1>1, <1>6, <2>1
    <2>3. partial[GroupOf(c, k)][u][InGroup(c, k)] = Whole(Cell(p, c, k))
      BY <2>2 DEF PartialOK
    <2>4. partial'[GroupOf(c, k)][u] = partial[GroupOf(c, k)][u]
      BY <1>5, <1>7, <1>9
    <2>5. QED
      BY <2>3, <2>4
  <1>10. QED
    BY <1>8, <1>9

\* One received partial changes.
LEMMA ReceivedUpdate ==
  ASSUME NEW f, NEW h, NEW g, NEW j, NEW o, NEW v, g \in Groups, j \in Lanes, o \in Lanes, v \in Parts,
         f \in [Groups -> [Lanes -> [Lanes -> Parts]]], h = [f EXCEPT ![g][j][o] = v]
  PROVE  /\ h \in [Groups -> [Lanes -> [Lanes -> Parts]]] /\ h[g][j][o] = v
         /\ \A a \in Groups : \A b \in Lanes : \A c \in Lanes :
              a # g \/ b # j \/ c # o => h[a][b][c] = f[a][b][c]
  <1>1. OneChanged3(Groups, Lanes, Lanes, Parts, f, h, g, j, o, v)
    BY Update3
  <1>2. QED
    BY <1>1 DEF OneChanged3

\* What comes back is the partial of the cell, and what had come there before was added.
LEMMA RecvStep ==
  ASSUME NEW p, NEW D, NEW x \in Ops(p), x \notin D, Closed(D \cup {x}, p), Closed(D, p),
         NEW d \in Diagonals, NEW j \in Active(d), NEW o \in Lanes, x = Op("return", p, d, j, o),
         PartialOK(D, p), RecvOK(D, p),
         recv \in [Groups -> [Lanes -> [Lanes -> Parts]]],
         partial \in [Groups -> [Lanes -> [0 .. GroupCells - 1 -> Parts]]],
         recv' = [recv EXCEPT ![GroupOf(d, j)][j][o] = partial[GroupOf(d, j)][o][InGroup(d, j)]]
  PROVE  RecvOK(D \cup {x}, p)' /\ recv' \in [Groups -> [Lanes -> [Lanes -> Parts]]]
  <1>1. PICK E, g, i, v : /\ E = D \cup {x} /\ g = GroupOf(d, j) /\ i = InGroup(d, j)
                          /\ v = partial[g][o][i]
    OBVIOUS
  <1>2. g \in Groups /\ i \in 0 .. GroupCells - 1 /\ g \in GroupsOf(d) /\ j \in Lanes
    BY <1>1, PositionFact, LayerFact
  <1>3. v = Whole(Cell(p, d, j))
    <2>1. Op("compute", p, d, g, o) \in E
      BY <1>1, ReturnChain
    <2>2. Op("compute", p, d, g, o) # x
      <3>1. x.do = "return" /\ Op("compute", p, d, g, o).do = "compute"
        BY OpFact
      <3>2. QED
        BY <3>1
    <2>3. Op("output", p, d, g, o) \notin D
      BY <1>1, OutputChain
    <2>4. QED
      BY <1>1, <2>1, <2>2, <2>3 DEF PartialOK
  <1>4. v \in Parts
    <2>1. partial[g] \in [Lanes -> [0 .. GroupCells - 1 -> Parts]]
      BY <1>2
    <2>2. partial[g][o] \in [0 .. GroupCells - 1 -> Parts]
      BY <2>1
    <2>3. partial[g][o][i] \in Parts
      BY <1>2, <2>2
    <2>4. QED
      BY <1>1, <2>3
  <1>5. /\ recv' \in [Groups -> [Lanes -> [Lanes -> Parts]]] /\ recv'[g][j][o] = v
        /\ \A a \in Groups : \A b \in Lanes : \A c \in Lanes :
             a # g \/ b # j \/ c # o => recv'[a][b][c] = recv[a][b][c]
    <2>1. PICK f, h : f = recv /\ h = recv'
      OBVIOUS
    <2>2. /\ g \in Groups /\ j \in Lanes /\ o \in Lanes /\ v \in Parts
          /\ f \in [Groups -> [Lanes -> [Lanes -> Parts]]] /\ h = [f EXCEPT ![g][j][o] = v]
      BY <1>1, <1>2, <1>4, <2>1
    <2>3. /\ h \in [Groups -> [Lanes -> [Lanes -> Parts]]] /\ h[g][j][o] = v
          /\ \A a \in Groups : \A b \in Lanes : \A c \in Lanes :
               a # g \/ b # j \/ c # o => h[a][b][c] = f[a][b][c]
      BY <2>2, ReceivedUpdate
    <2>4. QED
      BY <2>1, <2>3
  <1>6. SUFFICES ASSUME NEW c \in Diagonals, NEW k \in Active(c), NEW u \in Lanes,
                        Op("return", p, c, k, u) \in E, Op("sum", p, c, k, k) \notin E
                 PROVE  recv'[GroupOf(c, k)][k][u] = Whole(Cell(p, c, k))
    <2>1. RecvOK(E, p)'
      BY <1>6 DEF RecvOK
    <2>2. QED
      BY <1>1, <1>5, <2>1
  <1>7. GroupOf(c, k) \in Groups /\ k \in Lanes
    BY PositionFact, LayerFact
  <1>8. CASE c = d /\ k = j /\ u = o
    BY <1>1, <1>3, <1>5, <1>8
  <1>9. CASE ~(c = d /\ k = j /\ u = o)
    <2>1. Op("return", p, c, k, u) # x
      BY <1>9, OpFact
    <2>2. Op("return", p, c, k, u) \in D /\ Op("sum", p, c, k, k) \notin D
      BY <1>1, <1>6, <2>1
    <2>3. recv[GroupOf(c, k)][k][u] = Whole(Cell(p, c, k))
      BY <2>2 DEF RecvOK
    <2>4. ASSUME GroupOf(c, k) = g, k = j, u = o PROVE FALSE
      <3>1. CASE c < d
        <4>1. j \in Active(c) /\ GroupOf(c, j) = GroupOf(d, j) /\ Op("return", p, d, j, o) \in E /\ Closed(E, p)
          BY <1>1, <2>4
        <4>3. Op("sum", p, c, j, j) \in E
          BY <3>1, <4>1, ReturnChain
        <4>2. QED
          BY <1>6, <2>4, <4>3
      <3>2. CASE d < c
        <4>1. x \in D
          BY <2>2, <2>4, <3>2, ReturnChain
        <4>2. QED
          BY <4>1
      <3>3. QED
        BY <1>9, <2>4, <3>1, <3>2, Diagonal
    <2>5. QED
      BY <1>5, <1>7, <2>3, <2>4
  <1>10. QED
    BY <1>8, <1>9

\* A sum adds what every owner sent for its cell.
LEMMA SumIs ==
  ASSUME NEW p, NEW D, NEW x, x \notin D, Closed(D \cup {x}, p), NEW d \in Diagonals, NEW j \in Active(d),
         x = Op("sum", p, d, j, j), RecvOK(D, p)
  PROVE  \A o \in Lanes : recv[GroupOf(d, j)][j][o] = Whole(Cell(p, d, j))
  <1>1. SUFFICES ASSUME NEW o \in Lanes PROVE recv[GroupOf(d, j)][j][o] = Whole(Cell(p, d, j))
    OBVIOUS
  <1>2. Op("return", p, d, j, o) \in D \cup {x}
    BY SumChain
  <1>3. Op("return", p, d, j, o) # x
    BY OpFact
  <1>4. QED
    BY <1>2, <1>3 DEF RecvOK

\* The shared expert works on the cell's own input.
LEMMA SharedIs ==
  ASSUME NEW p, NEW D, NEW x, x \notin D, Closed(D \cup {x}, p), NEW d \in Diagonals, NEW j \in Active(d),
         x = Op("shared", p, d, j, j), SharedService, RequestOK(D, p)
  PROVE  request[GroupOf(d, j)][j][InGroup(d, j)] = Whole(Cell(p, d, j))
  <1>1. PICK E, g : E = D \cup {x} /\ g = GroupOf(d, j)
    OBVIOUS
  <1>2. j \in Lanes /\ g \in GroupsOf(d) /\ j \in Members(d, g)
    BY <1>1, PositionFact, LayerFact
  <1>3. Last(p, d, g, j) = x
    BY <1>2 DEF Last, Shares
  <1>4. Op("compute", p, d, g, j) \in E
    BY <1>1, <1>2, <1>3, LastChain
  <1>5. Packed(p, d, j, j) \in E
    BY <1>1, <1>2, <1>4, ComputeChain
  <1>6. Packed(p, d, j, j) # x
    BY OpFact DEF Packed
  <1>7. QED
    BY <1>1, <1>2, <1>3, <1>5, <1>6 DEF RequestOK

\* A lane executes a layer once on a pass.
LEMMA SameLayer ==
  ASSUME NEW c \in Diagonals, NEW d \in Diagonals, NEW j \in Lanes, LayerOf(c, j) = LayerOf(d, j)
  PROVE  c = d
  <1>1. PICK m : m = LaneStagger * j
    OBVIOUS
  <1>2. m \in Nat /\ c \in Nat /\ d \in Nat
    BY <1>1, ConstantFact, LayerFact
  <1>3. c - m = d - m
    BY <1>1 DEF LayerOf
  <1>4. QED
    BY <1>2, <1>3

\* The corridor brings the rows of all earlier lanes.
LEMMA RowsCorridor ==
  ASSUME NEW p, NEW D, NEW x, x \in Ops(p), x \notin D, Closed(D \cup {x}, p), Closed(D, p),
         NEW d \in Diagonals, NEW j \in Active(d), j # 0, x = Op("corridor", p, d, j, j - 1), RowsOK(D, p),
         kv \in [Lanes -> [Layers -> [Lanes -> 0 .. Passes]]],
         \/ LayerOf(d, j) \in Attention /\ kv' = [kv EXCEPT ![j][LayerOf(d, j)] = kv[j - 1][LayerOf(d, j)]]
         \/ LayerOf(d, j) \notin Attention /\ kv' = kv
  PROVE  RowsOK(D \cup {x}, p)' /\ kv' \in [Lanes -> [Layers -> [Lanes -> 0 .. Passes]]]
  <1>1. PICK E, l, s : E = D \cup {x} /\ l = LayerOf(d, j) /\ s = d - LaneStagger
    OBVIOUS
  <1>2. /\ j \in Lanes /\ j \in Nat /\ j - 1 \in Lanes /\ l \in Layers
        /\ s \in Diagonals /\ j - 1 \in Active(s) /\ LayerOf(s, j - 1) = l
    BY <1>1, LayerFact, EarlierLane, ConstantFact
  <1>3. PICK v : v = kv[j - 1][l]
    OBVIOUS
  <1>4. v \in [Lanes -> 0 .. Passes]
    <2>1. kv[j - 1] \in [Layers -> [Lanes -> 0 .. Passes]]
      BY <1>2
    <2>2. QED
      BY <1>2, <1>3, <2>1
  <1>5. l \in Attention => \A c \in 0 .. j - 1 : v[c] = p
    <2>1. Op("pre", p, s, j - 1, j - 1) \in E
      BY <1>1, CorridorChain
    <2>2. Op("pre", p, s, j - 1, j - 1) # x
      <3>1. x.do = "corridor" /\ Op("pre", p, s, j - 1, j - 1).do = "pre"
        BY OpFact
      <3>2. QED
        BY <3>1
    <2>3. Op("pre", p, s, j - 1, j - 1) \in D
      BY <1>1, <2>1, <2>2
    <2>4. l \in Attention => \A c \in 0 .. j - 1 : kv[j - 1][LayerOf(s, j - 1)][c] = p
      BY <1>2, <2>3 DEF RowsOK
    <2>5. QED
      BY <1>2, <1>3, <2>4
  <1>6. CASE l \notin Attention
    <2>1. kv' = kv
      BY <1>1, <1>6
    <2>2. ASSUME NEW c \in Diagonals, NEW k \in Active(c), LayerOf(c, k) \in Attention
          PROVE  c # d \/ k # j
      BY <1>1, <1>6, <2>2
    <2>3. \A c \in Diagonals : \A k \in Active(c) : LayerOf(c, k) \in Attention =>
            /\ Op("corridor", p, c, k, k - 1) \in E => Op("corridor", p, c, k, k - 1) \in D
            /\ Op("pre", p, c, k, k) \in E => Op("pre", p, c, k, k) \in D
      BY <1>1, <2>2, OpFact
    <2>4. RowsOK(E, p)'
      BY <2>1, <2>3 DEF RowsOK
    <2>5. QED
      BY <1>1, <2>1, <2>4
  <1>7. CASE l \in Attention
    <2>1. /\ kv' \in [Lanes -> [Layers -> [Lanes -> 0 .. Passes]]] /\ kv'[j][l] = v
          /\ \A a \in Lanes : \A b \in Layers : a # j \/ b # l => kv'[a][b] = kv[a][b]
      <3>1. PICK f, h, V : f = kv /\ h = kv' /\ V = [Lanes -> 0 .. Passes]
        OBVIOUS
      <3>2. j \in Lanes /\ l \in Layers /\ v \in V /\ f \in [Lanes -> [Layers -> V]] /\ h = [f EXCEPT ![j][l] = v]
        BY <1>1, <1>2, <1>3, <1>4, <1>7, <3>1
      <3>3. /\ h \in [Lanes -> [Layers -> V]] /\ h[j][l] = v
            /\ \A a \in Lanes : \A b \in Layers : a # j \/ b # l => h[a][b] = f[a][b]
        <4>1. OneChanged2(Lanes, Layers, V, f, h, j, l, v)
          BY <3>2, Update2
        <4>2. QED
          BY <4>1 DEF OneChanged2
      <3>4. QED
        BY <3>1, <3>3
    <2>2. ASSUME NEW c \in Diagonals, NEW k \in Active(c), LayerOf(c, k) \in Attention
          PROVE  /\ k # 0 /\ Op("corridor", p, c, k, k - 1) \in E =>
                      \A i \in 0 .. k - 1 : kv'[k][LayerOf(c, k)][i] = p
                 /\ Op("pre", p, c, k, k) \in E => \A i \in 0 .. k : kv'[k][LayerOf(c, k)][i] = p
      <3>1. k \in Lanes /\ LayerOf(c, k) \in Layers
        BY LayerFact
      <3>2. Op("pre", p, c, k, k) # x
        <4>1. x.do = "corridor" /\ Op("pre", p, c, k, k).do = "pre"
          BY OpFact
        <4>2. QED
          BY <4>1
      <3>3. CASE k = j /\ LayerOf(c, k) = l
        <4>1. c = d
          BY <1>1, <1>2, <3>3, SameLayer
        <4>2. Op("pre", p, d, j, j) \notin D
          BY PreChain
        <4>3. QED
          BY <1>1, <1>5, <1>7, <2>1, <3>2, <3>3, <4>1, <4>2
      <3>4. CASE ~(k = j /\ LayerOf(c, k) = l)
        <4>1. Op("corridor", p, c, k, k - 1) # x
          BY <1>1, <3>4, OpFact
        <4>2. kv'[k][LayerOf(c, k)] = kv[k][LayerOf(c, k)]
          BY <2>1, <3>1, <3>4
        <4>3. /\ k # 0 /\ Op("corridor", p, c, k, k - 1) \in D =>
                   \A i \in 0 .. k - 1 : kv[k][LayerOf(c, k)][i] = p
              /\ Op("pre", p, c, k, k) \in D => \A i \in 0 .. k : kv[k][LayerOf(c, k)][i] = p
          BY <2>2 DEF RowsOK
        <4>4. QED
          BY <1>1, <3>2, <4>1, <4>2, <4>3
      <3>5. QED
        BY <3>3, <3>4
    <2>3. RowsOK(E, p)'
      BY <2>2 DEF RowsOK
    <2>4. QED
      BY <1>1, <2>1, <2>3
  <1>8. QED
    BY <1>6, <1>7

Caches(V) == [Lanes -> [Layers -> [Lanes -> V]]]
UpTo(f, j, l, p) == \A c \in 0 .. j : f[j][l][c] = p
\* The write of a lane's own row.
OwnRow(f, h, j, l, p) == h = [f EXCEPT ![j][l][j] = p]
\* One lane's rows of a cache change.
LEMMA RowsUpdate ==
  ASSUME NEW f, NEW h, NEW V, NEW j, NEW l, NEW p, j \in Lanes, l \in Layers, p \in V,
         f \in [Lanes -> [Layers -> [Lanes -> V]]], h = [f EXCEPT ![j][l][j] = p]
  PROVE  /\ h \in [Lanes -> [Layers -> [Lanes -> V]]] /\ h[j][l][j] = p
         /\ \A a \in Lanes : \A b \in Layers : \A c \in Lanes :
              a # j \/ b # l \/ c # j => h[a][b][c] = f[a][b][c]
  <1>1. OneChanged3(Lanes, Layers, Lanes, V, f, h, j, l, j, p)
    BY Update3
  <1>2. QED
    BY <1>1 DEF OneChanged3

\* The graph adds the lane's own rows.
LEMMA RowsPre ==
  ASSUME NEW V, NEW p, p \in V, NEW D, NEW x, x \notin D, Closed(D \cup {x}, p), Closed(D, p),
         NEW d \in Diagonals, NEW j \in Active(d), x = Op("pre", p, d, j, j), RowsOK(D, p),
         kv \in Caches(V),
         \/ LayerOf(d, j) \in Attention /\ OwnRow(kv, kv', j, LayerOf(d, j), p)
         \/ LayerOf(d, j) \notin Attention /\ kv' = kv
  PROVE  /\ RowsOK(D \cup {x}, p)' /\ kv' \in Caches(V)
         /\ LayerOf(d, j) \in Attention => UpTo(kv', j, LayerOf(d, j), p)
  <1>1. PICK E, l : E = D \cup {x} /\ l = LayerOf(d, j)
    OBVIOUS
  <1>2. j \in Lanes /\ j \in Nat /\ l \in Layers /\ 0 .. j \subseteq Lanes
    <2>1. j \in Lanes /\ l \in Layers
      BY <1>1, LayerFact
    <2>2. QED
      BY <2>1, ConstantFact DEF Lanes
  <1>a. kv \in [Lanes -> [Layers -> [Lanes -> V]]]
    BY DEF Caches
  <1>3. CASE l \notin Attention
    <2>1. kv' = kv
      BY <1>1, <1>3
    <2>2. ASSUME NEW c \in Diagonals, NEW k \in Active(c), LayerOf(c, k) \in Attention
          PROVE  c # d \/ k # j
      BY <1>1, <1>3, <2>2
    <2>3. \A c \in Diagonals : \A k \in Active(c) : LayerOf(c, k) \in Attention =>
            /\ Op("corridor", p, c, k, k - 1) \in E => Op("corridor", p, c, k, k - 1) \in D
            /\ Op("pre", p, c, k, k) \in E => Op("pre", p, c, k, k) \in D
      BY <1>1, <2>2, OpFact
    <2>4. RowsOK(E, p)'
      BY <2>1, <2>3 DEF RowsOK
    <2>5. QED
      BY <1>1, <1>3, <2>1, <2>4
  <1>4. CASE l \in Attention
    <2>1. /\ kv' \in [Lanes -> [Layers -> [Lanes -> V]]] /\ kv'[j][l][j] = p
          /\ \A a \in Lanes : \A b \in Layers : \A c \in Lanes :
               a # j \/ b # l \/ c # j => kv'[a][b][c] = kv[a][b][c]
      <3>1. PICK f, h : f = kv /\ h = kv'
        OBVIOUS
      <3>2. /\ j \in Lanes /\ l \in Layers /\ p \in V
            /\ f \in [Lanes -> [Layers -> [Lanes -> V]]] /\ h = [f EXCEPT ![j][l][j] = p]
        BY <1>1, <1>2, <1>4, <1>a, <3>1 DEF OwnRow
      <3>3. /\ h \in [Lanes -> [Layers -> [Lanes -> V]]] /\ h[j][l][j] = p
            /\ \A a \in Lanes : \A b \in Layers : \A c \in Lanes :
                 a # j \/ b # l \/ c # j => h[a][b][c] = f[a][b][c]
        BY <3>2, RowsUpdate
      <3>4. QED
        BY <3>1, <3>3
    <2>2. \A i \in 0 .. j : kv'[j][l][i] = p
      <3>1. SUFFICES ASSUME NEW i \in 0 .. j, i # j PROVE kv'[j][l][i] = p
        BY <2>1
      <3>2. j # 0 /\ i \in 0 .. j - 1 /\ i \in Lanes
        BY <1>2, <3>1
      <3>3. Op("corridor", p, d, j, j - 1) \in E
        BY <1>1, <3>2, PreChain
      <3>4. Op("corridor", p, d, j, j - 1) # x
        <4>1. x.do = "pre" /\ Op("corridor", p, d, j, j - 1).do = "corridor"
          BY OpFact
        <4>2. QED
          BY <4>1
      <3>5. kv[j][l][i] = p
        BY <1>1, <1>4, <3>2, <3>3, <3>4 DEF RowsOK
      <3>6. QED
        BY <1>2, <2>1, <3>1, <3>2, <3>5
    <2>3. ASSUME NEW c \in Diagonals, NEW k \in Active(c), LayerOf(c, k) \in Attention
          PROVE  /\ k # 0 /\ Op("corridor", p, c, k, k - 1) \in E =>
                      \A i \in 0 .. k - 1 : kv'[k][LayerOf(c, k)][i] = p
                 /\ Op("pre", p, c, k, k) \in E => \A i \in 0 .. k : kv'[k][LayerOf(c, k)][i] = p
      <3>1. k \in Lanes /\ k \in Nat /\ LayerOf(c, k) \in Layers /\ 0 .. k \subseteq Lanes /\ 0 .. k - 1 \subseteq 0 .. k
        <4>1. k \in Lanes /\ LayerOf(c, k) \in Layers
          BY LayerFact
        <4>2. QED
          BY <4>1, ConstantFact DEF Lanes
      <3>2. CASE k = j /\ LayerOf(c, k) = l
        BY <2>2, <3>1, <3>2
      <3>3. CASE ~(k = j /\ LayerOf(c, k) = l)
        <4>1. Op("pre", p, c, k, k) # x /\ Op("corridor", p, c, k, k - 1) # x
          <5>1. x.do = "pre" /\ Op("corridor", p, c, k, k - 1).do = "corridor"
            BY OpFact
          <5>2. Op("pre", p, c, k, k) # x
            BY <1>1, <3>3, OpFact
          <5>3. QED
            BY <5>1, <5>2
        <4>2. \A i \in Lanes : kv'[k][LayerOf(c, k)][i] = kv[k][LayerOf(c, k)][i]
          BY <2>1, <3>1, <3>3
        <4>3. /\ k # 0 /\ Op("corridor", p, c, k, k - 1) \in D =>
                   \A i \in 0 .. k - 1 : kv[k][LayerOf(c, k)][i] = p
              /\ Op("pre", p, c, k, k) \in D => \A i \in 0 .. k : kv[k][LayerOf(c, k)][i] = p
          BY <2>3 DEF RowsOK
        <4>4. \A i \in 0 .. k : i \in Lanes
          BY <3>1
        <4>5. \A i \in 0 .. k - 1 : i \in Lanes
          BY <3>1
        <4>6. QED
          BY <1>1, <4>1, <4>2, <4>3, <4>4, <4>5
      <3>4. QED
        BY <3>2, <3>3
    <2>4. RowsOK(E, p)'
      BY <2>3 DEF RowsOK
    <2>5. QED
      BY <1>1, <2>1, <2>2, <2>4 DEF Caches, UpTo
  <1>5. QED
    BY <1>3, <1>4

\* A cell is complete when the rest of its graph has run.
LEMMA ExecutedStep ==
  ASSUME NEW p, p \in 1 .. Passes, NEW D, NEW x, NEW d \in Diagonals, NEW j \in Active(d), x = Op("post", p, d, j, j),
         ExecutedOK(D, p), executed' = executed \cup {Cell(p, d, j)}
  PROVE  ExecutedOK(D \cup {x}, p)' /\ Cell(p, d, j) \in Cells
  <1>1. PICK E, v : E = D \cup {x} /\ v = Cell(p, d, j)
    OBVIOUS
  <1>2. j \in Lanes /\ LayerOf(d, j) \in Layers
    BY LayerFact
  <1>3. v \in Cells /\ v.pass = p /\ v.lane = j /\ v.layer = LayerOf(d, j)
    BY <1>1, <1>2 DEF Cell, Cells
  <1>4. ASSUME NEW c \in Cells, c.pass = p
        PROVE  Op("post", p, c.layer + LaneStagger * c.lane, c.lane, c.lane) = x <=> c = v
    <2>1. PICK n : n = c.lane
      OBVIOUS
    <2>2. PICK m : m = LaneStagger * n
      OBVIOUS
    <2>3. c.layer \in Int /\ n \in Lanes /\ m \in Int /\ d \in Int
      <3>1. n \in Lanes /\ c.layer \in Int
        BY <2>1 DEF Cells, Layers
      <3>2. m \in Int
        BY <2>2, <3>1, ConstantFact
      <3>3. QED
        BY <3>1, <3>2, LayerFact
    <2>4. Op("post", p, c.layer + m, n, n) = x <=> n = j /\ c.layer + m = d
      BY OpFact
    <2>5. n = j => LayerOf(d, j) = d - m
      BY <2>2 DEF LayerOf
    <2>6. n = j => (c.layer + m = d <=> c.layer = LayerOf(d, j))
      BY <2>3, <2>5
    <2>7. c = v <=> c.lane = j /\ c.layer = LayerOf(d, j)
      BY <1>3, <1>4 DEF Cells
    <2>8. QED
      BY <2>1, <2>2, <2>4, <2>6, <2>7
  <1>5. ASSUME NEW c \in Cells
        PROVE  c \in executed' <=> \/ c.pass < p
                                   \/ /\ c.pass = p
                                      /\ Op("post", p, c.layer + LaneStagger * c.lane, c.lane, c.lane) \in E
    <2>1. c \in executed' <=> c \in executed \/ c = v
      BY <1>1
    <2>2. c \in executed <=> \/ c.pass < p
                             \/ /\ c.pass = p
                                /\ Op("post", p, c.layer + LaneStagger * c.lane, c.lane, c.lane) \in D
      BY DEF ExecutedOK
    <2>3. CASE c.pass = p
      BY <1>1, <1>4, <2>1, <2>2, <2>3
    <2>4. CASE c.pass # p
      BY <1>3, <2>1, <2>2, <2>4
    <2>5. QED
      BY <2>3, <2>4
  <1>6. ExecutedOK(E, p)'
    BY <1>5 DEF ExecutedOK
  <1>7. QED
    BY <1>1, <1>3, <1>6

-----------------------------------------------------------------------------
(* The inductive invariant.                                                *)

\* What a cell had to wait for is complete.
ExecutedClosed == \A c \in executed : Wave!Before(c) \subseteq executed

IInv == /\ TypeOK /\ OrderOK /\ DataOK(Ran, pass) /\ ExecutedClosed
        /\ SumIsOfItsCell /\ AttentionSeesEarlierLanes

\* The cells of Wavefront are those of AffinityWave.
LEMMA SameCells == Wave!Cells = Cells
  BY DEF Wave!Cells, Cells, Lanes, Layers

\* The windows after a step, for what has run and the pass after that step.
LEMMA DataBridge ==
  ASSUME NEW E, NEW p, Ran' = E, pass' = p, DataOK(E, p)'
  PROVE  DataOK(Ran, pass)'
  BY DEF DataOK, SourceOK, RequestOK, PartialOK, RecvOK, RowsOK, ExecutedOK

\* What holds when x runs: D has run before.
LEMMA Running ==
  ASSUME IInv, NEW s, NEW kinds, NEW x, RunsNext(s, kinds, x), NEW p, NEW D, NEW E,
         p = pass, D = Ran, E = D \cup {x}
  PROVE  /\ x \in Ops(p) /\ x \notin D /\ x.do \in kinds /\ Legal(x) /\ x.pass = p
         /\ x.diagonal \in Diagonals
         /\ Closed(D, p) /\ Closed(E, p) /\ DataOK(D, p)
         /\ queue' \in [Streams -> Seq(Entries)] /\ recorded' = recorded
         /\ pass' = p /\ diagonal' = diagonal /\ hpc' = hpc /\ Ran' = E /\ OrderOK'
  <1>1. TypeOK /\ OrderOK /\ DataOK(D, p) /\ Closed(D, p)
    BY DEF IInv, OrderOK
  <1>2. /\ x \in Ops(pass) /\ x \notin Ran /\ x.do \in kinds
        /\ queue' \in [Streams -> Seq(Entries)] /\ recorded' = recorded
        /\ pass' = pass /\ diagonal' = diagonal /\ hpc' = hpc
        /\ Ran' = Ran \cup {x} /\ Closed(Ran \cup {x}, pass) /\ OrderOK'
    BY <1>1, DeviceStep
  <1>3. Legal(x) /\ x.pass = p /\ x.diagonal \in Diagonals
    BY <1>2, OpsFact, LegalKind
  <1>4. QED
    BY <1>1, <1>2, <1>3

\* An operation that only waits or records keeps the invariant.
LEMMA MarkStep ==
  ASSUME IInv, NEW s \in Streams, mark(s)
  PROVE  IInv'
  <1>1. PICK x, p, D, E : x = Head(queue[s]).op /\ p = pass /\ D = Ran /\ E = D \cup {x}
    OBVIOUS
  <1>2. PICK kinds : kinds = {"copied", "source", "input", "output"}
    OBVIOUS
  <1>3. RunsNext(s, kinds, x)
    BY <1>1, <1>2 DEF mark, RunsNext
  <1>4. /\ x.do \in kinds /\ DataOK(D, p) /\ queue' \in [Streams -> Seq(Entries)] /\ recorded' = recorded
        /\ pass' = p /\ diagonal' = diagonal /\ hpc' = hpc /\ Ran' = E /\ OrderOK'
    BY <1>1, <1>3, Running
  <1>5. UNCHANGED <<lanes, service, results, history>>
    BY DEF mark
  <1>6. DataOK(E, p)'
    BY <1>1, <1>2, <1>4, <1>5, FrameStep DEF DataOK, lanes, service, results, history
  <1>7. DataOK(Ran, pass)'
    BY <1>4, <1>6, DataBridge
  <1>8. TypeOK'
    BY <1>1, <1>4, <1>5 DEF IInv, TypeOK, lanes, service, results, history
  <1>9. ExecutedClosed' /\ SumIsOfItsCell' /\ AttentionSeesEarlierLanes'
    BY <1>5 DEF IInv, ExecutedClosed, SumIsOfItsCell, AttentionSeesEarlierLanes, results, history, Wave!Before
  <1>10. QED
    BY <1>4, <1>7, <1>8, <1>9 DEF IInv

\* The cell of an active lane.
LEMMA CellFact ==
  ASSUME NEW p \in 1 .. Passes, NEW d \in Diagonals, NEW j \in Active(d)
  PROVE  /\ Cell(p, d, j) \in Cells /\ Cell(p, d, j) \in Names /\ Whole(Cell(p, d, j)) \in Parts
         /\ Cell(p, d, j).pass = p /\ Cell(p, d, j).lane = j /\ Cell(p, d, j).layer = LayerOf(d, j)
         /\ Cell(p, d, j) # NoCell
         /\ j \in Lanes /\ LayerOf(d, j) \in Layers
  <1>1. j \in Lanes /\ LayerOf(d, j) \in Layers
    BY LayerFact
  <1>2. PICK v : v = Cell(p, d, j)
    OBVIOUS
  <1>3. v \in Cells /\ v.pass = p /\ v.lane = j /\ v.layer = LayerOf(d, j)
    BY <1>1, <1>2 DEF Cell, Cells
  <1>4. v # NoCell
    BY <1>3 DEF NoCell
  <1>5. QED
    BY <1>1, <1>2, <1>3, <1>4 DEF Names, Whole, Parts

\* The cell that an operation of a lane is for.
LEMMA CellOfFact ==
  ASSUME NEW k, NEW p, NEW d, NEW j, NEW o
  PROVE  CellOf(Op(k, p, d, j, o)) = Cell(p, d, j)
  BY OpFact DEF CellOf, Cell

\* A copy between lanes keeps the invariant.
LEMMA CorridorStep ==
  ASSUME IInv, NEW s \in Streams, corridor(s)
  PROVE  IInv'
  <1>0. PICK x : x = Head(queue[s]).op
    OBVIOUS
  <1>1. PICK p, D, E : p = pass /\ D = Ran /\ E = D \cup {x}
    OBVIOUS
  <1>a. PICK kinds : kinds = {"corridor"}
    OBVIOUS
  <1>2. RunsNext(s, kinds, x)
    BY <1>0, <1>a DEF corridor, RunsNext
  <1>3. /\ x \in Ops(p) /\ x \notin D /\ x.do = "corridor" /\ Legal(x) /\ x.pass = p
        /\ Closed(D, p) /\ Closed(E, p) /\ DataOK(D, p)
        /\ queue' \in [Streams -> Seq(Entries)] /\ recorded' = recorded
        /\ pass' = p /\ diagonal' = diagonal /\ hpc' = hpc /\ Ran' = E /\ OrderOK'
    <2>1. x.do \in kinds
      BY <1>1, <1>2, Running
    <2>2. QED
      BY <1>1, <1>2, <1>a, <2>1, Running
  <1>4. PICK d, j, l : d = x.diagonal /\ j = x.n /\ l = LayerOf(d, j)
    OBVIOUS
  <1>5. /\ d \in Diagonals /\ j \in Active(d) /\ j # 0 /\ x = Op("corridor", p, d, j, j - 1)
        /\ j \in Lanes /\ l \in Layers /\ j - 1 \in Lanes
    <2>1. d \in Diagonals /\ j \in Active(d) /\ j # 0 /\ x = Op("corridor", p, d, j, j - 1)
      BY <1>3, <1>4 DEF Legal
    <2>2. QED
      BY <1>4, <2>1, LayerFact, EarlierLane
  <1>6. /\ \/ l \in Attention /\ kv' = [kv EXCEPT ![j][l] = kv[j - 1][l]] /\ state_in' = state_in
           \/ l \notin Attention /\ kv' = kv /\ state_in' = [state_in EXCEPT ![j][l] = state_in[j - 1][l]]
        /\ UNCHANGED <<rs, source, service, results, history>>
    <2>1. CellOf(x).lane = j /\ CellOf(x).layer = l
      BY <1>4 DEF CellOf
    <2>2. QED
      BY <1>0, <2>1 DEF corridor
  <1>7. RowsOK(E, p)' /\ kv' \in [Lanes -> [Layers -> [Lanes -> 0 .. Passes]]]
    <2>1. kv \in [Lanes -> [Layers -> [Lanes -> 0 .. Passes]]] /\ RowsOK(D, p)
      BY <1>3 DEF IInv, TypeOK, DataOK
    <2>2. \/ LayerOf(d, j) \in Attention /\ kv' = [kv EXCEPT ![j][LayerOf(d, j)] = kv[j - 1][LayerOf(d, j)]]
          \/ LayerOf(d, j) \notin Attention /\ kv' = kv
      BY <1>4, <1>6
    <2>3. /\ x \in Ops(p) /\ x \notin D /\ Closed(D \cup {x}, p) /\ Closed(D, p)
          /\ d \in Diagonals /\ j \in Active(d) /\ j # 0 /\ x = Op("corridor", p, d, j, j - 1)
      BY <1>1, <1>3, <1>5
    <2>5. RowsOK(D \cup {x}, p)' /\ kv' \in [Lanes -> [Layers -> [Lanes -> 0 .. Passes]]]
      BY <2>1, <2>2, <2>3, RowsCorridor
    <2>4. QED
      BY <1>1, <2>5
  <1>8. state_in' \in [Lanes -> [Layers -> Names]]
    <2>1. PICK f, h : f = state_in /\ h = state_in'
      OBVIOUS
    <2>2. f \in [Lanes -> [Layers -> Names]]
      BY <2>1 DEF IInv, TypeOK
    <2>3. CASE h = [f EXCEPT ![j][l] = f[j - 1][l]]
      <3>1. f[j - 1] \in [Layers -> Names]
        BY <1>5, <2>2
      <3>2. f[j - 1][l] \in Names
        BY <1>5, <3>1
      <3>3. PICK v \in Names : v = f[j - 1][l]
        BY <3>2
      <3>4. h = [f EXCEPT ![j][l] = v]
        BY <2>3, <3>3
      <3>5. h \in [Lanes -> [Layers -> Names]]
        <4>1. OneChanged2(Lanes, Layers, Names, f, h, j, l, v)
          BY <1>5, <2>2, <3>4, Update2
        <4>2. QED
          BY <4>1 DEF OneChanged2
      <3>6. QED
        BY <2>1, <3>5
    <2>4. CASE h = f
      BY <2>1, <2>2, <2>4
    <2>5. QED
      BY <1>6, <2>1, <2>3, <2>4
  <1>9. DataOK(E, p)'
    <2>1. source' = source /\ request' = request /\ partial' = partial /\ recv' = recv /\ executed' = executed
      BY <1>6 DEF service, history
    <2>2. QED
      BY <1>1, <1>3, <1>7, <2>1, FrameStep DEF DataOK
  <1>10. DataOK(Ran, pass)'
    BY <1>3, <1>9, DataBridge
  <1>11. TypeOK'
    BY <1>1, <1>3, <1>6, <1>7, <1>8 DEF IInv, TypeOK, service, results, history
  <1>12. ExecutedClosed' /\ SumIsOfItsCell' /\ AttentionSeesEarlierLanes'
    BY <1>6 DEF IInv, ExecutedClosed, SumIsOfItsCell, AttentionSeesEarlierLanes, results, history, Wave!Before
  <1>13. QED
    BY <1>3, <1>10, <1>11, <1>12 DEF IInv

\* A graph up to the experts keeps the invariant.
LEMMA PreStep ==
  ASSUME IInv, NEW s \in Streams, pre(s)
  PROVE  IInv'
  <1>0. PICK x : x = Head(queue[s]).op
    OBVIOUS
  <1>1. PICK p, D, E : p = pass /\ D = Ran /\ E = D \cup {x}
    OBVIOUS
  <1>a. PICK kinds : kinds = {"pre"}
    OBVIOUS
  <1>2. RunsNext(s, kinds, x)
    BY <1>0, <1>a DEF pre, RunsNext
  <1>3. /\ x \in Ops(p) /\ x \notin D /\ x.do = "pre" /\ Legal(x) /\ x.pass = p
        /\ Closed(D, p) /\ Closed(E, p) /\ DataOK(D, p)
        /\ queue' \in [Streams -> Seq(Entries)] /\ recorded' = recorded
        /\ pass' = p /\ diagonal' = diagonal /\ hpc' = hpc /\ Ran' = E /\ OrderOK'
    <2>1. x.do \in kinds
      BY <1>1, <1>2, Running
    <2>2. QED
      BY <1>1, <1>2, <1>a, <2>1, Running
  <1>b. p \in 1 .. Passes
    BY <1>1 DEF IInv, TypeOK
  <1>4. PICK d, j, l, v : d = x.diagonal /\ j = x.n /\ l = LayerOf(d, j) /\ v = Cell(p, d, j)
    OBVIOUS
  <1>5. d \in Diagonals /\ j \in Active(d) /\ x = Op("pre", p, d, j, j)
    BY <1>3, <1>4 DEF Legal
  <1>6. /\ v \in Names /\ v.pass = p /\ v.lane = j /\ v.layer = l /\ v # NoCell /\ CellOf(x) = v
        /\ j \in Lanes /\ l \in Layers
    BY <1>b, <1>3, <1>4, <1>5, CellFact, CellOfFact
  <1>7. /\ \/ /\ l \in Attention
              /\ kv' = [kv EXCEPT ![j][l][j] = p]
              /\ seen' = [seen EXCEPT ![j] = [cell |-> v, rows |-> kv'[j][l], state |-> NoCell]]
              /\ rs' = rs /\ state_in' = state_in
           \/ /\ l \notin Attention
              /\ state_in' = [state_in EXCEPT ![j][l] = rs[j][l]]
              /\ rs' = [rs EXCEPT ![j][l] = v]
              /\ seen' = [seen EXCEPT ![j] =
                            [cell |-> v, rows |-> [c \in Lanes |-> 0], state |-> state_in'[j][l]]]
              /\ kv' = kv
        /\ source' = [source EXCEPT ![j] = v]
        /\ UNCHANGED <<service, results, executed>>
    BY <1>0, <1>1, <1>3, <1>6 DEF pre
  <1>8. /\ RowsOK(E, p)' /\ kv' \in [Lanes -> [Layers -> [Lanes -> 0 .. Passes]]]
        /\ l \in Attention => \A c \in 0 .. j : kv'[j][l][c] = p
    <2>1. kv \in [Lanes -> [Layers -> [Lanes -> 0 .. Passes]]] /\ RowsOK(D, p)
      BY <1>3 DEF IInv, TypeOK, DataOK
    <2>2. \/ LayerOf(d, j) \in Attention /\ OwnRow(kv, kv', j, LayerOf(d, j), p)
          \/ LayerOf(d, j) \notin Attention /\ kv' = kv
      BY <1>4, <1>7 DEF OwnRow
    <2>3. PICK V : V = 0 .. Passes
      OBVIOUS
    <2>a. p \in V /\ kv \in Caches(V)
      <3>1. p \in 0 .. Passes
        BY <1>b
      <3>2. QED
        BY <2>1, <2>3, <3>1 DEF Caches
    <2>4. /\ RowsOK(D \cup {x}, p)' /\ kv' \in Caches(V)
          /\ LayerOf(d, j) \in Attention => UpTo(kv', j, LayerOf(d, j), p)
      <3>1. /\ x \notin D /\ Closed(D \cup {x}, p) /\ Closed(D, p) /\ RowsOK(D, p)
            /\ d \in Diagonals /\ j \in Active(d) /\ x = Op("pre", p, d, j, j)
        BY <1>1, <1>3, <1>5, <2>1
      <3>2. QED
        BY <2>2, <2>a, <3>1, RowsPre
    <2>5. QED
      BY <1>1, <1>4, <2>3, <2>4 DEF Caches, UpTo
  <1>9. rs' \in [Lanes -> [Layers -> Names]] /\ state_in' \in [Lanes -> [Layers -> Names]]
    <2>1. rs \in [Lanes -> [Layers -> Names]] /\ state_in \in [Lanes -> [Layers -> Names]]
      BY DEF IInv, TypeOK
    <2>2. CASE rs' = rs /\ state_in' = state_in
      BY <2>1, <2>2
    <2>3. CASE rs' = [rs EXCEPT ![j][l] = v] /\ state_in' = [state_in EXCEPT ![j][l] = rs[j][l]]
      <3>1. rs[j] \in [Layers -> Names]
        BY <1>6, <2>1
      <3>2. rs[j][l] \in Names
        BY <1>6, <3>1
      <3>3. PICK a, b, g, h, w : a = rs /\ b = rs' /\ g = state_in /\ h = state_in' /\ w = rs[j][l] /\ w \in Names
        BY <3>2
      <3>4. b = [a EXCEPT ![j][l] = v] /\ h = [g EXCEPT ![j][l] = w]
        BY <2>3, <3>3
      <3>5. a \in [Lanes -> [Layers -> Names]] /\ g \in [Lanes -> [Layers -> Names]]
        BY <2>1, <3>3
      <3>6. b \in [Lanes -> [Layers -> Names]]
        <4>1. OneChanged2(Lanes, Layers, Names, a, b, j, l, v)
          BY <1>6, <3>4, <3>5, Update2
        <4>2. QED
          BY <4>1 DEF OneChanged2
      <3>7. h \in [Lanes -> [Layers -> Names]]
        <4>1. OneChanged2(Lanes, Layers, Names, g, h, j, l, w)
          BY <1>6, <3>3, <3>4, <3>5, Update2
        <4>2. QED
          BY <4>1 DEF OneChanged2
      <3>8. QED
        BY <3>3, <3>6, <3>7
    <2>4. QED
      BY <1>7, <2>2, <2>3
  <1>10. /\ source' \in [Lanes -> Names] /\ SourceOK(E, p)'
    <2>1. source \in [Lanes -> Names] /\ SourceOK(D, p)
      BY <1>3 DEF IInv, TypeOK, DataOK
    <2>2. source' \in [Lanes -> Names] /\ source'[j] = v /\ \A k \in Lanes : k # j => source'[k] = source[k]
      BY <1>6, <1>7, <2>1
    <2>3. ASSUME NEW c \in Diagonals, NEW k \in Active(c), Op("pre", p, c, k, k) \in E, Op("input", p, c, k, k) \notin E
          PROVE  source'[k] = Cell(p, c, k)
      <3>1. k \in Lanes /\ c \in Nat /\ d \in Nat
        BY LayerFact, <1>5
      <3>2. CASE Op("pre", p, c, k, k) = x
        <4>1. c = d /\ k = j
          BY <1>5, <3>2, OpFact
        <4>2. QED
          BY <1>4, <2>2, <4>1
      <3>3. CASE Op("pre", p, c, k, k) # x
        <4>1. source[k] = Cell(p, c, k)
          BY <1>1, <2>1, <2>3, <3>3 DEF SourceOK
        <4>2. k # j
          <5>1. SUFFICES ASSUME k = j PROVE FALSE
            OBVIOUS
          <5>2. c # d
            BY <1>5, <3>3, <5>1
          <5>3. CASE c < d
            <6>1. Op("pre", p, d, j, j) \in E /\ j \in Active(c)
              BY <1>1, <1>5, <5>1
            <6>2. Op("input", p, c, j, j) \in E
              BY <1>3, <1>5, <5>3, <6>1, PreChain
            <6>3. QED
              BY <2>3, <5>1, <6>2
          <5>4. CASE d < c
            <6>1. Op("pre", p, c, j, j) \in D /\ j \in Active(c)
              BY <1>1, <2>3, <3>3, <5>1
            <6>2. x \in D
              BY <1>3, <1>5, <5>4, <6>1, PreChain
            <6>3. QED
              BY <1>3, <6>2
          <5>5. QED
            BY <3>1, <5>2, <5>3, <5>4
        <4>3. QED
          BY <2>2, <3>1, <4>1, <4>2
      <3>4. QED
        BY <3>2, <3>3
    <2>4. SourceOK(E, p)'
      BY <2>3 DEF SourceOK
    <2>5. QED
      BY <2>2, <2>4
  <1>11. DataOK(E, p)'
    <2>1. request' = request /\ partial' = partial /\ recv' = recv /\ executed' = executed
      BY <1>7 DEF service
    <2>2. QED
      BY <1>1, <1>3, <1>8, <1>10, <2>1, FrameStep DEF DataOK
  <1>12. DataOK(Ran, pass)'
    BY <1>3, <1>11, DataBridge
  <1>13. PICK w : seen' = [seen EXCEPT ![j] = w] /\ w \in [cell : Names, rows : [Lanes -> 0 .. Passes], state : Names]
                  /\ w.cell = v /\ (l \in Attention => w.rows = kv'[j][l])
    <2>1. kv'[j] \in [Layers -> [Lanes -> 0 .. Passes]] /\ state_in'[j] \in [Layers -> Names]
      BY <1>6, <1>8, <1>9
    <2>2. kv'[j][l] \in [Lanes -> 0 .. Passes] /\ state_in'[j][l] \in Names
      BY <1>6, <2>1
    <2>3. NoCell \in Names /\ [c \in Lanes |-> 0] \in [Lanes -> 0 .. Passes]
      BY ConstantFact DEF Names
    <2>4. PICK a, b : a = kv'[j][l] /\ b = state_in'[j][l]
      OBVIOUS
    <2>5. CASE l \in Attention
      <3>1. PICK w : w = [cell |-> v, rows |-> a, state |-> NoCell]
        OBVIOUS
      <3>2. seen' = [seen EXCEPT ![j] = w]
        BY <1>7, <2>4, <2>5, <3>1
      <3>3. a \in [Lanes -> 0 .. Passes]
        BY <2>2, <2>4
      <3>4. w \in [cell : Names, rows : [Lanes -> 0 .. Passes], state : Names]
        BY <1>6, <2>3, <3>1, <3>3
      <3>5. w.cell = v /\ (l \in Attention => w.rows = kv'[j][l])
        BY <2>4, <3>1
      <3>6. QED
        BY <3>2, <3>4, <3>5
    <2>6. CASE l \notin Attention
      <3>1. PICK w, r : w = [cell |-> v, rows |-> r, state |-> b] /\ r = [c \in Lanes |-> 0]
        OBVIOUS
      <3>2. seen' = [seen EXCEPT ![j] = w]
        BY <1>7, <2>4, <2>6, <3>1
      <3>3. r \in [Lanes -> 0 .. Passes]
        BY <2>3, <3>1
      <3>4. b \in Names
        BY <2>2, <2>4
      <3>5. w \in [cell : Names, rows : [Lanes -> 0 .. Passes], state : Names] /\ w.cell = v
        BY <1>6, <3>1, <3>3, <3>4
      <3>6. QED
        BY <2>6, <3>2, <3>5
    <2>7. QED
      BY <2>5, <2>6
  <1>14. PICK W : W = [cell : Names, rows : [Lanes -> 0 .. Passes], state : Names]
    OBVIOUS
  <1>15. seen' \in [Lanes -> W] /\ seen'[j] = w /\ \A k \in Lanes : k # j => seen'[k] = seen[k]
    <2>1. seen \in [Lanes -> W]
      BY <1>14 DEF IInv, TypeOK
    <2>2. w \in W
      BY <1>13, <1>14
    <2>3. QED
      BY <1>6, <1>13, <2>1, <2>2
  <1>16. TypeOK'
    BY <1>1, <1>3, <1>7, <1>8, <1>9, <1>10, <1>14, <1>15 DEF IInv, TypeOK, service, results
  <1>17. AttentionSeesEarlierLanes'
    <2>1. SUFFICES ASSUME NEW k \in Lanes, seen'[k].cell.layer \in Attention, seen'[k].cell # NoCell, NEW c \in 0 .. k
                   PROVE  seen'[k].rows[c] = seen'[k].cell.pass
      BY DEF AttentionSeesEarlierLanes
    <2>2. CASE k = j
      <3>1. l \in Attention /\ w.rows = kv'[j][l]
        BY <1>6, <1>13, <1>15, <2>1, <2>2
      <3>2. QED
        BY <1>6, <1>8, <1>13, <1>15, <2>1, <2>2, <3>1
    <2>3. CASE k # j
      BY <1>15, <2>1, <2>3 DEF IInv, AttentionSeesEarlierLanes
    <2>4. QED
      BY <2>2, <2>3
  <1>18. ExecutedClosed' /\ SumIsOfItsCell'
    BY <1>7 DEF IInv, ExecutedClosed, SumIsOfItsCell, results, Wave!Before
  <1>19. QED
    BY <1>3, <1>12, <1>16, <1>17, <1>18 DEF IInv

\* Packing a request keeps the invariant.
LEMMA PackStep ==
  ASSUME IInv, NEW s \in Streams, pack(s)
  PROVE  IInv'
  <1>0. PICK x : x = Head(queue[s]).op
    OBVIOUS
  <1>1. PICK p, D, E : p = pass /\ D = Ran /\ E = D \cup {x}
    OBVIOUS
  <1>2. PICK kinds : kinds = {"pack"}
    OBVIOUS
  <1>3. RunsNext(s, kinds, x)
    BY <1>0, <1>2 DEF pack, RunsNext
  <1>4. /\ x \in Ops(p) /\ x \notin D /\ x.do = "pack" /\ Legal(x) /\ x.pass = p
        /\ Closed(D, p) /\ Closed(E, p) /\ DataOK(D, p)
        /\ queue' \in [Streams -> Seq(Entries)] /\ recorded' = recorded
        /\ pass' = p /\ diagonal' = diagonal /\ hpc' = hpc /\ Ran' = E /\ OrderOK'
    <2>1. x.do \in kinds
      BY <1>1, <1>3, Running
    <2>2. /\ x \in Ops(p) /\ x \notin D /\ Legal(x) /\ x.pass = p
          /\ Closed(D, p) /\ Closed(E, p) /\ DataOK(D, p)
      BY <1>1, <1>3, Running
    <2>3. /\ queue' \in [Streams -> Seq(Entries)] /\ recorded' = recorded
          /\ pass' = p /\ diagonal' = diagonal /\ hpc' = hpc /\ Ran' = E /\ OrderOK'
      BY <1>1, <1>3, Running
    <2>4. QED
      BY <1>2, <2>1, <2>2, <2>3
  <1>5. p \in 1 .. Passes
    BY <1>1 DEF IInv, TypeOK
  <1>6. PICK d, j, g, i, v : /\ d = x.diagonal /\ j = x.n /\ v = Cell(p, d, j)
                            /\ g = GroupOf(d, j) /\ i = InGroup(d, j)
    OBVIOUS
  <1>7. d \in Diagonals /\ j \in Active(d) /\ x = Op("pack", p, d, j, j)
    BY <1>4, <1>6 DEF Legal
  <1>8. /\ v \in Names /\ Whole(v) \in Parts /\ v # NoCell /\ CellOf(x) = v /\ j \in Lanes
        /\ v \in Cells
    BY <1>5, <1>6, <1>7, CellFact, CellOfFact
  <1>9. /\ request' = [request EXCEPT ![g][j][i] = Whole(source[j])]
        /\ UNCHANGED <<lanes, partial, recv, results, history>>
    BY <1>0, <1>6 DEF pack, Group, Index
  <1>10. x = Packed(p, d, j, j) /\ source[j] = v
    <2>1. x = Packed(p, d, j, j) /\ SourceOK(D, p) /\ Closed(D \cup {x}, p)
      BY <1>1, <1>4, <1>7 DEF Packed, DataOK
    <2>2. QED
      BY <1>4, <1>6, <1>7, <1>8, <2>1, SourceIs, SMTT(60)
  <1>11. RequestOK(E, p)' /\ request' \in [Groups -> [Lanes -> [0 .. GroupCells - 1 -> Parts]]]
    <2>1. request \in [Groups -> [Lanes -> [0 .. GroupCells - 1 -> Parts]]] /\ RequestOK(D, p)
      BY <1>4 DEF IInv, TypeOK, DataOK
    <2>2. request' = [request EXCEPT ![GroupOf(d, j)][j][InGroup(d, j)] = Whole(Cell(p, d, j))]
      BY <1>6, <1>9, <1>10
    <2>3. p \in Int /\ Whole(Cell(p, d, j)) \in Parts /\ Closed(D \cup {x}, p)
      BY <1>1, <1>4, <1>5, <1>6, <1>8
    <2>4. QED
      BY <1>1, <1>4, <1>7, <1>8, <1>10, <2>1, <2>2, <2>3, RequestStep
  <1>12. DataOK(E, p)'
    <2>1. source' = source /\ partial' = partial /\ recv' = recv /\ kv' = kv /\ executed' = executed
      BY <1>9 DEF lanes, results, history
    <2>2. QED
      BY <1>1, <1>4, <1>11, <2>1, FrameStep DEF DataOK
  <1>13. DataOK(Ran, pass)'
    BY <1>4, <1>12, DataBridge
  <1>14. TypeOK'
    BY <1>4, <1>9, <1>1, <1>11 DEF IInv, TypeOK, lanes, results, history
  <1>15. ExecutedClosed' /\ SumIsOfItsCell' /\ AttentionSeesEarlierLanes'
    BY <1>9 DEF IInv, ExecutedClosed, SumIsOfItsCell, AttentionSeesEarlierLanes, results, history, Wave!Before
  <1>16. QED
    BY <1>4, <1>13, <1>14, <1>15 DEF IInv

\* Sending a request keeps the invariant.
LEMMA SendStep ==
  ASSUME IInv, NEW s \in Streams, send(s)
  PROVE  IInv'
  <1>0. PICK x : x = Head(queue[s]).op
    OBVIOUS
  <1>1. PICK p, D, E : p = pass /\ D = Ran /\ E = D \cup {x}
    OBVIOUS
  <1>2. PICK kinds : kinds = {"send"}
    OBVIOUS
  <1>3. RunsNext(s, kinds, x)
    BY <1>0, <1>2 DEF send, RunsNext
  <1>4. /\ x \in Ops(p) /\ x \notin D /\ x.do = "send" /\ Legal(x) /\ x.pass = p
        /\ Closed(D, p) /\ Closed(E, p) /\ DataOK(D, p)
        /\ queue' \in [Streams -> Seq(Entries)] /\ recorded' = recorded
        /\ pass' = p /\ diagonal' = diagonal /\ hpc' = hpc /\ Ran' = E /\ OrderOK'
    <2>1. x.do \in kinds
      BY <1>1, <1>3, Running
    <2>2. /\ x \in Ops(p) /\ x \notin D /\ Legal(x) /\ x.pass = p
          /\ Closed(D, p) /\ Closed(E, p) /\ DataOK(D, p)
      BY <1>1, <1>3, Running
    <2>3. /\ queue' \in [Streams -> Seq(Entries)] /\ recorded' = recorded
          /\ pass' = p /\ diagonal' = diagonal /\ hpc' = hpc /\ Ran' = E /\ OrderOK'
      BY <1>1, <1>3, Running
    <2>4. QED
      BY <1>2, <2>1, <2>2, <2>3
  <1>5. p \in 1 .. Passes
    BY <1>1 DEF IInv, TypeOK
  <1>6. PICK d, j, o, g, i, v : /\ d = x.diagonal /\ j = x.n /\ o = x.o /\ v = Cell(p, d, j)
                               /\ g = GroupOf(d, j) /\ i = InGroup(d, j)
    OBVIOUS
  <1>7. d \in Diagonals /\ j \in Active(d) /\ o \in Lanes /\ o # j /\ x = Op("send", p, d, j, o)
    BY <1>4, <1>6 DEF Legal
  <1>8. v \in Names /\ Whole(v) \in Parts /\ j \in Lanes
    BY <1>5, <1>6, <1>7, CellFact
  <1>9. /\ request' = [request EXCEPT ![g][o][i] = [input |-> request[g][j][i].input, routes |-> source[j]]]
        /\ UNCHANGED <<lanes, partial, recv, results, history>>
    BY <1>0, <1>6 DEF send, Group, Index
  <1>10. x = Packed(p, d, j, o) /\ source[j] = v /\ request[g][j][i] = Whole(v)
    <2>1. x = Packed(p, d, j, o) /\ SourceOK(D, p) /\ RequestOK(D, p) /\ Closed(D \cup {x}, p)
      BY <1>1, <1>4, <1>7 DEF Packed, DataOK
    <2>2. source[j] = v
      BY <1>4, <1>6, <1>7, <1>8, <2>1, SourceIs, SMTT(60)
    <2>3. request[g][j][i] = Whole(v)
      BY <1>4, <1>6, <1>7, <1>8, <2>1, PackedIs, SMTT(60)
    <2>4. QED
      BY <2>1, <2>2, <2>3
  <1>11. RequestOK(E, p)' /\ request' \in [Groups -> [Lanes -> [0 .. GroupCells - 1 -> Parts]]]
    <2>1. request \in [Groups -> [Lanes -> [0 .. GroupCells - 1 -> Parts]]] /\ RequestOK(D, p)
      BY <1>4 DEF IInv, TypeOK, DataOK
    <2>2. [input |-> request[g][j][i].input, routes |-> source[j]] = Whole(Cell(p, d, j))
      <3>1. Whole(v).input = v
        BY DEF Whole
      <3>2. request[g][j][i].input = v
        BY <1>10, <3>1
      <3>3. QED
        BY <1>6, <1>10, <3>2 DEF Whole
    <2>3. request' = [request EXCEPT ![GroupOf(d, j)][o][InGroup(d, j)] = Whole(Cell(p, d, j))]
      BY <1>6, <1>9, <2>2
    <2>4. p \in Int /\ Whole(Cell(p, d, j)) \in Parts /\ Closed(D \cup {x}, p)
      BY <1>1, <1>4, <1>5, <1>6, <1>8
    <2>5. QED
      BY <1>1, <1>4, <1>7, <1>8, <1>10, <2>1, <2>3, <2>4, RequestStep
  <1>12. DataOK(E, p)'
    <2>1. source' = source /\ partial' = partial /\ recv' = recv /\ kv' = kv /\ executed' = executed
      BY <1>9 DEF lanes, results, history
    <2>2. QED
      BY <1>1, <1>4, <1>11, <2>1, FrameStep DEF DataOK
  <1>13. DataOK(Ran, pass)'
    BY <1>4, <1>12, DataBridge
  <1>14. TypeOK'
    BY <1>4, <1>9, <1>1, <1>11 DEF IInv, TypeOK, lanes, results, history
  <1>15. ExecutedClosed' /\ SumIsOfItsCell' /\ AttentionSeesEarlierLanes'
    BY <1>9 DEF IInv, ExecutedClosed, SumIsOfItsCell, AttentionSeesEarlierLanes, results, history, Wave!Before
  <1>16. QED
    BY <1>4, <1>13, <1>14, <1>15 DEF IInv

\* An owner's computation keeps the invariant.
LEMMA ComputeStep ==
  ASSUME IInv, NEW s \in Streams, compute(s)
  PROVE  IInv'
  <1>0. PICK x : x = Head(queue[s]).op
    OBVIOUS
  <1>1. PICK p, D, E : p = pass /\ D = Ran /\ E = D \cup {x}
    OBVIOUS
  <1>2. PICK kinds : kinds = {"compute"}
    OBVIOUS
  <1>3. RunsNext(s, kinds, x)
    BY <1>0, <1>2 DEF compute, RunsNext
  <1>4. /\ x \in Ops(p) /\ x \notin D /\ x.do = "compute" /\ Legal(x) /\ x.pass = p
        /\ Closed(D, p) /\ Closed(E, p) /\ DataOK(D, p)
        /\ queue' \in [Streams -> Seq(Entries)] /\ recorded' = recorded
        /\ pass' = p /\ diagonal' = diagonal /\ hpc' = hpc /\ Ran' = E /\ OrderOK'
    <2>1. x.do \in kinds
      BY <1>1, <1>3, Running
    <2>2. /\ x \in Ops(p) /\ x \notin D /\ Legal(x) /\ x.pass = p
          /\ Closed(D, p) /\ Closed(E, p) /\ DataOK(D, p)
      BY <1>1, <1>3, Running
    <2>3. /\ queue' \in [Streams -> Seq(Entries)] /\ recorded' = recorded
          /\ pass' = p /\ diagonal' = diagonal /\ hpc' = hpc /\ Ran' = E /\ OrderOK'
      BY <1>1, <1>3, Running
    <2>4. QED
      BY <1>2, <2>1, <2>2, <2>3
  <1>5. p \in 1 .. Passes
    BY <1>1 DEF IInv, TypeOK
  <1>6. PICK d, g, o : d = x.diagonal /\ g = x.n /\ o = x.o
    OBVIOUS
  <1>7. d \in Diagonals /\ g \in GroupsOf(d) /\ o \in Lanes /\ x = Op("compute", p, d, g, o)
    BY <1>4, <1>6 DEF Legal
  <1>9. Computed(partial, partial', request, g, o, RowsOf(d, g)) /\ UNCHANGED <<lanes, request, recv, results, history>>
    <2>1. LET op == Head(queue[s]).op IN
          Computed(partial, partial', request, op.n, op.o, RowsOf(op.diagonal, op.n))
      BY DEF compute, Computed, RowsOf
    <2>2. QED
      BY <1>0, <1>6, <2>1 DEF compute
  <1>10. Closed(D \cup {x}, p) /\ RequestOK(D, p) /\ PartialOK(D, p)
    BY <1>1, <1>4 DEF DataOK
  <1>11. PartialOK(E, p)' /\ partial' \in [Groups -> [Lanes -> [0 .. GroupCells - 1 -> Parts]]]
    <2>1. /\ request \in [Groups -> [Lanes -> [0 .. GroupCells - 1 -> Parts]]]
          /\ partial \in [Groups -> [Lanes -> [0 .. GroupCells - 1 -> Parts]]]
      BY DEF IInv, TypeOK
    <2>2. PartialOK(D \cup {x}, p)' /\ partial' \in [Groups -> [Lanes -> [0 .. GroupCells - 1 -> Parts]]]
      BY <1>4, <1>7, <1>9, <1>10, <2>1, PartialStep
    <2>3. QED
      BY <1>1, <2>2
  <1>12. DataOK(E, p)'
    <2>1. source' = source /\ request' = request /\ recv' = recv /\ kv' = kv /\ executed' = executed
      BY <1>9 DEF lanes, results, history
    <2>2. QED
      BY <1>1, <1>4, <1>11, <2>1, FrameStep DEF DataOK
  <1>13. DataOK(Ran, pass)'
    BY <1>4, <1>12, DataBridge
  <1>14. TypeOK'
    BY <1>4, <1>9, <1>1, <1>11 DEF IInv, TypeOK, lanes, results, history
  <1>15. ExecutedClosed' /\ SumIsOfItsCell' /\ AttentionSeesEarlierLanes'
    BY <1>9 DEF IInv, ExecutedClosed, SumIsOfItsCell, AttentionSeesEarlierLanes, results, history, Wave!Before
  <1>16. QED
    BY <1>4, <1>13, <1>14, <1>15 DEF IInv

\* A shared expert keeps the invariant.
LEMMA SharedStep ==
  ASSUME IInv, NEW s \in Streams, shared_expert(s)
  PROVE  IInv'
  <1>0. PICK x : x = Head(queue[s]).op
    OBVIOUS
  <1>1. PICK p, D, E : p = pass /\ D = Ran /\ E = D \cup {x}
    OBVIOUS
  <1>2. PICK kinds : kinds = {"shared"}
    OBVIOUS
  <1>3. RunsNext(s, kinds, x)
    BY <1>0, <1>2 DEF shared_expert, RunsNext
  <1>4. /\ x \in Ops(p) /\ x \notin D /\ x.do = "shared" /\ Legal(x) /\ x.pass = p
        /\ Closed(D, p) /\ Closed(E, p) /\ DataOK(D, p)
        /\ queue' \in [Streams -> Seq(Entries)] /\ recorded' = recorded
        /\ pass' = p /\ diagonal' = diagonal /\ hpc' = hpc /\ Ran' = E /\ OrderOK'
    <2>1. x.do \in kinds
      BY <1>1, <1>3, Running
    <2>2. /\ x \in Ops(p) /\ x \notin D /\ Legal(x) /\ x.pass = p
          /\ Closed(D, p) /\ Closed(E, p) /\ DataOK(D, p)
      BY <1>1, <1>3, Running
    <2>3. /\ queue' \in [Streams -> Seq(Entries)] /\ recorded' = recorded
          /\ pass' = p /\ diagonal' = diagonal /\ hpc' = hpc /\ Ran' = E /\ OrderOK'
      BY <1>1, <1>3, Running
    <2>4. QED
      BY <1>2, <2>1, <2>2, <2>3
  <1>5. p \in 1 .. Passes
    BY <1>1 DEF IInv, TypeOK
  <1>6. PICK d, j, g, i, v : /\ d = x.diagonal /\ j = x.n /\ v = Cell(p, d, j)
                            /\ g = GroupOf(d, j) /\ i = InGroup(d, j)
    OBVIOUS
  <1>7. d \in Diagonals /\ j \in Active(d) /\ x = Op("shared", p, d, j, j) /\ SharedService
    BY <1>4, <1>6 DEF Legal
  <1>8. /\ v \in Names /\ Whole(v) \in Parts /\ v # NoCell /\ CellOf(x) = v /\ j \in Lanes
        /\ v \in Cells
    BY <1>5, <1>6, <1>7, CellFact, CellOfFact
  <1>9. /\ shared' = [shared EXCEPT ![j] = [cell |-> v, input |-> request[g][j][i].input]]
        /\ UNCHANGED <<lanes, service, output, history>>
    <2>1. x.o = j
      BY <1>7, OpFact
    <2>2. QED
      BY <1>0, <1>6, <1>8, <2>1 DEF shared_expert, Group, Index
  <1>10. request[g][j][i].input = v
    <2>1. Closed(D \cup {x}, p) /\ RequestOK(D, p)
      BY <1>1, <1>4 DEF DataOK
    <2>2. request[g][j][i] = Whole(v)
      BY <1>4, <1>6, <1>7, <2>1, SharedIs
    <2>3. Whole(v).input = v
      BY DEF Whole
    <2>4. QED
      BY <2>2, <2>3
  <1>11. PICK w : w = [cell |-> v, input |-> v]
    OBVIOUS
  <1>12. shared' = [shared EXCEPT ![j] = w] /\ w \in [cell : Names, input : Names]
    BY <1>8, <1>9, <1>10, <1>11
  <1>13. /\ shared' \in [Lanes -> [cell : Names, input : Names]] /\ shared'[j] = w
         /\ \A k \in Lanes : k # j => shared'[k] = shared[k]
    BY <1>8, <1>12 DEF IInv, TypeOK
  <1>14. DataOK(E, p)'
    <2>1. source' = source /\ request' = request /\ partial' = partial /\ recv' = recv /\ kv' = kv /\ executed' = executed
      BY <1>9 DEF lanes, service, history
    <2>2. QED
      BY <1>1, <1>4, <2>1, FrameStep DEF DataOK
  <1>15. DataOK(Ran, pass)'
    BY <1>4, <1>14, DataBridge
  <1>16. TypeOK'
    BY <1>4, <1>9, <1>1, <1>13 DEF IInv, TypeOK, lanes, service, history
  <1>17. SumIsOfItsCell'
    <2>1. \A k \in Lanes : shared'[k].input = shared'[k].cell
      BY <1>11, <1>13 DEF IInv, SumIsOfItsCell
    <2>2. QED
      BY <1>9, <2>1 DEF IInv, SumIsOfItsCell
  <1>18. ExecutedClosed' /\ AttentionSeesEarlierLanes'
    BY <1>9 DEF IInv, ExecutedClosed, AttentionSeesEarlierLanes, history, Wave!Before
  <1>19. QED
    BY <1>4, <1>15, <1>16, <1>17, <1>18 DEF IInv

\* Returning a partial keeps the invariant.
LEMMA ReturnStep ==
  ASSUME IInv, NEW s \in Streams, return(s)
  PROVE  IInv'
  <1>0. PICK x : x = Head(queue[s]).op
    OBVIOUS
  <1>1. PICK p, D, E : p = pass /\ D = Ran /\ E = D \cup {x}
    OBVIOUS
  <1>2. PICK kinds : kinds = {"return"}
    OBVIOUS
  <1>3. RunsNext(s, kinds, x)
    BY <1>0, <1>2 DEF return, RunsNext
  <1>4. /\ x \in Ops(p) /\ x \notin D /\ x.do = "return" /\ Legal(x) /\ x.pass = p
        /\ Closed(D, p) /\ Closed(E, p) /\ DataOK(D, p)
        /\ queue' \in [Streams -> Seq(Entries)] /\ recorded' = recorded
        /\ pass' = p /\ diagonal' = diagonal /\ hpc' = hpc /\ Ran' = E /\ OrderOK'
    <2>1. x.do \in kinds
      BY <1>1, <1>3, Running
    <2>2. /\ x \in Ops(p) /\ x \notin D /\ Legal(x) /\ x.pass = p
          /\ Closed(D, p) /\ Closed(E, p) /\ DataOK(D, p)
      BY <1>1, <1>3, Running
    <2>3. /\ queue' \in [Streams -> Seq(Entries)] /\ recorded' = recorded
          /\ pass' = p /\ diagonal' = diagonal /\ hpc' = hpc /\ Ran' = E /\ OrderOK'
      BY <1>1, <1>3, Running
    <2>4. QED
      BY <1>2, <2>1, <2>2, <2>3
  <1>5. p \in 1 .. Passes
    BY <1>1 DEF IInv, TypeOK
  <1>6. PICK d, j, o : d = x.diagonal /\ j = x.n /\ o = x.o
    OBVIOUS
  <1>7. d \in Diagonals /\ j \in Active(d) /\ o \in Lanes /\ x = Op("return", p, d, j, o)
    BY <1>4, <1>6 DEF Legal
  <1>9. /\ recv' = [recv EXCEPT ![GroupOf(d, j)][j][o] = partial[GroupOf(d, j)][o][InGroup(d, j)]]
        /\ UNCHANGED <<lanes, request, partial, results, history>>
    BY <1>0, <1>6 DEF return, Group, Index
  <1>10. Closed(D \cup {x}, p) /\ PartialOK(D, p) /\ RecvOK(D, p)
    BY <1>1, <1>4 DEF DataOK
  <1>11. RecvOK(E, p)' /\ recv' \in [Groups -> [Lanes -> [Lanes -> Parts]]]
    <2>1. /\ recv \in [Groups -> [Lanes -> [Lanes -> Parts]]]
          /\ partial \in [Groups -> [Lanes -> [0 .. GroupCells - 1 -> Parts]]]
      BY DEF IInv, TypeOK
    <2>2. RecvOK(D \cup {x}, p)' /\ recv' \in [Groups -> [Lanes -> [Lanes -> Parts]]]
      BY <1>4, <1>7, <1>9, <1>10, <2>1, RecvStep
    <2>3. QED
      BY <1>1, <2>2
  <1>12. DataOK(E, p)'
    <2>1. source' = source /\ request' = request /\ partial' = partial /\ kv' = kv /\ executed' = executed
      BY <1>9 DEF lanes, results, history
    <2>2. QED
      BY <1>1, <1>4, <1>11, <2>1, FrameStep DEF DataOK
  <1>13. DataOK(Ran, pass)'
    BY <1>4, <1>12, DataBridge
  <1>14. TypeOK'
    BY <1>4, <1>9, <1>1, <1>11 DEF IInv, TypeOK, lanes, results, history
  <1>15. ExecutedClosed' /\ SumIsOfItsCell' /\ AttentionSeesEarlierLanes'
    BY <1>9 DEF IInv, ExecutedClosed, SumIsOfItsCell, AttentionSeesEarlierLanes, results, history, Wave!Before
  <1>16. QED
    BY <1>4, <1>13, <1>14, <1>15 DEF IInv

\* The sum over the owners keeps the invariant.
LEMMA SumStep ==
  ASSUME IInv, NEW s \in Streams, sum_owners(s)
  PROVE  IInv'
  <1>0. PICK x : x = Head(queue[s]).op
    OBVIOUS
  <1>1. PICK p, D, E : p = pass /\ D = Ran /\ E = D \cup {x}
    OBVIOUS
  <1>2. PICK kinds : kinds = {"sum"}
    OBVIOUS
  <1>3. RunsNext(s, kinds, x)
    BY <1>0, <1>2 DEF sum_owners, RunsNext
  <1>4. /\ x \in Ops(p) /\ x \notin D /\ x.do = "sum" /\ Legal(x) /\ x.pass = p
        /\ Closed(D, p) /\ Closed(E, p) /\ DataOK(D, p)
        /\ queue' \in [Streams -> Seq(Entries)] /\ recorded' = recorded
        /\ pass' = p /\ diagonal' = diagonal /\ hpc' = hpc /\ Ran' = E /\ OrderOK'
    <2>1. x.do \in kinds
      BY <1>1, <1>3, Running
    <2>2. /\ x \in Ops(p) /\ x \notin D /\ Legal(x) /\ x.pass = p
          /\ Closed(D, p) /\ Closed(E, p) /\ DataOK(D, p)
      BY <1>1, <1>3, Running
    <2>3. /\ queue' \in [Streams -> Seq(Entries)] /\ recorded' = recorded
          /\ pass' = p /\ diagonal' = diagonal /\ hpc' = hpc /\ Ran' = E /\ OrderOK'
      BY <1>1, <1>3, Running
    <2>4. QED
      BY <1>2, <2>1, <2>2, <2>3
  <1>5. p \in 1 .. Passes
    BY <1>1 DEF IInv, TypeOK
  <1>6. PICK d, j, g, i, v : /\ d = x.diagonal /\ j = x.n /\ v = Cell(p, d, j)
                            /\ g = GroupOf(d, j) /\ i = InGroup(d, j)
    OBVIOUS
  <1>7. d \in Diagonals /\ j \in Active(d) /\ x = Op("sum", p, d, j, j)
    BY <1>4, <1>6 DEF Legal
  <1>8. /\ v \in Names /\ Whole(v) \in Parts /\ v # NoCell /\ CellOf(x) = v /\ j \in Lanes
        /\ v \in Cells
    BY <1>5, <1>6, <1>7, CellFact, CellOfFact
  <1>9. /\ output' = [output EXCEPT ![j] = [cell |-> v, parts |-> recv[g][j]]]
        /\ UNCHANGED <<lanes, service, shared, history>>
    BY <1>0, <1>6, <1>8 DEF sum_owners, Group
  <1>10. \A o \in Lanes : recv[g][j][o] = Whole(v)
    <2>1. Closed(D \cup {x}, p) /\ RecvOK(D, p)
      BY <1>1, <1>4 DEF DataOK
    <2>2. QED
      BY <1>4, <1>6, <1>7, <2>1, SumIs
  <1>11. PICK w, r : r = recv[g][j] /\ w = [cell |-> v, parts |-> r]
    OBVIOUS
  <1>12. output' = [output EXCEPT ![j] = w] /\ w \in [cell : Names, parts : [Lanes -> Parts]]
    <2>1. g \in Groups /\ recv \in [Groups -> [Lanes -> [Lanes -> Parts]]]
      BY <1>6, <1>7, PositionFact DEF IInv, TypeOK
    <2>2. recv[g] \in [Lanes -> [Lanes -> Parts]]
      BY <2>1
    <2>3. r \in [Lanes -> Parts]
      BY <1>8, <1>11, <2>2
    <2>4. QED
      BY <1>8, <1>9, <1>11, <2>3
  <1>13. PICK W : W = [cell : Names, parts : [Lanes -> Parts]]
    OBVIOUS
  <1>a. output' \in [Lanes -> W] /\ output'[j] = w /\ \A k \in Lanes : k # j => output'[k] = output[k]
    <2>1. output \in [Lanes -> W] /\ w \in W
      BY <1>12, <1>13 DEF IInv, TypeOK
    <2>2. QED
      BY <1>8, <1>12, <2>1
  <1>14. DataOK(E, p)'
    <2>1. source' = source /\ request' = request /\ partial' = partial /\ recv' = recv /\ kv' = kv /\ executed' = executed
      BY <1>9 DEF lanes, service, history
    <2>2. QED
      BY <1>1, <1>4, <2>1, FrameStep DEF DataOK
  <1>15. DataOK(Ran, pass)'
    BY <1>4, <1>14, DataBridge
  <1>16. TypeOK'
    BY <1>4, <1>9, <1>1, <1>13, <1>a DEF IInv, TypeOK, lanes, service, history
  <1>17. SumIsOfItsCell'
    <2>1. SUFFICES ASSUME NEW k \in Lanes
                   PROVE  /\ output'[k].cell # NoCell =>
                               \A o \in Lanes : output'[k].parts[o] = Whole(output'[k].cell)
                          /\ shared'[k].input = shared'[k].cell
      BY DEF SumIsOfItsCell
    <2>2. shared'[k].input = shared'[k].cell
      BY <1>9 DEF IInv, SumIsOfItsCell
    <2>3. CASE k = j
      BY <1>10, <1>11, <1>a, <2>2, <2>3
    <2>4. CASE k # j
      BY <1>a, <2>2, <2>4 DEF IInv, SumIsOfItsCell
    <2>5. QED
      BY <2>3, <2>4
  <1>18. ExecutedClosed' /\ AttentionSeesEarlierLanes'
    BY <1>9 DEF IInv, ExecutedClosed, AttentionSeesEarlierLanes, history, Wave!Before
  <1>19. QED
    BY <1>4, <1>15, <1>16, <1>17, <1>18 DEF IInv

-----------------------------------------------------------------------------
(* A cell completes after those that it waits for.                         *)

\* Multiplication by a number is monotone.
LEMMA Monotone ==
  ASSUME NEW s \in Nat, NEW a \in Nat, NEW b \in Nat, a <= b
  PROVE  s * a <= s * b
  <1>1. PICK k \in Nat : b = a + k
    <2>1. b - a \in Nat /\ b = a + (b - a)
      OBVIOUS
    <2>2. QED
      BY <2>1
  <1>2. s * k \in Nat /\ s * a \in Nat /\ s * (a + k) = s * a + s * k
    OBVIOUS
  <1>3. QED
    BY <1>1, <1>2

\* The diagonal of a cell.
LEMMA CellDiagonal ==
  ASSUME NEW c \in Cells, NEW e, e = c.layer + LaneStagger * c.lane
  PROVE  /\ e \in Diagonals /\ c.lane \in Active(e) /\ LayerOf(e, c.lane) = c.layer
         /\ c = Cell(c.pass, e, c.lane)
  <1>1. PICK n, l : n = c.lane /\ l = c.layer
    OBVIOUS
  <1>2. n \in Lanes /\ l \in Layers
    BY <1>1 DEF Cells
  <1>3. PICK s \in Nat : s = LaneStagger
    BY ConstantFact
  <1>4. /\ NLanes \in Nat /\ NLayers \in Nat /\ NLanes - 1 \in Nat
        /\ n \in Nat /\ n <= NLanes - 1 /\ l \in Nat /\ l <= NLayers - 1
    BY <1>2, ConstantFact DEF Lanes, Layers
  <1>5. s * n <= s * (NLanes - 1)
    BY <1>4, Monotone
  <1>6. PICK m \in Nat, k \in Nat : m = s * n /\ k = s * (NLanes - 1)
    BY <1>4
  <1>7. e = l + m /\ LastDiagonal = NLayers + k - 1 /\ m <= k
    BY <1>1, <1>3, <1>5, <1>6 DEF LastDiagonal
  <1>8. e \in Diagonals
    BY <1>4, <1>6, <1>7 DEF Diagonals
  <1>9. LayerOf(e, n) = l
    <2>1. LayerOf(e, n) = (l + m) - m
      BY <1>3, <1>6, <1>7 DEF LayerOf
    <2>2. QED
      BY <1>4, <2>1
  <1>10. n \in Active(e)
    BY <1>2, <1>9 DEF Active
  <1>11. c = Cell(c.pass, e, n)
    BY <1>1, <1>9 DEF Cell, Cells
  <1>12. QED
    BY <1>1, <1>8, <1>9, <1>10, <1>11

\* A cell of this pass is complete when the rest of its graph has run, and not before.
LEMMA CellPosted ==
  ASSUME NEW D, NEW p \in 1 .. Passes, NEW d \in Diagonals, NEW j \in Active(d), ExecutedOK(D, p)
  PROVE  Cell(p, d, j) \in executed <=> Op("post", p, d, j, j) \in D
  <1>1. PICK v : v = Cell(p, d, j)
    OBVIOUS
  <1>2. v \in Cells /\ v.pass = p /\ v.lane = j /\ v.layer = LayerOf(d, j) /\ j \in Lanes
    BY <1>1, CellFact
  <1>3. v.layer + LaneStagger * v.lane = d
    <2>1. PICK m : m = LaneStagger * j
      OBVIOUS
    <2>2. m \in Int /\ d \in Int
      BY <1>2, <2>1, ConstantFact, LayerFact
    <2>3. LayerOf(d, j) = d - m
      BY <2>1 DEF LayerOf
    <2>4. (d - m) + m = d
      BY <2>2
    <2>5. QED
      BY <1>2, <2>1, <2>3, <2>4
  <1>4. v \in executed <=> \/ v.pass < p
                          \/ /\ v.pass = p
                             /\ Op("post", p, v.layer + LaneStagger * v.lane, v.lane, v.lane) \in D
    BY <1>2 DEF ExecutedOK
  <1>5. QED
    BY <1>1, <1>2, <1>3, <1>4

\* A cell that completes was not complete, and what it waits for is.
LEMMA BeforeExecuted ==
  ASSUME NEW D, NEW p \in 1 .. Passes, NEW d \in Diagonals, NEW j \in Active(d),
         NEW E, NEW x, E = D \cup {x}, x \notin D, Closed(E, p), x = Op("post", p, d, j, j),
         ExecutedOK(D, p), ExecutedClosed
  PROVE  Cell(p, d, j) \notin executed /\ Wave!Before(Cell(p, d, j)) \subseteq executed
  <1>1. PICK v : v = Cell(p, d, j)
    OBVIOUS
  <1>2. v \in Cells /\ v.pass = p /\ v.lane = j /\ v.layer = LayerOf(d, j) /\ j \in Lanes
    BY <1>1, CellFact
  <1>3. v \notin executed
    BY <1>1, CellPosted
  <1>4. ASSUME NEW c \in Cells, c.pass < p PROVE c \in executed
    BY <1>4 DEF ExecutedOK
  <1>5. x \in E /\ Op("post", p, d, j, j) \in E
    OBVIOUS
  <1>6. ASSUME NEW c \in Cells, c.pass = p, c.lane = j, c.layer < v.layer PROVE c \in executed
    <2>1. PICK m, e : m = LaneStagger * j /\ e = c.layer + m
      OBVIOUS
    <2>2. e \in Diagonals /\ j \in Active(e) /\ c = Cell(p, e, j)
      BY <1>6, <2>1, CellDiagonal
    <2>3. e < d
      <3>1. m \in Int /\ d \in Int /\ v.layer = d - m /\ c.layer \in Int
        BY <1>2, <2>1, ConstantFact, LayerFact DEF LayerOf, Cells, Layers
      <3>2. c.layer < d - m
        BY <1>6, <3>1
      <3>3. QED
        BY <2>1, <3>1, <3>2
    <2>4. Op("post", p, e, j, j) \in E
      BY <1>5, <2>2, <2>3, PostChain
    <2>5. Op("post", p, e, j, j) # x
      <3>1. e # d
        BY <2>2, <2>3, LayerFact
      <3>2. QED
        BY <3>1, OpFact
    <2>6. QED
      BY <2>2, <2>4, <2>5, CellPosted
  <1>7. ASSUME NEW c \in Cells, c.pass = p, c.lane < j, c.layer = v.layer PROVE c \in executed
    <2>a. c.lane \in Nat /\ j \in Nat
      <3>1. c.lane \in Lanes
        BY DEF Cells
      <3>2. QED
        BY <1>2, <3>1, ConstantFact
    <2>1. j # 0
      BY <1>7, <2>a
    <2>2. PICK e, k, u : e = d - LaneStagger /\ k = j - 1 /\ u = Cell(p, e, k)
      OBVIOUS
    <2>3. e \in Diagonals /\ e < d /\ k \in Active(e) /\ LayerOf(e, k) = LayerOf(d, j)
      BY <2>1, <2>2, EarlierLane
    <2>4. Op("post", p, e, k, k) \in E
      BY <1>5, <2>1, <2>2, PostChain
    <2>5. Op("post", p, e, k, k) # x
      <3>1. e # d
        BY <2>3, LayerFact
      <3>2. QED
        BY <3>1, OpFact
    <2>6. u \in executed /\ u \in Cells /\ u.pass = p /\ u.lane = k /\ u.layer = v.layer
      BY <1>2, <2>2, <2>3, <2>4, <2>5, CellPosted, CellFact
    <2>7. c.lane \in Int /\ j \in Int
      BY <2>a
    <2>8. CASE c.lane = k
      <3>1. c = u
        BY <1>7, <2>6, <2>8 DEF Cells
      <3>2. QED
        BY <2>6, <3>1
    <2>9. CASE c.lane # k
      <3>1. c.lane < k
        BY <1>7, <2>2, <2>7, <2>9
      <3>2. c \in Wave!Before(u)
        BY <1>7, <2>6, <3>1, SameCells DEF Wave!Before
      <3>3. QED
        BY <2>6, <3>2 DEF ExecutedClosed
    <2>10. QED
      BY <2>8, <2>9
  <1>8. ASSUME NEW c, c \in Wave!Before(v) PROVE c \in executed
    <2>1. /\ c \in Wave!Cells
          /\ \/ c.pass < v.pass
             \/ c.pass = v.pass /\ c.lane = v.lane /\ c.layer < v.layer
             \/ c.pass = v.pass /\ c.lane < v.lane /\ c.layer = v.layer
      BY <1>8 DEF Wave!Before
    <2>2. c \in Cells
      BY <2>1, SameCells
    <2>3. CASE c.pass < v.pass
      BY <1>2, <1>4, <2>2, <2>3
    <2>4. CASE c.pass = v.pass /\ c.lane = v.lane /\ c.layer < v.layer
      BY <1>2, <1>6, <2>2, <2>4
    <2>5. CASE c.pass = v.pass /\ c.lane < v.lane /\ c.layer = v.layer
      BY <1>2, <1>7, <2>2, <2>5
    <2>6. QED
      BY <2>1, <2>3, <2>4, <2>5
  <1>9. QED
    BY <1>1, <1>3, <1>8

\* The rest of a graph keeps the invariant, and completes its cell in wavefront order.
LEMMA PostStep ==
  ASSUME IInv, NEW s \in Streams, post(s)
  PROVE  IInv' /\ \E c \in Wave!Cells : Wave!Execute(c)
  <1>0. PICK x : x = Head(queue[s]).op
    OBVIOUS
  <1>1. PICK p, D, E : p = pass /\ D = Ran /\ E = D \cup {x}
    OBVIOUS
  <1>2. PICK kinds : kinds = {"post"}
    OBVIOUS
  <1>3. RunsNext(s, kinds, x)
    BY <1>0, <1>2 DEF post, RunsNext
  <1>4. /\ x \in Ops(p) /\ x \notin D /\ x.do = "post" /\ Legal(x) /\ x.pass = p
        /\ Closed(D, p) /\ Closed(E, p) /\ DataOK(D, p)
        /\ queue' \in [Streams -> Seq(Entries)] /\ recorded' = recorded
        /\ pass' = p /\ diagonal' = diagonal /\ hpc' = hpc /\ Ran' = E /\ OrderOK'
    <2>1. x.do \in kinds
      BY <1>1, <1>3, Running
    <2>2. /\ x \in Ops(p) /\ x \notin D /\ Legal(x) /\ x.pass = p
          /\ Closed(D, p) /\ Closed(E, p) /\ DataOK(D, p)
      BY <1>1, <1>3, Running
    <2>3. /\ queue' \in [Streams -> Seq(Entries)] /\ recorded' = recorded
          /\ pass' = p /\ diagonal' = diagonal /\ hpc' = hpc /\ Ran' = E /\ OrderOK'
      BY <1>1, <1>3, Running
    <2>4. QED
      BY <1>2, <2>1, <2>2, <2>3
  <1>5. p \in 1 .. Passes
    BY <1>1 DEF IInv, TypeOK
  <1>6. PICK d, j, g, i, v : /\ d = x.diagonal /\ j = x.n /\ v = Cell(p, d, j)
                            /\ g = GroupOf(d, j) /\ i = InGroup(d, j)
    OBVIOUS
  <1>7. d \in Diagonals /\ j \in Active(d) /\ x = Op("post", p, d, j, j)
    BY <1>4, <1>6 DEF Legal
  <1>8. /\ v \in Names /\ Whole(v) \in Parts /\ v # NoCell /\ CellOf(x) = v /\ j \in Lanes
        /\ v \in Cells
    BY <1>5, <1>6, <1>7, CellFact, CellOfFact
  <1>9. executed' = executed \cup {v} /\ UNCHANGED <<lanes, service, results, seen>>
    BY <1>0, <1>8 DEF post
  <1>10. v \notin executed /\ Wave!Before(v) \subseteq executed
    <2>1. ExecutedOK(D, p) /\ ExecutedClosed
      BY <1>4 DEF DataOK, IInv
    <2>2. QED
      BY <1>1, <1>4, <1>5, <1>6, <1>7, <2>1, BeforeExecuted
  <1>11. ExecutedOK(E, p)'
    <2>1. ExecutedOK(D, p) /\ executed' = executed \cup {Cell(p, d, j)}
      BY <1>4, <1>6, <1>9 DEF DataOK
    <2>2. ExecutedOK(D \cup {x}, p)'
      BY <1>5, <1>7, <2>1, ExecutedStep
    <2>3. QED
      BY <1>1, <2>2
  <1>12. DataOK(E, p)'
    <2>1. source' = source /\ request' = request /\ partial' = partial /\ recv' = recv /\ kv' = kv
      BY <1>9 DEF lanes, service, results
    <2>2. QED
      BY <1>1, <1>4, <1>11, <2>1, FrameStep DEF DataOK
  <1>13. DataOK(Ran, pass)'
    BY <1>4, <1>12, DataBridge
  <1>14. TypeOK'
    BY <1>4, <1>9, <1>1, <1>8 DEF IInv, TypeOK, lanes, service, results
  <1>15. ExecutedClosed'
    <2>1. SUFFICES ASSUME NEW c \in executed' PROVE Wave!Before(c) \subseteq executed'
      BY DEF ExecutedClosed, Wave!Before
    <2>2. CASE c \in executed
      BY <1>9, <2>2 DEF IInv, ExecutedClosed
    <2>3. CASE c = v
      BY <1>9, <1>10, <2>3
    <2>4. QED
      BY <1>9, <2>1, <2>2, <2>3
  <1>16. SumIsOfItsCell' /\ AttentionSeesEarlierLanes'
    BY <1>9 DEF IInv, SumIsOfItsCell, AttentionSeesEarlierLanes, results
  <1>17. \E c \in Wave!Cells : Wave!Execute(c)
    BY <1>8, <1>9, <1>10, SameCells DEF Wave!Execute
  <1>18. QED
    BY <1>4, <1>13, <1>14, <1>15, <1>16, <1>17 DEF IInv

-----------------------------------------------------------------------------
(* The host.                                                               *)

\* A step of the host leaves the buffers as they are.
LEMMA HostFrame ==
  ASSUME IInv, Ran' = Ran, pass' = pass, UNCHANGED <<lanes, service, results, history>>
  PROVE  DataOK(Ran, pass)' /\ ExecutedClosed' /\ SumIsOfItsCell' /\ AttentionSeesEarlierLanes'
  <1>1. PICK D, p : D = Ran /\ p = pass
    OBVIOUS
  <1>2. DataOK(D, p)
    BY <1>1 DEF IInv
  <1>3. DataOK(D, p)'
    BY <1>2 DEF DataOK, SourceOK, RequestOK, PartialOK, RecvOK, RowsOK, ExecutedOK, lanes, service, history
  <1>4. DataOK(Ran, pass)'
    BY <1>1, <1>3, DataBridge
  <1>5. ExecutedClosed' /\ SumIsOfItsCell' /\ AttentionSeesEarlierLanes'
    BY DEF IInv, ExecutedClosed, SumIsOfItsCell, AttentionSeesEarlierLanes, results, history, Wave!Before
  <1>6. QED
    BY <1>4, <1>5

\* A step that does not issue or run anything.
LEMMA SameRun ==
  ASSUME IInv, pass' = pass, Given' = Given, queue' = queue, recorded' = recorded,
         diagonal' = diagonal, hpc' \in HostPoints, HostOK', UNCHANGED <<lanes, service, results, history>>
  PROVE  IInv'
  <1>1. PICK G, D, p : G = Given /\ D = Ran /\ p = pass
    OBVIOUS
  <1>2. StreamsOK(G) /\ Closed(D, p) /\ D = {x \in G : ~Pending(x)}
    BY <1>1 DEF IInv, OrderOK, Ran
  <1>3. Given' = G
    BY <1>1
  <1>4. \A x : Pending(x)' <=> Pending(x)
    BY DEF Pending
  <1>5. Ran' = {x \in G : ~Pending(x)'}
    BY <1>3 DEF Ran
  <1>6. Ran' = D
    BY <1>2, <1>4, <1>5
  <1>7. StreamsOK(G)'
    BY <1>2 DEF StreamsOK, QueueOK, AwaitedOK, RecordedOK, Covers
  <1>8. StreamsOK(Given)'
    BY <1>3, <1>7 DEF StreamsOK, QueueOK, AwaitedOK, RecordedOK, Covers
  <1>9. Closed(Ran, pass)'
    BY <1>1, <1>2, <1>6 DEF Closed
  <1>10. OrderOK'
    BY <1>8, <1>9 DEF OrderOK
  <1>11. Ran' = Ran
    BY <1>1, <1>6
  <1>12. DataOK(Ran, pass)' /\ ExecutedClosed' /\ SumIsOfItsCell' /\ AttentionSeesEarlierLanes'
    BY <1>11, HostFrame
  <1>13. TypeOK'
    BY DEF IInv, TypeOK, lanes, service, results, history
  <1>14. QED
    BY <1>10, <1>12, <1>13 DEF IInv

\* A step that changes nothing keeps the invariant.
LEMMA StutterStep ==
  ASSUME IInv, UNCHANGED vars
  PROVE  IInv'
  <1>1. /\ pass' = pass /\ diagonal' = diagonal /\ hpc' = hpc /\ queue' = queue /\ recorded' = recorded
        /\ UNCHANGED <<lanes, service, results, history>>
    BY DEF vars, host, events
  <1>2. Given' = Given
    BY <1>1 DEF Given, Issued
  <1>3. HostOK' /\ hpc' \in HostPoints
    BY <1>1 DEF IInv, OrderOK, HostOK, TypeOK
  <1>4. QED
    BY <1>1, <1>2, <1>3, SameRun

\* The host issues S: the operations of its diagonal from one rank up to another.
LEMMA PhaseStep ==
  ASSUME IInv, hpc # "done", hpc # "sync", NEW S, NEW to, enqueue(S), pass' = pass,
         \A x : x \in S <=> /\ Legal(x) /\ x.pass = pass /\ x.diagonal = diagonal
                            /\ Stage(hpc) <= Rank(x)[1] /\ Rank(x)[1] < to,
         \/ diagonal' = diagonal /\ to = Stage(hpc') /\ to >= Stage(hpc)
         \/ diagonal' = diagonal + 1 /\ Stage(hpc') = 0 /\ to = 7,
         diagonal' \in 0 .. LastDiagonal + 1, hpc' \in HostPoints, HostOK',
         UNCHANGED <<lanes, service, results, history>>
  PROVE  IInv'
  <1>1. TypeOK /\ OrderOK
    BY DEF IInv
  <1>2. S \subseteq {x \in Ops(pass) : x.diagonal = diagonal} /\ Given' = Given \cup S
    BY <1>1, IssuedAfter
  <1>3. \A x \in S : Rank(x)[1] >= Stage(hpc)
    <2>1. SUFFICES ASSUME NEW x \in S PROVE Rank(x)[1] >= Stage(hpc)
      OBVIOUS
    <2>2. Rank(x)[1] \in Int /\ Stage(hpc) \in Int /\ Stage(hpc) <= Rank(x)[1]
      BY RankFact DEF Stage
    <2>3. QED
      BY <2>2
  <1>4. /\ queue' \in [Streams -> Seq(Entries)] /\ recorded' \in [Events -> Operations \cup {NoOp}]
        /\ StreamsOK(Given)' /\ Ran' = Ran /\ Closed(Ran, pass)'
    BY <1>1, <1>2, <1>3, HostStep
  <1>5. OrderOK'
    BY <1>4 DEF OrderOK
  <1>6. DataOK(Ran, pass)' /\ ExecutedClosed' /\ SumIsOfItsCell' /\ AttentionSeesEarlierLanes'
    BY <1>4, HostFrame
  <1>7. TypeOK'
    BY <1>1, <1>4 DEF TypeOK, lanes, service, results, history
  <1>8. QED
    BY <1>5, <1>6, <1>7 DEF IInv

\* Where the host is while it issues.
LEMMA HostFact ==
  ASSUME IInv, hpc # "done", hpc # "sync"
  PROVE  diagonal \in Diagonals /\ diagonal \in Nat /\ diagonal # LastDiagonal + 1
  <1>1. diagonal # LastDiagonal + 1 /\ diagonal \in 0 .. LastDiagonal + 1
    BY DEF IInv, OrderOK, HostOK, TypeOK
  <1>2. QED
    BY <1>1, ConstantFact DEF Diagonals

\* The phases whose operations are those of the ranks between two host points.
LEMMA PhaseIs ==
  ASSUME IInv, NEW from, NEW to, NEW S, hpc = from, hpc' = to, enqueue(S),
         from \in {"pre", "inputs", "owners", "outputs", "sums"},
         to = CASE from = "pre" -> "inputs" [] from = "inputs" -> "owners" [] from = "owners" -> "outputs"
                [] from = "outputs" -> "sums" [] from = "sums" -> "post",
         \A x : x \in S <=> /\ Legal(x) /\ x.pass = pass /\ x.diagonal = diagonal
                            /\ Stage(from) <= Rank(x)[1] /\ Rank(x)[1] < Stage(to),
         pass' = pass, diagonal' = diagonal, UNCHANGED <<lanes, service, results, history>>
  PROVE  IInv'
  <1>1. hpc # "done" /\ hpc # "sync" /\ hpc' \in HostPoints /\ hpc' \notin {"sync", "done"}
    BY DEF HostPoints
  <1>2. Stage(to) >= Stage(from) /\ Stage(to) = Stage(hpc') /\ Stage(from) = Stage(hpc)
    BY DEF Stage
  <1>3. diagonal \in Diagonals /\ diagonal \in Nat /\ diagonal # LastDiagonal + 1
    BY <1>1, HostFact
  <1>4. HostOK'
    BY <1>1, <1>3 DEF HostOK
  <1>5. diagonal' \in 0 .. LastDiagonal + 1
    BY DEF IInv, TypeOK
  <1>6. PICK k : k = Stage(to)
    OBVIOUS
  <1>7. \A x : x \in S <=> /\ Legal(x) /\ x.pass = pass /\ x.diagonal = diagonal
                           /\ Stage(hpc) <= Rank(x)[1] /\ Rank(x)[1] < k
    BY <1>2, <1>6
  <1>8. diagonal' = diagonal /\ k = Stage(hpc') /\ k >= Stage(hpc)
    BY <1>2, <1>6
  <1>9. QED
    BY <1>1, <1>4, <1>5, <1>7, <1>8, PhaseStep

\* The ranks of the operations of each phase.
LEMMA StageIs ==
  /\ Stage("pre") = 0 /\ Stage("inputs") = 2 /\ Stage("owners") = 3
  /\ Stage("outputs") = 4 /\ Stage("sums") = 5 /\ Stage("post") = 6 /\ Stage("sync") = 0
  BY DEF Stage

\* Issuing the corridors and the graphs keeps the invariant.
LEMMA SubmitPreStep ==
  ASSUME IInv, submit_pre
  PROVE  IInv'
  <1>1. PICK S, p, d : S = Corridors(pass, diagonal) \cup Graphs(pass, diagonal) /\ p = pass /\ d = diagonal
    OBVIOUS
  <1>2. /\ hpc = "pre" /\ hpc' = "inputs" /\ enqueue(Corridors(pass, diagonal) \cup Graphs(pass, diagonal))
        /\ pass' = pass /\ diagonal' = diagonal /\ UNCHANGED <<lanes, service, results, history>>
    BY DEF submit_pre, Phase
  <1>3. enqueue(S)
    BY <1>1, <1>2
  <1>4. d \in Diagonals
    BY <1>1, <1>2, HostFact
  <1>5. ASSUME NEW x
        PROVE  x \in S <=> /\ Legal(x) /\ x.pass = p /\ x.diagonal = d
                           /\ Stage("pre") <= Rank(x)[1] /\ Rank(x)[1] < Stage("inputs")
    <2>1. x \in S <=> Legal(x) /\ x.pass = p /\ x.diagonal = d /\ x.do \in {"corridor", "copied", "pre"}
      BY <1>1, <1>4, PhaseFact
    <2>2. Legal(x) => (x.do \in {"corridor", "copied", "pre"} <=> 0 <= Rank(x)[1] /\ Rank(x)[1] < 2)
      BY RankFact
    <2>3. QED
      BY <2>1, <2>2, StageIs
  <1>6. QED
    BY <1>1, <1>2, <1>3, <1>5, PhaseIs

\* Issuing the requests keeps the invariant.
LEMMA ServiceInputsStep ==
  ASSUME IInv, service_inputs
  PROVE  IInv'
  <1>1. PICK S, p, d : S = Requests(pass, diagonal) /\ p = pass /\ d = diagonal
    OBVIOUS
  <1>2. /\ hpc = "inputs" /\ hpc' = "owners" /\ enqueue(Requests(pass, diagonal))
        /\ pass' = pass /\ diagonal' = diagonal /\ UNCHANGED <<lanes, service, results, history>>
    BY DEF service_inputs, Phase
  <1>3. enqueue(S)
    BY <1>1, <1>2
  <1>4. d \in Diagonals
    BY <1>1, <1>2, HostFact
  <1>5. ASSUME NEW x
        PROVE  x \in S <=> /\ Legal(x) /\ x.pass = p /\ x.diagonal = d
                           /\ Stage("inputs") <= Rank(x)[1] /\ Rank(x)[1] < Stage("owners")
    <2>1. x \in S <=> Legal(x) /\ x.pass = p /\ x.diagonal = d /\ x.do \in {"source", "pack", "send", "input"}
      BY <1>1, <1>4, PhaseFact
    <2>2. Legal(x) => (x.do \in {"source", "pack", "send", "input"} <=> 2 <= Rank(x)[1] /\ Rank(x)[1] < 3)
      BY RankFact
    <2>3. QED
      BY <2>1, <2>2, StageIs
  <1>6. QED
    BY <1>1, <1>2, <1>3, <1>5, PhaseIs

\* Issuing the owners' computations keeps the invariant.
LEMMA ServiceOwnersStep ==
  ASSUME IInv, service_owners
  PROVE  IInv'
  <1>1. PICK S, p, d : S = Owners(pass, diagonal) /\ p = pass /\ d = diagonal
    OBVIOUS
  <1>2. /\ hpc = "owners" /\ hpc' = "outputs" /\ enqueue(Owners(pass, diagonal))
        /\ pass' = pass /\ diagonal' = diagonal /\ UNCHANGED <<lanes, service, results, history>>
    BY DEF service_owners, Phase
  <1>3. enqueue(S)
    BY <1>1, <1>2
  <1>4. d \in Diagonals
    BY <1>1, <1>2, HostFact
  <1>5. ASSUME NEW x
        PROVE  x \in S <=> /\ Legal(x) /\ x.pass = p /\ x.diagonal = d
                           /\ Stage("owners") <= Rank(x)[1] /\ Rank(x)[1] < Stage("outputs")
    <2>1. x \in S <=> Legal(x) /\ x.pass = p /\ x.diagonal = d /\ x.do \in {"compute", "shared"}
      BY <1>1, <1>4, PhaseFact
    <2>2. Legal(x) => (x.do \in {"compute", "shared"} <=> 3 <= Rank(x)[1] /\ Rank(x)[1] < 4)
      BY RankFact
    <2>3. QED
      BY <2>1, <2>2, StageIs
  <1>6. QED
    BY <1>1, <1>2, <1>3, <1>5, PhaseIs

\* Issuing the returns keeps the invariant.
LEMMA ServiceOutputsStep ==
  ASSUME IInv, service_outputs
  PROVE  IInv'
  <1>1. PICK S, p, d : S = Returns(pass, diagonal) /\ p = pass /\ d = diagonal
    OBVIOUS
  <1>2. /\ hpc = "outputs" /\ hpc' = "sums" /\ enqueue(Returns(pass, diagonal))
        /\ pass' = pass /\ diagonal' = diagonal /\ UNCHANGED <<lanes, service, results, history>>
    BY DEF service_outputs, Phase
  <1>3. enqueue(S)
    BY <1>1, <1>2
  <1>4. d \in Diagonals
    BY <1>1, <1>2, HostFact
  <1>5. ASSUME NEW x
        PROVE  x \in S <=> /\ Legal(x) /\ x.pass = p /\ x.diagonal = d
                           /\ Stage("outputs") <= Rank(x)[1] /\ Rank(x)[1] < Stage("sums")
    <2>1. x \in S <=> Legal(x) /\ x.pass = p /\ x.diagonal = d /\ x.do \in {"return", "output"}
      BY <1>1, <1>4, PhaseFact
    <2>2. Legal(x) => (x.do \in {"return", "output"} <=> 4 <= Rank(x)[1] /\ Rank(x)[1] < 5)
      BY RankFact
    <2>3. QED
      BY <2>1, <2>2, StageIs
  <1>6. QED
    BY <1>1, <1>2, <1>3, <1>5, PhaseIs

\* Issuing the sums keeps the invariant.
LEMMA ServiceSumsStep ==
  ASSUME IInv, service_sums
  PROVE  IInv'
  <1>1. PICK S, p, d : S = Sums(pass, diagonal) /\ p = pass /\ d = diagonal
    OBVIOUS
  <1>2. /\ hpc = "sums" /\ hpc' = "post" /\ enqueue(Sums(pass, diagonal))
        /\ pass' = pass /\ diagonal' = diagonal /\ UNCHANGED <<lanes, service, results, history>>
    BY DEF service_sums, Phase
  <1>3. enqueue(S)
    BY <1>1, <1>2
  <1>4. d \in Diagonals
    BY <1>1, <1>2, HostFact
  <1>5. ASSUME NEW x
        PROVE  x \in S <=> /\ Legal(x) /\ x.pass = p /\ x.diagonal = d
                           /\ Stage("sums") <= Rank(x)[1] /\ Rank(x)[1] < Stage("post")
    <2>1. x \in S <=> Legal(x) /\ x.pass = p /\ x.diagonal = d /\ x.do = "sum"
      BY <1>1, <1>4, PhaseFact
    <2>2. Legal(x) => (x.do = "sum" <=> 5 <= Rank(x)[1] /\ Rank(x)[1] < 6)
      BY RankFact
    <2>3. QED
      BY <2>1, <2>2, StageIs
  <1>6. QED
    BY <1>1, <1>2, <1>3, <1>5, PhaseIs

\* Issuing the rest of the graphs keeps the invariant.
LEMMA SubmitPostStep ==
  ASSUME IInv, submit_post
  PROVE  IInv'
  <1>1. PICK S, p, d : S = Posts(pass, diagonal) /\ p = pass /\ d = diagonal
    OBVIOUS
  <1>2. /\ hpc = "post" /\ enqueue(Posts(pass, diagonal)) /\ diagonal' = diagonal + 1 /\ pass' = pass
        /\ hpc' = (IF diagonal = LastDiagonal THEN "sync" ELSE "pre")
        /\ UNCHANGED <<lanes, service, results, history>>
    BY DEF submit_post
  <1>3. enqueue(S) /\ hpc # "done" /\ hpc # "sync"
    BY <1>1, <1>2
  <1>4. d \in Diagonals /\ diagonal \in Nat /\ diagonal # LastDiagonal + 1
    BY <1>1, <1>3, HostFact
  <1>5. ASSUME NEW x
        PROVE  x \in S <=> /\ Legal(x) /\ x.pass = p /\ x.diagonal = d
                           /\ Stage(hpc) <= Rank(x)[1] /\ Rank(x)[1] < 7
    <2>1. x \in S <=> Legal(x) /\ x.pass = p /\ x.diagonal = d /\ x.do = "post"
      BY <1>1, <1>4, PhaseFact
    <2>2. Legal(x) => (x.do = "post" <=> 6 <= Rank(x)[1] /\ Rank(x)[1] < 7)
      BY RankFact
    <2>3. QED
      BY <1>2, <2>1, <2>2, StageIs
  <1>6. hpc' \in HostPoints /\ Stage(hpc') = 0 /\ hpc' # "done" /\ (hpc' = "sync" <=> diagonal = LastDiagonal)
    BY <1>2, StageIs DEF HostPoints
  <1>7. diagonal' \in 0 .. LastDiagonal + 1 /\ HostOK'
    <2>1. diagonal \in 0 .. LastDiagonal /\ LastDiagonal \in Nat
      BY <1>1, <1>4, ConstantFact DEF Diagonals
    <2>2. diagonal' = LastDiagonal + 1 <=> diagonal = LastDiagonal
      BY <1>2, <2>1
    <2>3. QED
      BY <1>2, <1>6, <2>1, <2>2 DEF HostOK
  <1>8. PICK k : k = 7
    OBVIOUS
  <1>9. diagonal' = diagonal + 1 /\ Stage(hpc') = 0 /\ k = 7
    BY <1>2, <1>6, <1>8
  <1>10. \A x : x \in S <=> /\ Legal(x) /\ x.pass = pass /\ x.diagonal = diagonal
                            /\ Stage(hpc) <= Rank(x)[1] /\ Rank(x)[1] < k
    BY <1>1, <1>5, <1>8
  <1>11. QED
    BY <1>2, <1>3, <1>6, <1>7, <1>9, <1>10, PhaseStep

\* When the compute streams are empty after the last diagonal, everything has run.
LEMMA AllRan ==
  ASSUME IInv, diagonal = LastDiagonal + 1, \A j \in Lanes : queue[Main(j)] = <<>>
  PROVE  Ran = Ops(pass) /\ \A s \in Streams : queue[s] = <<>>
  <1>1. PICK p, D : p = pass /\ D = Ran
    OBVIOUS
  <1>2. Closed(D, p) /\ queue \in [Streams -> Seq(Entries)] /\ QueueOK(Given)
    BY <1>1 DEF IInv, OrderOK, TypeOK, StreamsOK
  <1>3. Given = Ops(p)
    <2>1. ASSUME NEW x \in Ops(p) PROVE Issued(x)
      <3>1. x.diagonal \in 0 .. LastDiagonal /\ LastDiagonal \in Nat
        BY OpsFact, LegalKind, ConstantFact DEF Diagonals
      <3>2. x.diagonal < diagonal
        BY <3>1
      <3>3. QED
        BY <3>2 DEF Issued
    <2>2. QED
      BY <1>1, <2>1 DEF Given
  <1>4. ASSUME NEW x \in Ops(p), NEW k \in Lanes, On(x) = Main(k) PROVE x \in D
    <2>1. queue[On(x)] = <<>>
      BY <1>4
    <2>2. ~Pending(x)
      BY <2>1 DEF Pending
    <2>3. QED
      BY <1>1, <1>3, <2>2 DEF Ran
  <1>5. ASSUME NEW d \in Diagonals, NEW g \in GroupsOf(d), NEW o \in Lanes
        PROVE  Op("compute", p, d, g, o) \in D
    <2>1. PICK j \in Active(d) : GroupOf(d, j) = g
      BY DEF GroupsOf, Members
    <2>2. Op("compute", p, d, g, o) \in Ops(p)
      BY <2>1, LaneOps
    <2>3. On(Op("compute", p, d, g, o)) = Main(o)
      BY OpOn
    <2>4. QED
      BY <1>4, <2>2, <2>3
  <1>6. ASSUME NEW d \in Diagonals, NEW j \in Active(d)
        PROVE  Op("sum", p, d, j, j) \in D
    <2>1. Op("sum", p, d, j, j) \in Ops(p) /\ On(Op("sum", p, d, j, j)) = Main(j) /\ j \in Lanes
      BY OpOn, LaneOps, LayerFact
    <2>2. QED
      BY <1>4, <2>1
  <1>7. ASSUME NEW x \in Ops(p) PROVE x \in D
    <2>1. Legal(x) /\ x.pass = p /\ x.do \in Kinds
      BY OpsFact, LegalKind
    <2>2. PICK d, n, o : d = x.diagonal /\ n = x.n /\ o = x.o
      OBVIOUS
    <2>3. d \in Diagonals /\ x = Op(x.do, p, d, n, o) /\ o \in Lanes /\ n \in Lanes
      BY <2>1, <2>2, LegalKind, LegalFact DEF Legal
    <2>4. CASE x.do \in {"pack", "send", "input"}
      <3>1. n \in Active(d)
        BY <2>1, <2>2, <2>4 DEF Legal
      <3>2. GroupOf(d, n) \in GroupsOf(d) /\ n \in Members(d, GroupOf(d, n))
        BY <2>3, <3>1, PositionFact
      <3>3. Op("compute", p, d, GroupOf(d, n), n) \in D
        BY <1>5, <2>3, <3>2
      <3>4. Op("input", p, d, n, n) \in D /\ \A c \in Lanes : Packed(p, d, n, c) \in D
        BY <1>2, <2>3, <3>2, <3>3, ComputeChain
      <3>5. CASE x.do = "input"
        BY <2>1, <2>2, <2>3, <3>4, <3>5 DEF Legal
      <3>6. CASE x.do = "pack"
        <4>1. x = Packed(p, d, n, n)
          BY <2>1, <2>2, <2>3, <3>6 DEF Legal, Packed
        <4>2. QED
          BY <2>3, <3>4, <4>1
      <3>7. CASE x.do = "send"
        <4>1. x = Packed(p, d, n, o)
          BY <2>1, <2>2, <2>3, <3>7 DEF Legal, Packed
        <4>2. QED
          BY <2>3, <3>4, <4>1
      <3>8. QED
        BY <2>4, <3>5, <3>6, <3>7
    <2>5. CASE x.do = "return"
      <3>1. n \in Active(d)
        BY <2>1, <2>2, <2>5 DEF Legal
      <3>2. Op("return", p, d, n, o) \in D
        BY <1>2, <1>6, <2>3, <3>1, SumChain
      <3>3. QED
        BY <2>3, <2>5, <3>2
    <2>6. CASE x.do = "output"
      <3>1. n \in GroupsOf(d)
        BY <2>1, <2>2, <2>6 DEF Legal
      <3>2. PICK j \in Active(d) : GroupOf(d, j) = n
        BY <3>1 DEF GroupsOf, Members
      <3>3. Op("output", p, d, n, o) \in D
        BY <1>2, <1>6, <2>3, <3>2, SumChain
      <3>4. QED
        BY <2>3, <2>6, <3>3
    <2>7. CASE x.do \notin {"pack", "send", "input", "return", "output"}
      <3>1. On(x) = Main(o)
        BY <2>1, <2>2, <2>7, OnIs
      <3>2. QED
        BY <1>4, <2>3, <3>1
    <2>8. QED
      BY <2>4, <2>5, <2>6, <2>7
  <1>8. ASSUME NEW s \in Streams PROVE queue[s] = <<>>
    <2>1. SUFFICES ASSUME queue[s] # <<>> PROVE FALSE
      OBVIOUS
    <2>2. queue[s] \in Seq(Entries)
      BY <1>2
    <2>3. 1 \in DOMAIN queue[s]
      BY <2>1, <2>2
    <2>4. PICK x : x = queue[s][1].op
      OBVIOUS
    <2>5. x \in Given /\ On(x) = s
      BY <1>2, <2>3, <2>4 DEF QueueOK
    <2>6. Pending(x)
      BY <2>3, <2>4, <2>5 DEF Pending
    <2>7. x \in D
      BY <1>3, <1>7, <2>5
    <2>8. QED
      BY <1>1, <2>6, <2>7 DEF Ran
  <1>9. D \subseteq Ops(p)
    BY <1>1, <1>3 DEF Ran
  <1>10. QED
    BY <1>1, <1>7, <1>8, <1>9

\* All cells of a pass of which every operation has run are complete.
LEMMA PassIsOver ==
  ASSUME NEW p \in 1 .. Passes, ExecutedOK(Ops(p), p), NEW c \in Cells
  PROVE  c \in executed <=> c.pass < p + 1
  <1>1. PICK e, n : e = c.layer + LaneStagger * c.lane /\ n = c.lane
    OBVIOUS
  <1>2. e \in Diagonals /\ n \in Active(e)
    BY <1>1, CellDiagonal
  <1>3. Op("post", p, e, n, n) \in Ops(p)
    BY <1>2, LaneOps
  <1>4. c \in executed <=> c.pass < p \/ c.pass = p
    BY <1>1, <1>3 DEF ExecutedOK
  <1>5. c.pass \in Int /\ p \in Int
    BY DEF Cells
  <1>6. QED
    BY <1>4, <1>5

\* Before the first phase of a pass nothing of it is issued.
LEMMA NothingGiven ==
  ASSUME NEW p, NEW x \in Ops(p)
  PROVE  x.diagonal \in Nat /\ Rank(x)[1] \in Nat
  <1>1. Legal(x) /\ x.diagonal \in Diagonals
    BY OpsFact, LegalKind
  <1>2. QED
    BY <1>1, LayerFact, RankFact

\* The end of a pass keeps the invariant.
LEMMA SynchronizeStep ==
  ASSUME IInv, synchronize
  PROVE  IInv'
  <1>1. /\ hpc = "sync" /\ \A j \in Lanes : queue[Main(j)] = <<>>
        /\ \/ pass < Passes /\ pass' = pass + 1 /\ diagonal' = 0 /\ hpc' = "pre"
           \/ pass = Passes /\ hpc' = "done" /\ pass' = pass /\ diagonal' = diagonal
        /\ queue' = queue /\ recorded' = recorded /\ UNCHANGED <<lanes, service, results, history>>
    BY DEF synchronize, events
  <1>2. TypeOK /\ HostOK /\ diagonal = LastDiagonal + 1
    BY <1>1 DEF IInv, OrderOK, HostOK
  <1>3. Ran = Ops(pass) /\ \A s \in Streams : queue[s] = <<>>
    BY <1>1, <1>2, AllRan
  <1>4. CASE pass = Passes /\ hpc' = "done" /\ pass' = pass /\ diagonal' = diagonal
    <2>1. HostOK' /\ hpc' \in HostPoints
      BY <1>1, <1>2, <1>3, <1>4 DEF HostOK, HostPoints
    <2>2. Stage(hpc') = Stage(hpc)
      BY <1>1, <1>4 DEF Stage
    <2>3. Given' = Given
      BY <1>4, <2>2 DEF Given, Issued
    <2>4. QED
      BY <1>1, <1>4, <2>1, <2>3, SameRun
  <1>5. CASE pass < Passes /\ pass' = pass + 1 /\ diagonal' = 0 /\ hpc' = "pre"
    <2>1. PICK p, q : p = pass /\ q = pass + 1
      OBVIOUS
    <2>2. p \in 1 .. Passes /\ q \in 1 .. Passes /\ q = p + 1
      BY <1>2, <1>5, <2>1, ConstantFact DEF TypeOK
    <2>3. Given' = {}
      <3>1. Stage(hpc') = 0
        BY <1>5, StageIs
      <3>2. ASSUME NEW x \in Ops(q) PROVE ~Issued(x)'
        <4>1. x.diagonal \in Nat /\ Rank(x)[1] \in Nat
          BY NothingGiven
        <4>2. ~(x.diagonal < 0) /\ ~(Rank(x)[1] < 0)
          BY <4>1
        <4>3. QED
          BY <1>5, <3>1, <4>2 DEF Issued
      <3>3. Given' = {x \in Ops(q) : Issued(x)'}
        BY <1>5, <2>1 DEF Given
      <3>4. QED
        BY <3>2, <3>3
    <2>4. Ran' = {}
      BY <2>3 DEF Ran
    <2>5. StreamsOK(Given)'
      BY <1>1, <1>3, <2>3 DEF StreamsOK, QueueOK, AwaitedOK, RecordedOK
    <2>6. Closed(Ran, pass)'
      BY <2>4 DEF Closed
    <2>7. HostOK'
      <3>1. diagonal' # LastDiagonal + 1
        BY <1>5, ConstantFact
      <3>2. QED
        BY <1>5, <3>1 DEF HostOK
    <2>8. OrderOK'
      BY <2>5, <2>6, <2>7 DEF OrderOK
    <2>9. PICK D : D = {}
      OBVIOUS
    <2>10. DataOK(D, q)'
      <3>1. ExecutedOK(Ops(p), p)
        BY <1>3, <2>1 DEF IInv, DataOK
      <3>2. \A c \in Cells : c \in executed <=> c.pass < q
        BY <2>2, <3>1, PassIsOver
      <3>3. executed' = executed
        BY <1>1 DEF history
      <3>4. ExecutedOK(D, q)'
        BY <2>9, <3>2, <3>3 DEF ExecutedOK
      <3>5. SourceOK(D, q)' /\ RequestOK(D, q)' /\ PartialOK(D, q)' /\ RecvOK(D, q)' /\ RowsOK(D, q)'
        BY <2>9 DEF SourceOK, RequestOK, PartialOK, RecvOK, RowsOK
      <3>6. QED
        BY <3>4, <3>5 DEF DataOK
    <2>11. DataOK(Ran, pass)'
      BY <1>5, <2>1, <2>4, <2>9, <2>10, DataBridge
    <2>12. ExecutedClosed' /\ SumIsOfItsCell' /\ AttentionSeesEarlierLanes'
      BY <1>1 DEF IInv, ExecutedClosed, SumIsOfItsCell, AttentionSeesEarlierLanes, results, history, Wave!Before
    <2>13. TypeOK'
      <3>1. pass' \in 1 .. Passes /\ diagonal' \in 0 .. LastDiagonal + 1 /\ hpc' \in HostPoints
        BY <1>5, <2>1, <2>2, ConstantFact DEF HostPoints
      <3>2. QED
        BY <1>1, <1>2, <3>1 DEF TypeOK, lanes, service, results, history
    <2>14. QED
      BY <2>8, <2>11, <2>12, <2>13 DEF IInv
  <1>6. QED
    BY <1>1, <1>4, <1>5

\* The buffers are well typed at first.
LEMMA InitType ==
  ASSUME Init
  PROVE  TypeOK
  <1>1. /\ NoCell \in Names /\ Whole(NoCell) \in Parts /\ 0 \in 0 .. Passes
        /\ 1 \in 1 .. Passes /\ 0 \in 0 .. LastDiagonal + 1
    BY ConstantFact DEF Names, Whole, Parts
  <1>2. pass \in 1 .. Passes /\ diagonal \in 0 .. LastDiagonal + 1 /\ hpc \in HostPoints
    BY <1>1 DEF Init, HostPoints
  <1>3. queue \in [Streams -> Seq(Entries)] /\ recorded \in [Events -> Operations \cup {NoOp}]
    BY DEF Init
  <1>4. kv \in [Lanes -> [Layers -> [Lanes -> 0 .. Passes]]]
    BY <1>1 DEF Init
  <1>5. rs \in [Lanes -> [Layers -> Names]] /\ state_in \in [Lanes -> [Layers -> Names]]
    BY <1>1 DEF Init
  <1>6. source \in [Lanes -> Names]
    BY <1>1 DEF Init
  <1>7. /\ request \in [Groups -> [Lanes -> [0 .. GroupCells - 1 -> Parts]]]
        /\ partial \in [Groups -> [Lanes -> [0 .. GroupCells - 1 -> Parts]]]
    BY <1>1 DEF Init
  <1>8. recv \in [Groups -> [Lanes -> [Lanes -> Parts]]]
    BY <1>1 DEF Init
  <1>9. output \in [Lanes -> [cell : Names, parts : [Lanes -> Parts]]]
    BY <1>1 DEF Init
  <1>10. shared \in [Lanes -> [cell : Names, input : Names]]
    BY <1>1 DEF Init
  <1>11. seen \in [Lanes -> [cell : Names, rows : [Lanes -> 0 .. Passes], state : Names]]
    BY <1>1 DEF Init
  <1>12. executed \subseteq Cells
    BY DEF Init
  <1>13. QED
    BY <1>2, <1>3, <1>4, <1>5, <1>6, <1>7, <1>8, <1>9, <1>10, <1>11, <1>12 DEF TypeOK

\* The invariant holds at first.
LEMMA InitInv ==
  ASSUME Init
  PROVE  IInv
  <1>1. /\ pass = 1 /\ diagonal = 0 /\ hpc = "pre" /\ executed = {}
        /\ \A s \in Streams : queue[s] = <<>>
    BY DEF Init
  <1>2. Given = {}
    <2>1. ASSUME NEW x \in Ops(pass) PROVE ~Issued(x)
      <3>1. x.diagonal \in Nat /\ Rank(x)[1] \in Nat
        BY NothingGiven
      <3>2. ~(x.diagonal < 0) /\ ~(Rank(x)[1] < 0)
        BY <3>1
      <3>3. QED
        BY <1>1, <3>2, StageIs DEF Issued
    <2>2. QED
      BY <2>1 DEF Given
  <1>3. Ran = {}
    BY <1>2 DEF Ran
  <1>4. StreamsOK(Given)
    BY <1>1, <1>2 DEF StreamsOK, QueueOK, AwaitedOK, RecordedOK
  <1>5. Closed(Ran, pass)
    BY <1>3 DEF Closed
  <1>6. HostOK
    <2>1. diagonal # LastDiagonal + 1
      BY <1>1, ConstantFact
    <2>2. QED
      BY <1>1, <2>1 DEF HostOK
  <1>7. DataOK(Ran, pass)
    <2>1. ExecutedOK(Ran, pass)
      <3>1. ASSUME NEW c \in Cells PROVE ~(c.pass < 1)
        BY DEF Cells
      <3>2. QED
        BY <1>1, <1>3, <3>1 DEF ExecutedOK
    <2>2. SourceOK(Ran, pass) /\ RequestOK(Ran, pass) /\ PartialOK(Ran, pass) /\ RecvOK(Ran, pass) /\ RowsOK(Ran, pass)
      BY <1>3 DEF SourceOK, RequestOK, PartialOK, RecvOK, RowsOK
    <2>3. QED
      BY <2>1, <2>2 DEF DataOK
  <1>8. ExecutedClosed
    BY <1>1 DEF ExecutedClosed
  <1>9. SumIsOfItsCell
    BY DEF Init, SumIsOfItsCell
  <1>10. AttentionSeesEarlierLanes
    BY DEF Init, AttentionSeesEarlierLanes
  <1>11. QED
    BY <1>4, <1>5, <1>6, <1>7, <1>8, <1>9, <1>10, InitType DEF IInv, OrderOK

-----------------------------------------------------------------------------
(* The theorems.                                                           *)

\* Only the rest of a graph completes a cell.
LEMMA ExecutedStays ==
  ASSUME Next \/ UNCHANGED vars, \A s \in Streams : ~post(s)
  PROVE  executed' = executed
  <1>1. CASE Host
    BY <1>1 DEF Host, submit_pre, service_inputs, service_owners, service_outputs, service_sums,
                submit_post, synchronize, Phase, history
  <1>2. ASSUME NEW s \in Streams, Device(s) PROVE executed' = executed
    BY <1>2 DEF Device, mark, corridor, pre, pack, send, compute, shared_expert, return, sum_owners,
                service, results, history
  <1>3. CASE Terminated \/ UNCHANGED vars
    BY <1>3 DEF Terminated, vars, history
  <1>4. QED
    BY <1>1, <1>2, <1>3 DEF Next

\* Every step keeps the invariant.
LEMMA InvStep == IInv /\ [Next]_vars => IInv'
  <1> SUFFICES ASSUME IInv, [Next]_vars PROVE IInv'
    OBVIOUS
  <1>1. CASE Host
    BY <1>1, SubmitPreStep, ServiceInputsStep, ServiceOwnersStep, ServiceOutputsStep, ServiceSumsStep,
       SubmitPostStep, SynchronizeStep DEF Host
  <1>2. ASSUME NEW s \in Streams, Device(s) PROVE IInv'
    BY <1>2, MarkStep, CorridorStep, PreStep, PackStep, SendStep, ComputeStep, SharedStep, ReturnStep,
       SumStep, PostStep DEF Device
  <1>3. CASE Terminated \/ UNCHANGED vars
    BY <1>3, StutterStep DEF Terminated
  <1>4. QED
    BY <1>1, <1>2, <1>3 DEF Next

\* The invariant of the program of the host and of what the streams made of it.
THEOREM Invariance == Spec => []IInv
  BY InitInv, InvStep, PTL DEF Spec

\* The host, the streams, the events and the buffers are well typed: what is enqueued
\* is an operation of the program on the stream it is for.
THEOREM TypeCorrect == Spec => []TypeOK
  <1>1. IInv => TypeOK
    BY DEF IInv
  <1>2. QED
    BY <1>1, Invariance, PTL

\* A cell's sum adds the partials that its own request led to on every owner, and its
\* shared expert worked on its own input: the events around the scratch buffers of the
\* live expert service are enough for any number of lanes, layers and passes.
THEOREM SumsAreOfTheirCells == Spec => []SumIsOfItsCell
  <1>1. IInv => SumIsOfItsCell
    BY DEF IInv
  <1>2. QED
    BY <1>1, Invariance, PTL

\* An attention cell has the rows of this pass from every earlier lane: the corridors
\* bring them before its graph runs.
THEOREM AttentionIsComplete == Spec => []AttentionSeesEarlierLanes
  <1>1. IInv => AttentionSeesEarlierLanes
    BY DEF IInv
  <1>2. QED
    BY <1>1, Invariance, PTL

\* Every pass that is over is whole.
LEMMA WholeFact ==
  ASSUME IInv
  PROVE  WaveIsWhole
  <1>1. PICK p : p = pass
    OBVIOUS
  <1>2. p \in 1 .. Passes /\ ExecutedOK(Ran, p)
    BY <1>1 DEF IInv, TypeOK, DataOK
  <1>3. CASE hpc = "done"
    <2>1. diagonal = LastDiagonal + 1 /\ p = Passes /\ \A s \in Streams : queue[s] = <<>>
      BY <1>1, <1>3 DEF IInv, OrderOK, HostOK
    <2>2. \A j \in Lanes : queue[Main(j)] = <<>>
      BY <2>1, StreamFact
    <2>3. ExecutedOK(Ops(p), p)
      BY <1>1, <1>2, <2>1, <2>2, AllRan
    <2>4. ASSUME NEW c \in Cells PROVE c \in executed
      <3>1. c.pass < p + 1
        BY <2>1, ConstantFact DEF Cells
      <3>2. QED
        BY <1>2, <2>3, <3>1, PassIsOver
    <2>5. QED
      BY <2>4 DEF WaveIsWhole
  <1>4. CASE hpc # "done"
    BY <1>1, <1>2, <1>4 DEF WaveIsWhole, ExecutedOK
  <1>5. QED
    BY <1>3, <1>4

\* When a pass begins all cells of the earlier passes are complete, and when the
\* benchmark returns all cells are: that the host synchronizes the compute streams only
\* is enough, although the copy streams run on their own.
THEOREM WavesAreWhole == Spec => []WaveIsWhole
  BY WholeFact, Invariance, PTL

\* At first no cell is complete, in the abstract specification too.
LEMMA WaveInitially == Init => Wave!WaveInit
  BY DEF Init, Wave!WaveInit

\* A step completes a cell in wavefront order, or none.
LEMMA WaveStep == IInv /\ [Next]_vars => [Wave!WaveNext]_executed
  <1> SUFFICES ASSUME IInv, [Next]_vars PROVE [Wave!WaveNext]_executed
    OBVIOUS
  <1>1. ASSUME NEW s \in Streams, post(s) PROVE \E c \in Wave!Cells : Wave!Execute(c)
    BY <1>1, PostStep
  <1>2. CASE \A s \in Streams : ~post(s)
    BY <1>2, ExecutedStays
  <1>3. QED
    BY <1>1, <1>2 DEF Wave!WaveNext

\* The cells complete in the order of the wavefront: each after the same layer of every
\* earlier lane and the earlier layers of its own, whichever of the streams is ahead.
THEOREM WaveImplementsWavefront == Spec => ImplementsWave
  BY WaveInitially, WaveStep, Invariance, PTL DEF Spec, ImplementsWave, Wave!WaveSpec
=============================================================================
