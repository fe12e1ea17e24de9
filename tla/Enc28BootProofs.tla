--------------------------- MODULE Enc28BootProofs --------------------------
(***************************************************************************)
(* Proofs about Enc28Boot, for every order in which a program calls the    *)
(* driver.                                                                 *)
(***************************************************************************)
EXTENDS Enc28Boot, TLAPS

-----------------------------------------------------------------------------
(* Registers.                                                              *)

(* The common registers are reached from every bank, and read without a    *)
(* dummy byte whatever the copy of the bank says.                          *)
LEMMA CommonReached ==
    ASSUME NEW r \in Common, hwBank \in 0..3
    PROVE  Reached(r) = r /\ ReadsWell(r)
  <1>1. Reached(r) = r
    <2>1. CASE hwBank = 0 BY <2>1 DEF Reached, Addr, Banks, Common
    <2>2. CASE hwBank = 1 BY <2>2 DEF Reached, Addr, Banks, Common
    <2>3. CASE hwBank = 2 BY <2>3 DEF Reached, Addr, Banks, Common
    <2>4. CASE hwBank = 3 BY <2>4 DEF Reached, Addr, Banks, Common
    <2> QED BY <2>1, <2>2, <2>3, <2>4
  <1>2. r \notin MacOrMii BY DEF MacOrMii, Banks, Common
  <1>3. ~IsMacOrMiiReg(Addr[r]) BY DEF IsMacOrMiiReg, Addr, Common
  <1> QED BY <1>1, <1>2, <1>3 DEF ReadsWell

(* The others are reached, and read right, when their bank is selected and *)
(* the driver knows it.                                                    *)
LEMMA BankedReached ==
    ASSUME NEW c \in 0..3, NEW r \in Banks[c + 1], hwBank = c, currBank = c
    PROVE  Reached(r) = r /\ ReadsWell(r)
  <1>1. CASE c = 0
    <2>1. Reached(r) = r BY <1>1 DEF Reached, Addr, Banks, Common
    <2>2. r \notin MacOrMii BY <1>1 DEF MacOrMii, Banks
    <2>3. ~IsMacOrMiiReg(Addr[r]) BY <1>1 DEF IsMacOrMiiReg
    <2> QED BY <2>1, <2>2, <2>3 DEF ReadsWell
  <1>2. CASE c = 1
    <2>1. Reached(r) = r BY <1>2 DEF Reached, Addr, Banks, Common
    <2>2. r \notin MacOrMii BY <1>2 DEF MacOrMii, Banks
    <2>3. ~IsMacOrMiiReg(Addr[r]) BY <1>2 DEF IsMacOrMiiReg
    <2> QED BY <2>1, <2>2, <2>3 DEF ReadsWell
  <1>3. CASE c = 2
    <2>1. Reached(r) = r BY <1>3 DEF Reached, Addr, Banks, Common
    <2>2. r \in MacOrMii BY <1>3 DEF MacOrMii, Banks
    <2>3. IsMacOrMiiReg(Addr[r]) BY <1>3 DEF IsMacOrMiiReg, Addr, Banks
    <2> QED BY <2>1, <2>2, <2>3 DEF ReadsWell
  <1>4. CASE c = 3
    <2>1. Reached(r) = r BY <1>4 DEF Reached, Addr, Banks, Common
    <2>2. r \in MacOrMii <=> r # "EREVID" BY <1>4 DEF MacOrMii, Banks
    <2>3. IsMacOrMiiReg(Addr[r]) <=> r # "EREVID"
      BY <1>4 DEF IsMacOrMiiReg, Addr, Banks
    <2> QED BY <2>1, <2>2, <2>3 DEF ReadsWell
  <1> QED BY <1>1, <1>2, <1>3, <1>4

-----------------------------------------------------------------------------
(* Lists of accesses.                                                      *)

Registers == Common \cup Banks[1] \cup Banks[2] \cup Banks[3] \cup Banks[4]

AccessType ==
    [op : {"bank"}, bank : 0..3]
    \cup [op : {"write", "read", "clear"}, reg : Registers]
    \cup [op : {"set"}, reg : Registers, full : BOOLEAN]
    \cup [op : {"rxen", "micmd"}, on : BOOLEAN]
    \cup [op : {"miregadr"}, phy : {"PHCON1", "PHID1", "PHID2"}]
    \cup [op : {"poll_clock", "poll_busy", "read_mird", "duplex"}]

(* Accesses that work in every bank, and those that need bank c.           *)
Free(x) ==
    \/ x.op \in {"bank", "rxen", "poll_clock"}
    \/ x.op \in {"write", "set", "read", "clear"} /\ x.reg \in Common
Fits(x, c) ==
    \/ x.op \in {"write", "set", "read", "clear"} /\ c \in 0..3 /\ x.reg \in Banks[c + 1]
    \/ x.op = "poll_busy" /\ c = 3
    \/ x.op \in {"miregadr", "micmd", "read_mird", "duplex"} /\ c = 2

(* Before access i of q, bank c is selected: by q, or since before q.      *)
Selected(q, i, b, c) ==
    \/ \E j \in 1..(i - 1) : /\ q[j].op = "bank" /\ q[j].bank = c
                             /\ \A k \in (j + 1)..(i - 1) : q[k].op # "bank"
    \/ b = c /\ \A k \in 1..(i - 1) : q[k].op # "bank"

(* Started in bank b (4: in whatever bank), every access of q works.       *)
Ready(q, b) ==
    \A i \in 1..Len(q) : Free(q[i]) \/ \E c \in 0..3 : Fits(q[i], c) /\ Selected(q, i, b, c)

(* The bank that chip and driver agree on.                                 *)
Agreed == IF hwBank = currBank THEN hwBank ELSE 4

(* Taking the first access of a list.                                      *)
LEMMA TailFacts ==
    ASSUME NEW S, NEW q \in Seq(S), q # <<>>
    PROVE  /\ Len(q) \in Nat /\ Len(q) >= 1
           /\ Head(q) = q[1] /\ Head(q) \in S
           /\ Tail(q) \in Seq(S) /\ Len(Tail(q)) = Len(q) - 1
           /\ \A i \in 1..(Len(q) - 1) : Tail(q)[i] = q[i + 1]
  OBVIOUS

(* What is ready stays so while it is worked off.                          *)
LEMMA ReadyTail ==
    ASSUME NEW S, NEW q \in Seq(S), q # <<>>, NEW b, Ready(q, b)
    PROVE  Ready(Tail(q), IF Head(q).op = "bank" THEN Head(q).bank ELSE b)
  <1> DEFINE t == Tail(q)
             b1 == IF Head(q).op = "bank" THEN Head(q).bank ELSE b
  <1>0. /\ Len(q) \in Nat /\ Len(q) >= 1 /\ Head(q) = q[1] /\ Len(t) = Len(q) - 1
        /\ \A i \in 1..(Len(q) - 1) : t[i] = q[i + 1]
    BY TailFacts
  <1> HIDE DEF t
  <1>1. SUFFICES ASSUME NEW i \in 1..Len(t), ~Free(t[i])
                 PROVE  \E c \in 0..3 : Fits(t[i], c) /\ Selected(t, i, b1, c)
    BY DEF Ready, t
  <1>2. i \in 1..(Len(q) - 1) /\ i + 1 \in 1..Len(q) /\ t[i] = q[i + 1] BY <1>0
  <1>3. PICK c \in 0..3 : Fits(t[i], c) /\ Selected(q, i + 1, b, c)
    BY <1>1, <1>2 DEF Ready
  <1>s. \A k \in 1..(i - 1) : t[k] = q[k + 1] BY <1>0, <1>2
  <1>4. Selected(t, i, b1, c)
    <2>1. CASE \E j \in 1..i : /\ q[j].op = "bank" /\ q[j].bank = c
                               /\ \A k \in (j + 1)..i : q[k].op # "bank"
      <3>1. PICK j \in 1..i : /\ q[j].op = "bank" /\ q[j].bank = c
                              /\ \A k \in (j + 1)..i : q[k].op # "bank"
        BY <2>1
      <3>2. CASE j = 1
        <4>1. b1 = c BY <1>0, <3>1, <3>2
        <4>2. \A k \in 1..(i - 1) : k + 1 \in (j + 1)..i BY <1>2, <3>2
        <4>3. \A k \in 1..(i - 1) : t[k].op # "bank" BY <1>s, <3>1, <4>2
        <4> QED BY <4>1, <4>3 DEF Selected
      <3>3. CASE j # 1
        <4>1. j - 1 \in 1..(i - 1) /\ (j - 1) + 1 = j BY <1>2, <3>3
        <4>2. t[j - 1] = q[j] BY <1>s, <4>1
        <4>3. \A k \in ((j - 1) + 1)..(i - 1) : k \in 1..(i - 1) /\ k + 1 \in (j + 1)..i
          BY <1>2, <3>3
        <4>4. \A k \in ((j - 1) + 1)..(i - 1) : t[k].op # "bank" BY <1>s, <3>1, <4>3
        <4> QED BY <3>1, <4>1, <4>2, <4>4 DEF Selected
      <3> QED BY <3>2, <3>3
    <2>2. CASE b = c /\ \A k \in 1..i : q[k].op # "bank"
      <3>1. 1 \in 1..i /\ \A k \in 1..(i - 1) : k + 1 \in 1..i BY <1>2
      <3>2. b1 = c BY <1>0, <2>2, <3>1
      <3>3. \A k \in 1..(i - 1) : t[k].op # "bank" BY <1>s, <2>2, <3>1
      <3> QED BY <3>2, <3>3 DEF Selected
    <2>3. (i + 1) - 1 = i BY <1>2
    <2> QED BY <1>3, <2>1, <2>2, <2>3 DEF Selected
  <1> QED BY <1>3, <1>4

(* The elements of two lists put together.                                 *)
LEMMA ConcatFacts ==
    ASSUME NEW S, NEW p \in Seq(S), NEW q \in Seq(S)
    PROVE  /\ Len(p) \in Nat /\ Len(q) \in Nat
           /\ p \o q \in Seq(S) /\ Len(p \o q) = Len(p) + Len(q)
           /\ \A i \in 1..Len(p) : (p \o q)[i] = p[i]
           /\ \A i \in 1..Len(q) : (p \o q)[Len(p) + i] = q[i]
  OBVIOUS

(* A bank that q selects is selected by p and q together.                  *)
LEMMA SelectedConcat ==
    ASSUME NEW S, NEW p \in Seq(S), NEW q \in Seq(S), NEW b, NEW c \in 0..3, NEW a,
           NEW i \in 1..(Len(q) + 1),
           \/ Selected(q, i, 4, c)
           \/ Selected(q, i, a, c) /\ Selected(p, Len(p) + 1, b, a)
    PROVE  Selected(p \o q, Len(p) + i, b, c)
  <1> DEFINE r == p \o q
  <1>0. /\ Len(p) \in Nat /\ Len(q) \in Nat
        /\ \A k \in 1..Len(p) : r[k] = p[k]
        /\ \A k \in 1..Len(q) : r[Len(p) + k] = q[k]
    BY ConcatFacts
  <1> HIDE DEF r
  <1>1. CASE \E j \in 1..(i - 1) : /\ q[j].op = "bank" /\ q[j].bank = c
                                   /\ \A k \in (j + 1)..(i - 1) : q[k].op # "bank"
    <2>1. PICK j \in 1..(i - 1) : /\ q[j].op = "bank" /\ q[j].bank = c
                                  /\ \A k \in (j + 1)..(i - 1) : q[k].op # "bank"
      BY <1>1
    <2>2. /\ Len(p) + j \in 1..((Len(p) + i) - 1) /\ j \in 1..Len(q)
          /\ r[Len(p) + j] = q[j]
      BY <1>0
    <2>3. ASSUME NEW k \in ((Len(p) + j) + 1)..((Len(p) + i) - 1)
          PROVE  r[k].op # "bank"
      <3>1. /\ k - Len(p) \in (j + 1)..(i - 1) /\ k - Len(p) \in 1..Len(q)
            /\ Len(p) + (k - Len(p)) = k
        BY <1>0
      <3> QED BY <1>0, <2>1, <3>1
    <2>4. Selected(r, Len(p) + i, b, c) BY <2>1, <2>2, <2>3 DEF Selected
    <2> QED BY <2>4 DEF r
  <1>2. CASE /\ a = c /\ \A k \in 1..(i - 1) : q[k].op # "bank"
             /\ Selected(p, Len(p) + 1, b, a)
    <2>0. ASSUME NEW k \in (Len(p) + 1)..((Len(p) + i) - 1) PROVE r[k].op # "bank"
      <3>1. /\ k - Len(p) \in 1..(i - 1) /\ k - Len(p) \in 1..Len(q)
            /\ Len(p) + (k - Len(p)) = k
        BY <1>0
      <3> QED BY <1>0, <1>2, <3>1
    <2>1. CASE \E j \in 1..Len(p) : /\ p[j].op = "bank" /\ p[j].bank = c
                                    /\ \A k \in (j + 1)..Len(p) : p[k].op # "bank"
      <3>1. PICK j \in 1..Len(p) : /\ p[j].op = "bank" /\ p[j].bank = c
                                   /\ \A k \in (j + 1)..Len(p) : p[k].op # "bank"
        BY <2>1
      <3>2. j \in 1..((Len(p) + i) - 1) /\ r[j] = p[j] BY <1>0
      <3>3. ASSUME NEW k \in (j + 1)..((Len(p) + i) - 1) PROVE r[k].op # "bank"
        <4>1. CASE k \in 1..Len(p)
          <5>1. k \in (j + 1)..Len(p) /\ r[k] = p[k] BY <1>0, <4>1
          <5> QED BY <3>1, <5>1
        <4>2. CASE k \in (Len(p) + 1)..((Len(p) + i) - 1) BY <2>0, <4>2
        <4>3. k \in 1..Len(p) \/ k \in (Len(p) + 1)..((Len(p) + i) - 1) BY <1>0
        <4> QED BY <4>1, <4>2, <4>3
      <3>4. Selected(r, Len(p) + i, b, c) BY <3>1, <3>2, <3>3 DEF Selected
      <3> QED BY <3>4 DEF r
    <2>2. CASE b = c /\ \A k \in 1..Len(p) : p[k].op # "bank"
      <3>1. ASSUME NEW k \in 1..((Len(p) + i) - 1) PROVE r[k].op # "bank"
        <4>1. CASE k \in 1..Len(p) BY <1>0, <2>2, <4>1
        <4>2. CASE k \in (Len(p) + 1)..((Len(p) + i) - 1) BY <2>0, <4>2
        <4>3. k \in 1..Len(p) \/ k \in (Len(p) + 1)..((Len(p) + i) - 1) BY <1>0
        <4> QED BY <4>1, <4>2, <4>3
      <3>2. Selected(r, Len(p) + i, b, c) BY <2>2, <3>1 DEF Selected
      <3> QED BY <3>2 DEF r
    <2>3. (Len(p) + 1) - 1 = Len(p) BY <1>0
    <2> QED BY <1>2, <2>1, <2>2, <2>3 DEF Selected
  <1>3. CASE Selected(q, i, 4, c)
    <2>1. c # 4 OBVIOUS
    <2> QED BY <1>1, <1>3, <2>1 DEF Selected
  <1>4. CASE Selected(q, i, a, c) /\ Selected(p, Len(p) + 1, b, a)
    <2>1. \/ \E j \in 1..(i - 1) : /\ q[j].op = "bank" /\ q[j].bank = c
                                   /\ \A k \in (j + 1)..(i - 1) : q[k].op # "bank"
          \/ a = c /\ \A k \in 1..(i - 1) : q[k].op # "bank"
      BY <1>4 DEF Selected
    <2> QED BY <1>1, <1>2, <1>4, <2>1
  <1> QED BY <1>3, <1>4

(* Lists that follow on each other: q selects its bank itself, or p leaves *)
(* the one it needs.                                                       *)
LEMMA ReadyConcat ==
    ASSUME NEW S, NEW p \in Seq(S), NEW q \in Seq(S), NEW b, NEW a,
           Ready(p, b), Ready(q, a), a = 4 \/ Selected(p, Len(p) + 1, b, a)
    PROVE  Ready(p \o q, b)
  <1> DEFINE r == p \o q
  <1>0. /\ Len(p) \in Nat /\ Len(q) \in Nat /\ Len(r) = Len(p) + Len(q)
        /\ \A k \in 1..Len(p) : r[k] = p[k]
        /\ \A k \in 1..Len(q) : r[Len(p) + k] = q[k]
    BY ConcatFacts
  <1> HIDE DEF r
  <1>1. SUFFICES ASSUME NEW i \in 1..Len(r), ~Free(r[i])
                 PROVE  \E c \in 0..3 : Fits(r[i], c) /\ Selected(r, i, b, c)
    BY DEF Ready, r
  <1>2. CASE i \in 1..Len(p)
    <2>1. PICK c \in 0..3 : Fits(r[i], c) /\ Selected(p, i, b, c)
      BY <1>0, <1>1, <1>2 DEF Ready
    <2>2. \A k \in 1..(i - 1) : r[k] = p[k] BY <1>0, <1>2
    <2>3. Selected(r, i, b, c)
      <3>1. CASE \E j \in 1..(i - 1) : /\ p[j].op = "bank" /\ p[j].bank = c
                                       /\ \A k \in (j + 1)..(i - 1) : p[k].op # "bank"
        <4>1. PICK j \in 1..(i - 1) : /\ p[j].op = "bank" /\ p[j].bank = c
                                      /\ \A k \in (j + 1)..(i - 1) : p[k].op # "bank"
          BY <3>1
        <4>2. \A k \in (j + 1)..(i - 1) : k \in 1..(i - 1) BY <1>0, <1>2
        <4>3. \A k \in (j + 1)..(i - 1) : r[k].op # "bank" BY <2>2, <4>1, <4>2
        <4> QED BY <2>2, <4>1, <4>3 DEF Selected
      <3>2. CASE b = c /\ \A k \in 1..(i - 1) : p[k].op # "bank"
        BY <2>2, <3>2 DEF Selected
      <3> QED BY <2>1, <3>1, <3>2 DEF Selected
    <2> QED BY <2>1, <2>3
  <1>3. CASE i \in (Len(p) + 1)..(Len(p) + Len(q))
    <2> DEFINE m == i - Len(p)
    <2>1. m \in 1..Len(q) /\ m \in 1..(Len(q) + 1) /\ Len(p) + m = i BY <1>0, <1>3
    <2> HIDE DEF m
    <2>2. r[i] = q[m] BY <1>0, <2>1
    <2>3. PICK c \in 0..3 : Fits(r[i], c) /\ Selected(q, m, a, c)
      BY <1>1, <2>1, <2>2 DEF Ready
    <2>4. Selected(r, Len(p) + m, b, c) BY <2>1, <2>3, SelectedConcat, Zenon DEF r
    <2> QED BY <2>1, <2>3, <2>4
  <1>4. i \in 1..Len(p) \/ i \in (Len(p) + 1)..(Len(p) + Len(q)) BY <1>0
  <1> QED BY <1>2, <1>3, <1>4

(* A list that selects a bank and stays in it.                             *)
LEMMA OneBank ==
    ASSUME NEW S, NEW q \in Seq(S), NEW c \in 0..3, Len(q) >= 1,
           q[1].op = "bank", q[1].bank = c,
           \A i \in 2..Len(q) : q[i].op # "bank" /\ (Free(q[i]) \/ Fits(q[i], c))
    PROVE  Ready(q, 4) /\ Selected(q, Len(q) + 1, 4, c)
  <1>0. Len(q) \in Nat OBVIOUS
  <1>1. ASSUME NEW i \in 2..(Len(q) + 1) PROVE Selected(q, i, 4, c)
    <2>1. 1 \in 1..(i - 1) /\ \A k \in (1 + 1)..(i - 1) : k \in 2..Len(q) BY <1>0
    <2> QED BY <2>1 DEF Selected
  <1>2. Ready(q, 4)
    <2> SUFFICES ASSUME NEW i \in 1..Len(q), ~Free(q[i])
                 PROVE  \E d \in 0..3 : Fits(q[i], d) /\ Selected(q, i, 4, d)
      BY DEF Ready
    <2>1. i # 1 BY DEF Free
    <2>2. i \in 2..Len(q) /\ i \in 2..(Len(q) + 1) BY <1>0, <2>1
    <2> QED BY <1>1, <2>2
  <1>3. Len(q) + 1 \in 2..(Len(q) + 1) BY <1>0
  <1> QED BY <1>1, <1>2, <1>3

(* A list that stays in the bank it is started in.                         *)
LEMMA NoBank ==
    ASSUME NEW S, NEW q \in Seq(S), NEW c \in 0..3,
           \A i \in 1..Len(q) : q[i].op # "bank" /\ (Free(q[i]) \/ Fits(q[i], c))
    PROVE  Ready(q, c) /\ Selected(q, Len(q) + 1, c, c)
  <1>0. Len(q) \in Nat OBVIOUS
  <1>1. ASSUME NEW i \in 1..(Len(q) + 1) PROVE Selected(q, i, c, c)
    <2>1. \A k \in 1..(i - 1) : k \in 1..Len(q) BY <1>0
    <2> QED BY <2>1 DEF Selected
  <1>2. Ready(q, c)
    <2> SUFFICES ASSUME NEW i \in 1..Len(q), ~Free(q[i])
                 PROVE  \E d \in 0..3 : Fits(q[i], d) /\ Selected(q, i, c, d)
      BY DEF Ready
    <2>1. i \in 1..(Len(q) + 1) BY <1>0
    <2> QED BY <1>1, <2>1
  <1>3. Len(q) + 1 \in 1..(Len(q) + 1) BY <1>0
  <1> QED BY <1>1, <1>2, <1>3

(* Short lists are lists.                                                  *)
LEMMA Tuples ==
    ASSUME NEW S
    PROVE  /\ <<>> \in Seq(S)
           /\ \A a \in S : << a >> \in Seq(S)
           /\ \A a, b \in S : << a, b >> \in Seq(S)
           /\ \A a, b, c \in S : << a, b, c >> \in Seq(S)
           /\ \A a, b, c, d \in S : << a, b, c, d >> \in Seq(S)
           /\ \A a, b, c, d, e \in S : << a, b, c, d, e >> \in Seq(S)
           /\ \A a, b, c, d, e, f \in S : << a, b, c, d, e, f >> \in Seq(S)
           /\ \A a, b, c, d, e, f, g, h \in S : << a, b, c, d, e, f, g, h >> \in Seq(S)
  <1>1. \A a \in S : << a >> \in Seq(S) OBVIOUS
  <1>2. \A a, b \in S : << a, b >> \in Seq(S) OBVIOUS
  <1>3. \A a, b, c \in S : << a, b, c >> \in Seq(S) OBVIOUS
  <1>4. \A a, b, c, d \in S : << a, b, c, d >> \in Seq(S) OBVIOUS
  <1>5. \A a, b, c, d, e \in S : << a, b, c, d, e >> \in Seq(S) OBVIOUS
  <1>6. \A a, b, c, d, e, f \in S : << a, b, c, d, e, f >> \in Seq(S) OBVIOUS
  <1>7. \A a, b, c, d, e, f, g, h \in S : << a, b, c, d, e, f, g, h >> \in Seq(S) OBVIOUS
  <1>8. <<>> \in Seq(S) OBVIOUS
  <1> QED BY <1>1, <1>2, <1>3, <1>4, <1>5, <1>6, <1>7, <1>8, Zenon

(* Accesses.                                                               *)
LEMMA AccessTypes ==
    /\ \A n \in 0..3 : Bank(n) \in AccessType
    /\ \A r \in Registers : /\ Write(r) \in AccessType /\ Read(r) \in AccessType
                            /\ Clear(r) \in AccessType /\ Set(r) \in AccessType
    /\ \A x \in BOOLEAN : /\ SetMacon3(x) \in AccessType /\ Rxen(x) \in AccessType
                          /\ MiiCommand(x) \in AccessType
    /\ \A f \in {"PHCON1", "PHID1", "PHID2"} : MiiAddress(f) \in AccessType
    /\ \A o \in {"poll_clock", "poll_busy", "read_mird", "duplex"} : Other(o) \in AccessType
  <1>1. \A n \in 0..3 : Bank(n) \in AccessType BY DEF AccessType, Bank
  <1>2. \A r \in Registers : /\ Write(r) \in AccessType /\ Read(r) \in AccessType
                             /\ Clear(r) \in AccessType /\ Set(r) \in AccessType
    BY DEF AccessType, Write, Read, Clear, Set
  <1>3. \A x \in BOOLEAN : /\ SetMacon3(x) \in AccessType /\ Rxen(x) \in AccessType
                           /\ MiiCommand(x) \in AccessType
    BY DEF AccessType, SetMacon3, Rxen, MiiCommand, Registers, Banks
  <1>4. \A f \in {"PHCON1", "PHID1", "PHID2"} : MiiAddress(f) \in AccessType
    BY DEF AccessType, MiiAddress
  <1>5. \A o \in {"poll_clock", "poll_busy", "read_mird", "duplex"} : Other(o) \in AccessType
    BY DEF AccessType, Other
  <1> QED BY <1>1, <1>2, <1>3, <1>4, <1>5

(* enc28_do_read_phy_register selects both banks it uses and leaves bank 2 *)
(* selected.                                                               *)
LEMMA ReadPhyReady ==
    ASSUME NEW f \in {"PHCON1", "PHID1", "PHID2"}
    PROVE  /\ ReadPhy(f) \in Seq(AccessType) /\ Ready(ReadPhy(f), 4)
           /\ Selected(ReadPhy(f), Len(ReadPhy(f)) + 1, 4, 2)
  <1> DEFINE q == ReadPhy(f)
  <1>1. /\ Bank(2) \in AccessType /\ Bank(3) \in AccessType /\ MiiAddress(f) \in AccessType
        /\ MiiCommand(TRUE) \in AccessType /\ MiiCommand(FALSE) \in AccessType
        /\ Other("poll_busy") \in AccessType /\ Other("read_mird") \in AccessType
    <2>1. 2 \in 0..3 /\ 3 \in 0..3 OBVIOUS
    <2> QED BY <2>1, AccessTypes, Zenon
  <1>2. q \in Seq(AccessType) BY <1>1, Tuples, Zenon DEF ReadPhy
  <1>3. /\ Len(q) = 8
        /\ q[1] = Bank(2) /\ q[2] = MiiAddress(f) /\ q[3] = MiiCommand(TRUE)
        /\ q[4] = Bank(3) /\ q[5] = Other("poll_busy")
        /\ q[6] = Bank(2) /\ q[7] = MiiCommand(FALSE) /\ q[8] = Other("read_mird")
    BY DEF ReadPhy
  <1> HIDE DEF q
  <1>4. /\ q[1].op = "bank" /\ q[1].bank = 2 /\ q[2].op = "miregadr"
        /\ q[3].op = "micmd" /\ q[4].op = "bank" /\ q[4].bank = 3
        /\ q[5].op = "poll_busy" /\ q[6].op = "bank" /\ q[6].bank = 2
        /\ q[7].op = "micmd" /\ q[8].op = "read_mird"
    BY <1>3 DEF Bank, MiiAddress, MiiCommand, Other
  <1>5. Selected(q, 2, 4, 2)
    <2>1. 1 \in 1..(2 - 1) /\ \A k \in (1 + 1)..(2 - 1) : FALSE OBVIOUS
    <2> QED BY <1>4, <2>1 DEF Selected
  <1>6. Selected(q, 3, 4, 2)
    <2>1. 1 \in 1..(3 - 1) /\ \A k \in (1 + 1)..(3 - 1) : k = 2 OBVIOUS
    <2> QED BY <1>4, <2>1 DEF Selected
  <1>7. Selected(q, 5, 4, 3)
    <2>1. 4 \in 1..(5 - 1) /\ \A k \in (4 + 1)..(5 - 1) : FALSE OBVIOUS
    <2> QED BY <1>4, <2>1 DEF Selected
  <1>8. Selected(q, 7, 4, 2)
    <2>1. 6 \in 1..(7 - 1) /\ \A k \in (6 + 1)..(7 - 1) : FALSE OBVIOUS
    <2> QED BY <1>4, <2>1 DEF Selected
  <1>9. Selected(q, 8, 4, 2)
    <2>1. 6 \in 1..(8 - 1) /\ \A k \in (6 + 1)..(8 - 1) : k = 7 OBVIOUS
    <2> QED BY <1>4, <2>1 DEF Selected
  <1>10. Selected(q, Len(q) + 1, 4, 2)
    <2>1. 6 \in 1..((Len(q) + 1) - 1) BY <1>3
    <2>2. \A k \in (6 + 1)..((Len(q) + 1) - 1) : k = 7 \/ k = 8 BY <1>3
    <2> QED BY <1>4, <2>1, <2>2 DEF Selected
  <1>11. Ready(q, 4)
    <2>1. Free(q[1]) /\ Free(q[4]) /\ Free(q[6]) BY <1>4 DEF Free
    <2>2. /\ Fits(q[2], 2) /\ Fits(q[3], 2) /\ Fits(q[5], 3) /\ Fits(q[7], 2)
          /\ Fits(q[8], 2)
      BY <1>4 DEF Fits
    <2>3. 2 \in 0..3 /\ 3 \in 0..3 OBVIOUS
    <2>4. \A i \in 1..Len(q) : i \in {1, 2, 3, 4, 5, 6, 7, 8} BY <1>3
    <2> HIDE DEF Free, Fits, Selected
    <2> QED BY <1>5, <1>6, <1>7, <1>8, <1>9, <2>1, <2>2, <2>3, <2>4, Zenon DEF Ready
  <1> QED BY <1>2, <1>10, <1>11 DEF q

(* A list that is ready in whatever bank is ready in the one selected.     *)
LEMMA ReadyAnywhere ==
    ASSUME NEW q, NEW b, Ready(q, 4)
    PROVE  Ready(q, b)
  <1>1. \A i, c : c \in 0..3 /\ Selected(q, i, 4, c) => Selected(q, i, b, c)
    <2>1. \A c \in 0..3 : c # 4 OBVIOUS
    <2> QED BY <2>1, Zenon DEF Selected
  <1> QED BY <1>1, Zenon DEF Ready

(* The lists that select their bank once.                                  *)
LEMMA ShortLists ==
    /\ BufferRegisterInit \in Seq(AccessType) /\ Ready(BufferRegisterInit, 4)
    /\ ReceiveFilterInit \in Seq(AccessType) /\ Ready(ReceiveFilterInit, 4)
    /\ ReadMac \in Seq(AccessType) /\ Ready(ReadMac, 4)
    /\ BeginPacketTransfer \in Seq(AccessType) /\ Ready(BeginPacketTransfer, 4)
    /\ EndPacketTransfer \in Seq(AccessType) /\ Ready(EndPacketTransfer, 4)
    /\ << Bank(3), Read("EREVID") >> \in Seq(AccessType)
    /\ Ready(<< Bank(3), Read("EREVID") >>, 4)
    /\ << Bank(2), Set("MACON1") >> \in Seq(AccessType)
    /\ Ready(<< Bank(2), Set("MACON1") >>, 4)
  <1>0. /\ 0 \in 0..3 /\ 1 \in 0..3 /\ 2 \in 0..3 /\ 3 \in 0..3
        /\ {"ERXST", "ERXND", "ERXRDPT", "ERXFCON", "MAC_ADD", "ERDPT", "EIE", "EIR",
            "ECON2", "EREVID", "MACON1"} \subseteq Registers
    BY DEF Registers, Banks, Common
  <1>t. /\ Bank(0) \in AccessType /\ Bank(1) \in AccessType /\ Bank(2) \in AccessType
        /\ Bank(3) \in AccessType /\ Write("ERXST") \in AccessType
        /\ Write("ERXND") \in AccessType /\ Write("ERXRDPT") \in AccessType
        /\ Write("ERXFCON") \in AccessType /\ Read("MAC_ADD") \in AccessType
        /\ Write("ERDPT") \in AccessType /\ Set("EIE") \in AccessType
        /\ Clear("EIR") \in AccessType /\ Set("ECON2") \in AccessType
        /\ Rxen(TRUE) \in AccessType /\ Rxen(FALSE) \in AccessType
        /\ Read("EREVID") \in AccessType /\ Set("MACON1") \in AccessType
    BY <1>0, AccessTypes, Zenon
  <1>1. BufferRegisterInit \in Seq(AccessType) /\ Ready(BufferRegisterInit, 4)
    <2> DEFINE q == BufferRegisterInit
    <2>1. q \in Seq(AccessType) BY <1>t, Tuples, Zenon DEF BufferRegisterInit
    <2>2. /\ Len(q) = 4 /\ q[1] = Bank(0) /\ q[2] = Write("ERXST")
          /\ q[3] = Write("ERXND") /\ q[4] = Write("ERXRDPT")
      BY DEF BufferRegisterInit
    <2> HIDE DEF q
    <2>3. Len(q) >= 1 /\ q[1].op = "bank" /\ q[1].bank = 0 BY <2>2 DEF Bank
    <2>4. \A i \in 2..Len(q) : q[i].op = "write" /\ q[i].reg \in Banks[1]
      BY <2>2 DEF Write, Banks
    <2>5. \A i \in 2..Len(q) : q[i].op # "bank" /\ (Free(q[i]) \/ Fits(q[i], 0))
      BY <2>4 DEF Fits
    <2> QED BY <1>0, <2>1, <2>3, <2>5, OneBank, Zenon DEF q
  <1>2. ReceiveFilterInit \in Seq(AccessType) /\ Ready(ReceiveFilterInit, 4)
    <2> DEFINE q == ReceiveFilterInit
    <2>1. q \in Seq(AccessType) BY <1>t, Tuples, Zenon DEF ReceiveFilterInit
    <2>2. Len(q) = 2 /\ q[1] = Bank(1) /\ q[2] = Write("ERXFCON")
      BY DEF ReceiveFilterInit
    <2> HIDE DEF q
    <2>3. Len(q) >= 1 /\ q[1].op = "bank" /\ q[1].bank = 1 BY <2>2 DEF Bank
    <2>4. \A i \in 2..Len(q) : q[i].op = "write" /\ q[i].reg \in Banks[2]
      BY <2>2 DEF Write, Banks
    <2>5. \A i \in 2..Len(q) : q[i].op # "bank" /\ (Free(q[i]) \/ Fits(q[i], 1))
      BY <2>4 DEF Fits
    <2> QED BY <1>0, <2>1, <2>3, <2>5, OneBank, Zenon DEF q
  <1>3. ReadMac \in Seq(AccessType) /\ Ready(ReadMac, 4)
    <2> DEFINE q == ReadMac
    <2>1. q \in Seq(AccessType) BY <1>t, Tuples, Zenon DEF ReadMac
    <2>2. Len(q) = 2 /\ q[1] = Bank(3) /\ q[2] = Read("MAC_ADD") BY DEF ReadMac
    <2> HIDE DEF q
    <2>3. Len(q) >= 1 /\ q[1].op = "bank" /\ q[1].bank = 3 BY <2>2 DEF Bank
    <2>4. \A i \in 2..Len(q) : q[i].op = "read" /\ q[i].reg \in Banks[4]
      BY <2>2 DEF Read, Banks
    <2>5. \A i \in 2..Len(q) : q[i].op # "bank" /\ (Free(q[i]) \/ Fits(q[i], 3))
      BY <2>4 DEF Fits
    <2> QED BY <1>0, <2>1, <2>3, <2>5, OneBank, Zenon DEF q
  <1>4. BeginPacketTransfer \in Seq(AccessType) /\ Ready(BeginPacketTransfer, 4)
    <2> DEFINE q == BeginPacketTransfer
    <2>1. q \in Seq(AccessType) BY <1>t, Tuples, Zenon DEF BeginPacketTransfer
    <2>2. /\ Len(q) = 6 /\ q[1] = Bank(0) /\ q[2] = Write("ERDPT") /\ q[3] = Set("EIE")
          /\ q[4] = Clear("EIR") /\ q[5] = Set("ECON2") /\ q[6] = Rxen(TRUE)
      BY DEF BeginPacketTransfer
    <2> HIDE DEF q
    <2>3. Len(q) >= 1 /\ q[1].op = "bank" /\ q[1].bank = 0 BY <2>2 DEF Bank
    <2>4. /\ q[2].op = "write" /\ q[2].reg \in Banks[1]
          /\ q[3].op = "set" /\ q[3].reg \in Common
          /\ q[4].op = "clear" /\ q[4].reg \in Common
          /\ q[5].op = "set" /\ q[5].reg \in Common /\ q[6].op = "rxen"
      BY <2>2 DEF Write, Set, Clear, Rxen, Banks, Common
    <2>5. /\ Fits(q[2], 0) /\ Free(q[3]) /\ Free(q[4]) /\ Free(q[5]) /\ Free(q[6])
          /\ q[2].op # "bank" /\ q[3].op # "bank" /\ q[4].op # "bank"
          /\ q[5].op # "bank" /\ q[6].op # "bank"
      BY <2>4 DEF Fits, Free
    <2>6. \A i \in 2..Len(q) : i \in {2, 3, 4, 5, 6} BY <2>2
    <2>7. \A i \in 2..Len(q) : q[i].op # "bank" /\ (Free(q[i]) \/ Fits(q[i], 0))
      BY <2>5, <2>6, Zenon
    <2> QED BY <1>0, <2>1, <2>3, <2>7, OneBank, Zenon DEF q
  <1>5. EndPacketTransfer \in Seq(AccessType) /\ Ready(EndPacketTransfer, 4)
    <2> DEFINE q == EndPacketTransfer
    <2>1. q \in Seq(AccessType) BY <1>t, Tuples, Zenon DEF EndPacketTransfer
    <2>2. Len(q) = 2 /\ q[1] = Bank(0) /\ q[2] = Rxen(FALSE) BY DEF EndPacketTransfer
    <2> HIDE DEF q
    <2>3. Len(q) >= 1 /\ q[1].op = "bank" /\ q[1].bank = 0 BY <2>2 DEF Bank
    <2>4. \A i \in 2..Len(q) : q[i].op = "rxen" BY <2>2 DEF Rxen
    <2>5. \A i \in 2..Len(q) : q[i].op # "bank" /\ (Free(q[i]) \/ Fits(q[i], 0))
      BY <2>4 DEF Free
    <2> QED BY <1>0, <2>1, <2>3, <2>5, OneBank, Zenon DEF q
  <1>6. /\ << Bank(3), Read("EREVID") >> \in Seq(AccessType)
        /\ Ready(<< Bank(3), Read("EREVID") >>, 4)
    <2> DEFINE q == << Bank(3), Read("EREVID") >>
    <2>1. q \in Seq(AccessType) BY <1>t, Tuples, Zenon
    <2>2. Len(q) = 2 /\ q[1] = Bank(3) /\ q[2] = Read("EREVID") OBVIOUS
    <2> HIDE DEF q
    <2>3. Len(q) >= 1 /\ q[1].op = "bank" /\ q[1].bank = 3 BY <2>2 DEF Bank
    <2>4. \A i \in 2..Len(q) : q[i].op = "read" /\ q[i].reg \in Banks[4]
      BY <2>2 DEF Read, Banks
    <2>5. \A i \in 2..Len(q) : q[i].op # "bank" /\ (Free(q[i]) \/ Fits(q[i], 3))
      BY <2>4 DEF Fits
    <2> QED BY <1>0, <2>1, <2>3, <2>5, OneBank, Zenon DEF q
  <1>7. /\ << Bank(2), Set("MACON1") >> \in Seq(AccessType)
        /\ Ready(<< Bank(2), Set("MACON1") >>, 4)
    <2> DEFINE q == << Bank(2), Set("MACON1") >>
    <2>1. q \in Seq(AccessType) BY <1>t, Tuples, Zenon
    <2>2. Len(q) = 2 /\ q[1] = Bank(2) /\ q[2] = Set("MACON1") OBVIOUS
    <2> HIDE DEF q
    <2>3. Len(q) >= 1 /\ q[1].op = "bank" /\ q[1].bank = 2 BY <2>2 DEF Bank
    <2>4. \A i \in 2..Len(q) : q[i].op = "set" /\ q[i].reg \in Banks[3]
      BY <2>2 DEF Set, Banks
    <2>5. \A i \in 2..Len(q) : q[i].op # "bank" /\ (Free(q[i]) \/ Fits(q[i], 2))
      BY <2>4 DEF Fits
    <2> QED BY <1>0, <2>1, <2>3, <2>5, OneBank, Zenon DEF q
  <1> QED BY <1>1, <1>2, <1>3, <1>4, <1>5, <1>6, <1>7

(* The parts of MacInitRest.                                               *)
LEMMA RestTypes ==
    ASSUME NEW full \in BOOLEAN
    PROVE  /\ << SetMacon3(full), Set("MACON4"), Write("MAMXFL"),
                 Write("MABBIPG"), Write("MAIPGL") >> \in Seq(AccessType)
           /\ (IF full THEN <<>> ELSE << Write("MAIPGH") >>) \in Seq(AccessType)
           /\ << Bank(3), Write("MAC_ADD"), Bank(0) >> \in Seq(AccessType)
  <1>1. /\ 0 \in 0..3 /\ 3 \in 0..3
        /\ {"MACON4", "MAMXFL", "MABBIPG", "MAIPGL", "MAIPGH", "MAC_ADD"} \subseteq Registers
    BY DEF Registers, Banks
  <1>2. /\ Bank(0) \in AccessType /\ Bank(3) \in AccessType /\ SetMacon3(full) \in AccessType
        /\ Set("MACON4") \in AccessType /\ Write("MAMXFL") \in AccessType
        /\ Write("MABBIPG") \in AccessType /\ Write("MAIPGL") \in AccessType
        /\ Write("MAIPGH") \in AccessType /\ Write("MAC_ADD") \in AccessType
    BY <1>1, AccessTypes, Zenon
  <1> QED BY <1>2, Tuples, Zenon

(* priv_enc28_do_mac_init: PHCON1 is used with bank 2 selected, and the    *)
(* rest of the function counts on that.                                    *)
LEMMA MacLists ==
    /\ MacInit \in Seq(AccessType) /\ Ready(MacInit, 4)
    /\ \A full \in BOOLEAN :
          MacInitRest(full) \in Seq(AccessType) /\ Ready(MacInitRest(full), 2)
  <1>0. /\ 0 \in 0..3 /\ 2 \in 0..3 /\ 3 \in 0..3
        /\ "PHCON1" \in {"PHCON1", "PHID1", "PHID2"}
        /\ "duplex" \in {"poll_clock", "poll_busy", "read_mird", "duplex"}
    OBVIOUS
  <1>1. MacInit \in Seq(AccessType) /\ Ready(MacInit, 4)
    <2> DEFINE p == << Bank(2), Set("MACON1") >>
               r == ReadPhy("PHCON1")
               d == << Other("duplex") >>
    <2>1. p \in Seq(AccessType) /\ Ready(p, 4) BY ShortLists
    <2>2. /\ r \in Seq(AccessType) /\ Ready(r, 4) /\ Selected(r, Len(r) + 1, 4, 2)
          /\ Len(r) + 1 \in 1..(Len(r) + 1)
      <3>1. r \in Seq(AccessType) /\ Ready(r, 4) /\ Selected(r, Len(r) + 1, 4, 2)
        BY <1>0, ReadPhyReady, Zenon
      <3> HIDE DEF r
      <3>2. Len(r) \in Nat BY <3>1
      <3> QED BY <3>1, <3>2
    <2>3. d \in Seq(AccessType) /\ Ready(d, 2)
      <3>1. d \in Seq(AccessType)
        <4>1. Other("duplex") \in AccessType BY <1>0, AccessTypes, Zenon
        <4> QED BY <4>1, Tuples, Zenon
      <3>2. Len(d) = 1 /\ d[1].op = "duplex" BY DEF Other
      <3> HIDE DEF d
      <3>3. \A i \in 1..Len(d) : d[i].op # "bank" /\ (Free(d[i]) \/ Fits(d[i], 2))
        BY <3>2 DEF Fits
      <3> QED BY <1>0, <3>1, <3>3, NoBank, Zenon
    <2> HIDE DEF p, r, d
    <2>4. p \o r \in Seq(AccessType) /\ Ready(p \o r, 4)
          /\ Len(p \o r) + 1 = Len(p) + (Len(r) + 1)
      <3>1. p \o r \in Seq(AccessType) /\ Len(p \o r) + 1 = Len(p) + (Len(r) + 1)
        BY <2>1, <2>2
      <3>2. Ready(p \o r, 4) BY <2>1, <2>2, ReadyConcat, Zenon
      <3> QED BY <3>1, <3>2
    <2>5. Selected(p \o r, Len(p) + (Len(r) + 1), 4, 2)
      BY <1>0, <2>1, <2>2, SelectedConcat, Zenon
    <2>6. Selected(p \o r, Len(p \o r) + 1, 4, 2) BY <2>4, <2>5, Zenon
    <2>7. Ready((p \o r) \o d, 4) BY <2>3, <2>4, <2>6, ReadyConcat, Zenon
    <2>8. (p \o r) \o d \in Seq(AccessType) BY <2>3, <2>4
    <2> QED BY <2>7, <2>8, Zenon DEF MacInit, p, r, d
  <1>2. ASSUME NEW full \in BOOLEAN
        PROVE  MacInitRest(full) \in Seq(AccessType) /\ Ready(MacInitRest(full), 2)
    <2> DEFINE p == << SetMacon3(full), Set("MACON4"), Write("MAMXFL"),
                       Write("MABBIPG"), Write("MAIPGL") >>
               g == IF full THEN <<>> ELSE << Write("MAIPGH") >>
               m == << Bank(3), Write("MAC_ADD"), Bank(0) >>
    <2>1. p \in Seq(AccessType) /\ Ready(p, 2) /\ Selected(p, Len(p) + 1, 2, 2)
      <3>1. p \in Seq(AccessType) BY RestTypes
      <3>2. /\ Len(p) = 5 /\ p[1] = SetMacon3(full) /\ p[2] = Set("MACON4")
            /\ p[3] = Write("MAMXFL") /\ p[4] = Write("MABBIPG") /\ p[5] = Write("MAIPGL")
        OBVIOUS
      <3> HIDE DEF p
      <3>3. \A i \in 1..Len(p) : p[i].op \in {"set", "write"} /\ p[i].reg \in Banks[3]
        <4>1. /\ p[1].op = "set" /\ p[1].reg = "MACON3" /\ p[2].op = "set"
              /\ p[2].reg = "MACON4" /\ p[3].op = "write" /\ p[3].reg = "MAMXFL"
              /\ p[4].op = "write" /\ p[4].reg = "MABBIPG" /\ p[5].op = "write"
              /\ p[5].reg = "MAIPGL"
          BY <3>2 DEF SetMacon3, Set, Write
        <4>2. \A i \in 1..Len(p) : i \in {1, 2, 3, 4, 5} BY <3>2
        <4>3. {"MACON3", "MACON4", "MAMXFL", "MABBIPG", "MAIPGL"} \subseteq Banks[3]
          BY DEF Banks
        <4> QED BY <4>1, <4>2, <4>3, Zenon
      <3>4. \A i \in 1..Len(p) : p[i].op # "bank" /\ (Free(p[i]) \/ Fits(p[i], 2))
        BY <3>3 DEF Fits
      <3> QED BY <1>0, <3>1, <3>4, NoBank, Zenon
    <2>2. g \in Seq(AccessType) /\ Ready(g, 2)
      <3>1. g \in Seq(AccessType) BY RestTypes
      <3>2. \A i \in 1..Len(g) : g[i].op = "write" /\ g[i].reg \in Banks[3]
        BY DEF Write, Banks
      <3> HIDE DEF g
      <3>3. \A i \in 1..Len(g) : g[i].op # "bank" /\ (Free(g[i]) \/ Fits(g[i], 2))
        BY <3>2 DEF Fits
      <3> QED BY <1>0, <3>1, <3>3, NoBank, Zenon
    <2>3. m \in Seq(AccessType) /\ Ready(m, 4)
      <3>1. m \in Seq(AccessType) BY RestTypes
      <3>2. /\ Len(m) = 3 /\ m[1].op = "bank" /\ m[1].bank = 3 /\ m[2].op = "write"
            /\ m[2].reg \in Banks[4] /\ m[3].op = "bank"
        BY DEF Bank, Write, Banks
      <3> HIDE DEF m
      <3>3. Free(m[1]) /\ Fits(m[2], 3) /\ Free(m[3]) BY <3>2 DEF Free, Fits
      <3>4. Selected(m, 2, 4, 3)
        <4>1. 1 \in 1..(2 - 1) /\ \A k \in (1 + 1)..(2 - 1) : FALSE OBVIOUS
        <4> QED BY <3>2, <4>1 DEF Selected
      <3>5. \A i \in 1..Len(m) : i \in {1, 2, 3} BY <3>2
      <3>6. Ready(m, 4) BY <1>0, <3>3, <3>4, <3>5, Zenon DEF Ready
      <3> QED BY <3>1, <3>6
    <2> HIDE DEF p, g, m
    <2>4. p \o g \in Seq(AccessType) /\ (p \o g) \o m \in Seq(AccessType)
      BY <2>1, <2>2, <2>3
    <2>5. Ready(p \o g, 2) BY <2>1, <2>2, ReadyConcat, Zenon
    <2>6. Ready((p \o g) \o m, 2) BY <2>3, <2>4, <2>5, ReadyConcat, Zenon
    <2> QED BY <2>4, <2>6, Zenon DEF MacInitRest, p, g, m
  <1> QED BY <1>1, <1>2

(* enc28_do_init and enc28_do_read_hw_rev.                                 *)
LEMMA LongLists ==
    /\ DoInit \in Seq(AccessType) /\ Ready(DoInit, 4)
    /\ ReadHwRev \in Seq(AccessType) /\ Ready(ReadHwRev, 4)
  <1>1. DoInit \in Seq(AccessType) /\ Ready(DoInit, 4)
    <2> DEFINE c == << Other("poll_clock") >>
    <2>1. c \in Seq(AccessType) /\ Ready(c, 4)
      <3>1. c \in Seq(AccessType)
        <4>1. "poll_clock" \in {"poll_clock", "poll_busy", "read_mird", "duplex"} OBVIOUS
        <4>2. Other("poll_clock") \in AccessType BY <4>1, AccessTypes, Zenon
        <4> QED BY <4>2, Tuples, Zenon
      <3>2. Len(c) = 1 /\ c[1].op = "poll_clock" BY DEF Other
      <3> HIDE DEF c
      <3>3. \A i \in 1..Len(c) : Free(c[i]) BY <3>2 DEF Free
      <3>4. Ready(c, 4) BY <3>3, Zenon DEF Ready
      <3> QED BY <3>1, <3>4
    <2> HIDE DEF c
    <2>2. BufferRegisterInit \o ReceiveFilterInit \in Seq(AccessType)
      BY ShortLists
    <2>3. Ready(BufferRegisterInit \o ReceiveFilterInit, 4)
      BY ShortLists, ReadyConcat, Zenon
    <2>4. (BufferRegisterInit \o ReceiveFilterInit) \o c \in Seq(AccessType)
      BY <2>1, <2>2
    <2>5. Ready((BufferRegisterInit \o ReceiveFilterInit) \o c, 4)
      BY <2>1, <2>2, <2>3, ReadyConcat, Zenon
    <2>6. MacInit \in Seq(AccessType) /\ Ready(MacInit, 4) BY MacLists
    <2>7. ((BufferRegisterInit \o ReceiveFilterInit) \o c) \o MacInit \in Seq(AccessType)
      BY <2>4, <2>6
    <2>8. Ready(((BufferRegisterInit \o ReceiveFilterInit) \o c) \o MacInit, 4)
      BY <2>4, <2>5, <2>6, ReadyConcat, Zenon
    <2> QED BY <2>7, <2>8, Zenon DEF DoInit, c
  <1>2. ReadHwRev \in Seq(AccessType) /\ Ready(ReadHwRev, 4)
    <2> DEFINE a == ReadPhy("PHID1")
               b == ReadPhy("PHID2")
               e == << Bank(3), Read("EREVID") >>
    <2>0. {"PHID1", "PHID2"} \subseteq {"PHCON1", "PHID1", "PHID2"} OBVIOUS
    <2>1. a \in Seq(AccessType) /\ Ready(a, 4) BY <2>0, ReadPhyReady, Zenon
    <2>2. b \in Seq(AccessType) /\ Ready(b, 4) BY <2>0, ReadPhyReady, Zenon
    <2>3. e \in Seq(AccessType) /\ Ready(e, 4) BY ShortLists
    <2> HIDE DEF a, b, e
    <2>4. a \o b \in Seq(AccessType) /\ (a \o b) \o e \in Seq(AccessType)
      BY <2>1, <2>2, <2>3
    <2>5. Ready(a \o b, 4) BY <2>1, <2>2, ReadyConcat, Zenon
    <2>6. Ready((a \o b) \o e, 4) BY <2>3, <2>4, <2>5, ReadyConcat, Zenon
    <2> QED BY <2>4, <2>6, Zenon DEF ReadHwRev, a, b, e
  <1> QED BY <1>1, <1>2

-----------------------------------------------------------------------------
(* The bank is the right one at every access.                              *)

BankInv ==
    /\ todo \in Seq(AccessType)
    /\ hwBank \in 0..3 /\ currBank \in 0..3 /\ duplex \in BOOLEAN
    /\ Ready(todo, Agreed)
    /\ access.got = access.want /\ access.well

(* The next access is of a kind that works in the bank that is selected.   *)
LEMMA HeadReady ==
    ASSUME BankInv, todo # <<>>
    PROVE  /\ Head(todo) \in AccessType /\ Tail(todo) \in Seq(AccessType)
           /\ Ready(Tail(todo), IF Head(todo).op = "bank" THEN Head(todo).bank ELSE Agreed)
           /\ \/ Free(Head(todo))
              \/ \E c \in 0..3 : Fits(Head(todo), c) /\ hwBank = c /\ currBank = c
  <1>1. todo \in Seq(AccessType) /\ Ready(todo, Agreed) BY DEF BankInv
  <1>2. /\ Head(todo) = todo[1] /\ Head(todo) \in AccessType
        /\ Tail(todo) \in Seq(AccessType) /\ Len(todo) \in Nat /\ Len(todo) >= 1
    BY <1>1, TailFacts
  <1>3. Ready(Tail(todo), IF Head(todo).op = "bank" THEN Head(todo).bank ELSE Agreed)
    BY <1>1, ReadyTail, Zenon
  <1>4. 1 \in 1..Len(todo) BY <1>2
  <1>5. \A c \in 0..3 : Selected(todo, 1, Agreed, c) => hwBank = c /\ currBank = c
    <2>1. \A j \in 1..(1 - 1) : FALSE OBVIOUS
    <2>2. \A c \in 0..3 : Agreed = c => hwBank = c /\ currBank = c BY DEF Agreed
    <2> QED BY <2>1, <2>2 DEF Selected
  <1> QED BY <1>1, <1>2, <1>3, <1>4, <1>5, Zenon DEF Ready

(* What an access of a register does to the history.                       *)
LEMMA AccessRight ==
    ASSUME BankInv, NEW r, NEW read \in BOOLEAN, Access(r, read),
           r \in Common \/ \E c \in 0..3 : r \in Banks[c + 1] /\ hwBank = c /\ currBank = c
    PROVE  access'.got = access'.want /\ access'.well
  <1>1. Reached(r) = r /\ ReadsWell(r)
    BY CommonReached, BankedReached, Zenon DEF BankInv
  <1> QED BY <1>1, Zenon DEF Access

(* An access other than the choice of a bank keeps the invariant when it   *)
(* is to the right register.                                               *)
LEMMA StaysReady ==
    ASSUME BankInv, NEW op, NEW r, NEW read \in BOOLEAN, Do(op, r, read), op # "bank",
           UNCHANGED bank,
           r \in Common \/ \E c \in 0..3 : r \in Banks[c + 1] /\ hwBank = c /\ currBank = c
    PROVE  BankInv'
  <1>1. /\ todo # <<>> /\ Head(todo).op # "bank" /\ todo' = Tail(todo)
        /\ Access(r, read) /\ hwBank' = hwBank /\ currBank' = currBank
        /\ duplex' = duplex
    BY DEF Do, bank
  <1>2. todo' \in Seq(AccessType) /\ Ready(todo', Agreed) BY <1>1, HeadReady
  <1>3. Agreed' = Agreed BY <1>1 DEF Agreed
  <1>4. access'.got = access'.want /\ access'.well BY <1>1, AccessRight, Zenon
  <1> QED BY <1>1, <1>2, <1>3, <1>4 DEF BankInv

(* The register of the next access.                                        *)
LEMMA RegFits ==
    ASSUME BankInv, todo # <<>>, Head(todo).op \in {"write", "set", "read", "clear"}
    PROVE  Reg \in Common \/ \E c \in 0..3 : Reg \in Banks[c + 1] /\ hwBank = c /\ currBank = c
  <1>1. \/ Free(Head(todo))
        \/ \E c \in 0..3 : Fits(Head(todo), c) /\ hwBank = c /\ currBank = c
    BY HeadReady
  <1> QED BY <1>1 DEF Free, Fits, Reg

(* The accesses of the MII.                                                *)
LEMMA MiiFits ==
    ASSUME BankInv, todo # <<>>
    PROVE  /\ Head(todo).op = "poll_busy" =>
                 \E c \in 0..3 : "MISTAT" \in Banks[c + 1] /\ hwBank = c /\ currBank = c
           /\ Head(todo).op \in {"miregadr", "micmd", "read_mird", "duplex"} =>
                 \E c \in 0..3 : /\ c = 2 /\ {"MIREGADR", "MICMD", "MIRD"} \subseteq Banks[c + 1]
                                 /\ hwBank = c /\ currBank = c
  <1>1. \/ Free(Head(todo))
        \/ \E c \in 0..3 : Fits(Head(todo), c) /\ hwBank = c /\ currBank = c
    BY HeadReady
  <1>2. "MISTAT" \in Banks[3 + 1] /\ {"MIREGADR", "MICMD", "MIRD"} \subseteq Banks[2 + 1]
    BY DEF Banks
  <1> HIDE DEF Banks
  <1> QED BY <1>1, <1>2 DEF Free, Fits

(* Whatever a program calls, and in whatever order, the accesses of the    *)
(* driver are made with their bank selected.                               *)
THEOREM BankInvariant == Spec => []BankInv
  <1>1. Init => BankInv
    <2> SUFFICES ASSUME Init PROVE BankInv OBVIOUS
    <2>1. todo = <<>> /\ hwBank \in 0..3 /\ currBank \in 0..3 /\ duplex \in BOOLEAN
          /\ access.got = access.want /\ access.well
      BY DEF Init
    <2>2. todo \in Seq(AccessType) BY <2>1
    <2>3. \A i \in 1..Len(todo) : FALSE BY <2>1
    <2>4. Ready(todo, Agreed) BY <2>3, Zenon DEF Ready
    <2> QED BY <2>1, <2>2, <2>4 DEF BankInv
  <1>2. BankInv /\ [Next]_vars => BankInv'
    <2> SUFFICES ASSUME BankInv, [Next]_vars PROVE BankInv' OBVIOUS
    <2>e. Ready(<<>>, Agreed') /\ <<>> \in Seq(AccessType)
      <3>1. \A i \in 1..Len(<<>>) : FALSE OBVIOUS
      <3>2. \A b : Ready(<<>>, b) BY <3>1, Zenon DEF Ready
      <3> QED BY <3>2
    <2>0. ASSUME UNCHANGED <<hwBank, currBank, duplex, todo, access>> PROVE BankInv'
      BY <2>0 DEF BankInv, Ready, Selected, Agreed
    <2>c. ASSUME NEW from, NEW to, NEW q, Call(from, to, q), q \in Seq(AccessType),
                 Ready(q, 4)
          PROVE  BankInv'
      <3>1. /\ todo' = q /\ hwBank' = hwBank /\ currBank' = currBank /\ access' = access
            /\ duplex' = duplex
        BY <2>c DEF Call, chip
      <3>2. Ready(q, Agreed') BY <2>c, ReadyAnywhere, Zenon
      <3> QED BY <2>c, <3>1, <3>2 DEF BankInv
    <2>1. CASE SoftReset
      <3>1. /\ todo' = <<>> /\ hwBank' = 0 /\ currBank' = currBank /\ access' = access
            /\ duplex' = duplex
        BY <2>1 DEF SoftReset, Advance
      <3> QED BY <2>e, <3>1 DEF BankInv
    <2>2. CASE CallInit BY <2>2, <2>c, LongLists, Zenon DEF CallInit
    <2>3. CASE CallHwRev BY <2>3, <2>c, LongLists, Zenon DEF CallHwRev
    <2>4. CASE CallBegin BY <2>4, <2>c, ShortLists, Zenon DEF CallBegin
    <2>5. CASE CallReadMac BY <2>5, <2>c, ShortLists, Zenon DEF CallReadMac
    <2>6. CASE CallEnd BY <2>6, <2>c, ShortLists, Zenon DEF CallEnd
    <2>7. CASE CreatePacketTask BY <2>7, <2>0 DEF CreatePacketTask, Step, chip
    <2>8. CASE CreateIpTask \/ CreateQueues \/ StartScheduler
      BY <2>8, <2>0 DEF CreateIpTask, CreateQueues, StartScheduler, Step, chip
    <2>9. CASE SelectBank
      <3> DEFINE h == Head(todo)
      <3>1. /\ todo # <<>> /\ h.op = "bank" /\ todo' = Tail(todo)
            /\ Access("ECON1", TRUE) /\ hwBank' = h.bank /\ currBank' = h.bank
            /\ duplex' = duplex
        BY <2>9 DEF SelectBank, Do
      <3>2. h \in AccessType /\ todo' \in Seq(AccessType) /\ Ready(todo', h.bank)
        BY <3>1, HeadReady
      <3>3. h.bank \in 0..3 BY <3>1, <3>2 DEF AccessType
      <3>4. Agreed' = h.bank BY <3>1 DEF Agreed
      <3>5. "ECON1" \in Common /\ TRUE \in BOOLEAN BY DEF Common
      <3>6. access'.got = access'.want /\ access'.well BY <3>1, <3>5, AccessRight, Zenon
      <3> QED BY <3>1, <3>2, <3>3, <3>4, <3>6 DEF BankInv
    <2>w. TRUE \in BOOLEAN /\ FALSE \in BOOLEAN /\ "ECON1" \in Common /\ "ESTAT" \in Common
      BY DEF Common
    <2>10. CASE WriteReg
      <3>1. Do("write", Reg, FALSE) /\ UNCHANGED bank /\ todo # <<>> /\ "write" # "bank"
            /\ Head(todo).op \in {"write", "set", "read", "clear"}
        BY <2>10 DEF WriteReg, Do
      <3> QED BY <2>w, <3>1, RegFits, StaysReady, Zenon
    <2>11. CASE SetBits
      <3>1. Do("set", Reg, FALSE) /\ UNCHANGED bank /\ todo # <<>> /\ "set" # "bank"
            /\ Head(todo).op \in {"write", "set", "read", "clear"}
        BY <2>11 DEF SetBits, Do
      <3> QED BY <2>w, <3>1, RegFits, StaysReady, Zenon
    <2>12. CASE SetRxen
      <3>1. Do("rxen", "ECON1", FALSE) /\ UNCHANGED bank /\ "rxen" # "bank"
        BY <2>12 DEF SetRxen
      <3> QED BY <2>w, <3>1, StaysReady, Zenon
    <2>13. CASE ReadOrClear
      <3>1. CASE Do("read", Reg, TRUE)
        <4>1. UNCHANGED bank /\ todo # <<>> /\ "read" # "bank"
              /\ Head(todo).op \in {"write", "set", "read", "clear"}
          BY <2>13, <3>1 DEF ReadOrClear, Do
        <4> QED BY <2>w, <3>1, <4>1, RegFits, StaysReady, Zenon
      <3>2. CASE Do("clear", Reg, FALSE)
        <4>1. UNCHANGED bank /\ todo # <<>> /\ "clear" # "bank"
              /\ Head(todo).op \in {"write", "set", "read", "clear"}
          BY <2>13, <3>2 DEF ReadOrClear, Do
        <4> QED BY <2>w, <3>2, <4>1, RegFits, StaysReady, Zenon
      <3> QED BY <2>13, <3>1, <3>2 DEF ReadOrClear
    <2>14. CASE PollClock
      <3>1. Do("poll_clock", "ESTAT", TRUE) /\ UNCHANGED bank /\ "poll_clock" # "bank"
        BY <2>14 DEF PollClock
      <3> QED BY <2>w, <3>1, StaysReady, Zenon
    <2>15. CASE WriteMiregadr
      <3>1. /\ Do("miregadr", "MIREGADR", FALSE) /\ UNCHANGED bank /\ "miregadr" # "bank"
            /\ todo # <<>> /\ Head(todo).op \in {"miregadr", "micmd", "read_mird", "duplex"}
        BY <2>15 DEF WriteMiregadr, Do
      <3>2. \E c \in 0..3 : "MIREGADR" \in Banks[c + 1] /\ hwBank = c /\ currBank = c
        BY <3>1, MiiFits, Zenon
      <3> QED BY <2>w, <3>1, <3>2, StaysReady, Zenon
    <2>16. CASE WriteMicmd
      <3>1. /\ Do("micmd", "MICMD", FALSE) /\ UNCHANGED bank /\ "micmd" # "bank"
            /\ todo # <<>> /\ Head(todo).op \in {"miregadr", "micmd", "read_mird", "duplex"}
        BY <2>16 DEF WriteMicmd, Do
      <3>2. \E c \in 0..3 : "MICMD" \in Banks[c + 1] /\ hwBank = c /\ currBank = c
        BY <3>1, MiiFits, Zenon
      <3> QED BY <2>w, <3>1, <3>2, StaysReady, Zenon
    <2>17. CASE PollBusy
      <3>1. /\ Do("poll_busy", "MISTAT", TRUE) /\ UNCHANGED bank /\ "poll_busy" # "bank"
            /\ todo # <<>> /\ Head(todo).op = "poll_busy"
        BY <2>17 DEF PollBusy, Do
      <3> QED BY <2>w, <3>1, MiiFits, StaysReady, Zenon
    <2>18. CASE ReadMird
      <3>1. /\ Do("read_mird", "MIRD", TRUE) /\ UNCHANGED bank /\ "read_mird" # "bank"
            /\ todo # <<>> /\ Head(todo).op \in {"miregadr", "micmd", "read_mird", "duplex"}
        BY <2>18 DEF ReadMird, Do
      <3>2. \E c \in 0..3 : "MIRD" \in Banks[c + 1] /\ hwBank = c /\ currBank = c
        BY <3>1, MiiFits, Zenon
      <3> QED BY <2>w, <3>1, <3>2, StaysReady, Zenon
    <2>19. CASE UseDuplex
      <3>1. PICK full \in BOOLEAN : todo' = MacInitRest(full)
        <4>1. PICK full \in IF value = "PHCON1" THEN {duplex} ELSE BOOLEAN :
                      todo' = MacInitRest(full)
          BY <2>19 DEF UseDuplex
        <4> QED BY <4>1 DEF BankInv
      <3>2. /\ todo # <<>> /\ Head(todo).op = "duplex"
            /\ hwBank' = hwBank /\ currBank' = currBank /\ access' = access
            /\ duplex' = duplex
        BY <2>19 DEF UseDuplex, Other, chip
      <3>3. hwBank = 2 /\ currBank = 2 BY <3>2, MiiFits
      <3>4. Agreed' = 2 BY <3>2, <3>3 DEF Agreed
      <3>5. todo' \in Seq(AccessType) /\ Ready(todo', 2) BY <3>1, MacLists, Zenon
      <3> QED BY <3>2, <3>4, <3>5 DEF BankInv
    <2>20. CASE ClockStable BY <2>20, <2>0 DEF ClockStable
    <2>21. CASE MiiDone BY <2>21, <2>0 DEF MiiDone
    <2>22. CASE FrameInterrupt BY <2>22, <2>0 DEF FrameInterrupt, chip
    <2>23. CASE UNCHANGED vars BY <2>23, <2>0 DEF vars, chip
    <2> QED BY <2>1, <2>2, <2>3, <2>4, <2>5, <2>6, <2>7, <2>8, <2>9, <2>10, <2>11, <2>12,
               <2>13, <2>14, <2>15, <2>16, <2>17, <2>18, <2>19, <2>20, <2>21, <2>22, <2>23
            DEF Next, Driver
  <1> QED BY <1>1, <1>2, PTL DEF Spec

(* No access reaches another register than the one the code names.         *)
THEOREM RegistersRight == Spec => []RightRegister
  <1>1. BankInv => RightRegister BY DEF BankInv, RightRegister
  <1> QED BY <1>1, BankInvariant, PTL

(* No read takes a dummy byte for a value: enc28_do_soft_reset leaves      *)
(* priv_enc28_curr_bank behind, and nothing depends on it until the next   *)
(* call has selected a bank.                                               *)
THEOREM DummyBytes == Spec => []DummyByteSkipped
  <1>1. BankInv => DummyByteSkipped BY DEF BankInv, DummyByteSkipped
  <1> QED BY <1>1, BankInvariant, PTL

-----------------------------------------------------------------------------
(* What the lists are made of.                                             *)

OpsIn(q, T) == \A i \in 1..Len(q) : q[i].op \in T

(* Two lists put together have the accesses of both.                       *)
LEMMA OpsConcat ==
    ASSUME NEW S, NEW p \in Seq(S), NEW q \in Seq(S), NEW T, OpsIn(p, T), OpsIn(q, T)
    PROVE  OpsIn(p \o q, T)
  <1> DEFINE r == p \o q
  <1>0. /\ Len(p) \in Nat /\ Len(q) \in Nat /\ Len(r) = Len(p) + Len(q)
        /\ \A k \in 1..Len(p) : r[k] = p[k]
        /\ \A k \in 1..Len(q) : r[Len(p) + k] = q[k]
    BY ConcatFacts
  <1> HIDE DEF r
  <1>1. SUFFICES ASSUME NEW i \in 1..Len(r) PROVE r[i].op \in T BY DEF OpsIn, r
  <1>2. CASE i \in 1..Len(p) BY <1>0, <1>2 DEF OpsIn
  <1>3. CASE i \notin 1..Len(p)
    <2>1. i - Len(p) \in 1..Len(q) /\ Len(p) + (i - Len(p)) = i BY <1>0, <1>3
    <2> QED BY <1>0, <2>1 DEF OpsIn
  <1> QED BY <1>2, <1>3

(* Accesses that have nothing to do with the MII.                          *)
Quiet == {"bank", "write", "set", "read", "clear", "rxen", "poll_clock", "duplex"}

(* All lists but enc28_do_read_phy_register are quiet.                     *)
LEMMA QuietLists ==
    /\ OpsIn(BufferRegisterInit, Quiet \ {"rxen"}) /\ OpsIn(ReceiveFilterInit, Quiet \ {"rxen"})
    /\ OpsIn(<< Other("poll_clock") >>, Quiet \ {"rxen"})
    /\ OpsIn(<< Other("duplex") >>, Quiet \ {"rxen"})
    /\ OpsIn(<< Bank(2), Set("MACON1") >>, Quiet \ {"rxen"})
    /\ OpsIn(<< Bank(3), Read("EREVID") >>, Quiet \ {"rxen"})
    /\ OpsIn(ReadMac, Quiet) /\ OpsIn(BeginPacketTransfer, Quiet)
    /\ OpsIn(EndPacketTransfer, Quiet)
    /\ \A full \in BOOLEAN : OpsIn(MacInitRest(full), Quiet \ {"rxen"})
  <1>1. /\ OpsIn(BufferRegisterInit, Quiet \ {"rxen"})
        /\ OpsIn(ReceiveFilterInit, Quiet \ {"rxen"})
    BY DEF OpsIn, Quiet, BufferRegisterInit, ReceiveFilterInit, Bank, Write
  <1>2. /\ OpsIn(<< Other("poll_clock") >>, Quiet \ {"rxen"})
        /\ OpsIn(<< Other("duplex") >>, Quiet \ {"rxen"})
    BY DEF OpsIn, Quiet, Other
  <1>3. /\ OpsIn(<< Bank(2), Set("MACON1") >>, Quiet \ {"rxen"})
        /\ OpsIn(<< Bank(3), Read("EREVID") >>, Quiet \ {"rxen"})
    BY DEF OpsIn, Quiet, Bank, Set, Read
  <1>4. OpsIn(ReadMac, Quiet) /\ OpsIn(EndPacketTransfer, Quiet)
    BY DEF OpsIn, Quiet, ReadMac, EndPacketTransfer, Bank, Read, Rxen
  <1>5. OpsIn(BeginPacketTransfer, Quiet)
    BY DEF OpsIn, Quiet, BeginPacketTransfer, Bank, Write, Set, Clear, Rxen
  <1>6. ASSUME NEW full \in BOOLEAN PROVE OpsIn(MacInitRest(full), Quiet \ {"rxen"})
    <2> DEFINE p == << SetMacon3(full), Set("MACON4"), Write("MAMXFL"),
                       Write("MABBIPG"), Write("MAIPGL") >>
               g == IF full THEN <<>> ELSE << Write("MAIPGH") >>
               m == << Bank(3), Write("MAC_ADD"), Bank(0) >>
    <2>1. p \in Seq(AccessType) /\ g \in Seq(AccessType) /\ m \in Seq(AccessType)
      BY RestTypes
    <2>2. OpsIn(p, Quiet \ {"rxen"}) BY DEF OpsIn, Quiet, SetMacon3, Set, Write
    <2>3. OpsIn(g, Quiet \ {"rxen"}) BY DEF OpsIn, Quiet, Write
    <2>4. OpsIn(m, Quiet \ {"rxen"}) BY DEF OpsIn, Quiet, Bank, Write
    <2> HIDE DEF p, g, m
    <2>5. p \o g \in Seq(AccessType) BY <2>1
    <2>6. OpsIn(p \o g, Quiet \ {"rxen"}) BY <2>1, <2>2, <2>3, OpsConcat, Zenon
    <2>7. OpsIn((p \o g) \o m, Quiet \ {"rxen"})
      BY <2>1, <2>4, <2>5, <2>6, OpsConcat, Zenon
    <2> QED BY <2>7, Zenon DEF MacInitRest, p, g, m
  <1> QED BY <1>1, <1>2, <1>3, <1>4, <1>5, <1>6

(* Accesses that do not enable reception.                                  *)
SetupOps == {"bank", "write", "set", "read", "poll_clock", "duplex", "clear",
             "miregadr", "micmd", "poll_busy", "read_mird"}

(* Until enc28_begin_packet_transfer, nothing enables reception.           *)
LEMMA NoRxen ==
    /\ OpsIn(DoInit, SetupOps) /\ OpsIn(ReadHwRev, SetupOps)
    /\ \A full \in BOOLEAN : OpsIn(MacInitRest(full), SetupOps)
  <1>0. \A q : OpsIn(q, Quiet \ {"rxen"}) => OpsIn(q, SetupOps)
    <2>1. Quiet \ {"rxen"} \subseteq SetupOps BY DEF Quiet, SetupOps
    <2> QED BY <2>1, Zenon DEF OpsIn
  <1>1. \A f : OpsIn(ReadPhy(f), SetupOps) 
    BY DEF OpsIn, ReadPhy, Bank, MiiAddress, MiiCommand, Other, SetupOps
  <1>2. OpsIn(DoInit, SetupOps)
    <2> DEFINE b == BufferRegisterInit
               f == ReceiveFilterInit
               c == << Other("poll_clock") >>
               m == << Bank(2), Set("MACON1") >>
               r == ReadPhy("PHCON1")
               d == << Other("duplex") >>
    <2>0. /\ "PHCON1" \in {"PHCON1", "PHID1", "PHID2"}
          /\ "duplex" \in {"poll_clock", "poll_busy", "read_mird", "duplex"}
          /\ "poll_clock" \in {"poll_clock", "poll_busy", "read_mird", "duplex"}
      OBVIOUS
    <2>1. /\ b \in Seq(AccessType) /\ f \in Seq(AccessType) /\ m \in Seq(AccessType)
      BY ShortLists
    <2>2. r \in Seq(AccessType) BY <2>0, ReadPhyReady, Zenon
    <2>3. c \in Seq(AccessType) /\ d \in Seq(AccessType)
      <3>1. Other("poll_clock") \in AccessType /\ Other("duplex") \in AccessType
        BY <2>0, AccessTypes, Zenon
      <3> QED BY <3>1, Tuples, Zenon
    <2>4. /\ OpsIn(b, SetupOps) /\ OpsIn(f, SetupOps) /\ OpsIn(c, SetupOps)
          /\ OpsIn(m, SetupOps) /\ OpsIn(r, SetupOps)
          /\ OpsIn(d, SetupOps)
      BY <1>0, <1>1, QuietLists, Zenon
    <2> HIDE DEF b, f, c, m, r, d
    <2>5. /\ b \o f \in Seq(AccessType) /\ (b \o f) \o c \in Seq(AccessType)
          /\ m \o r \in Seq(AccessType) /\ (m \o r) \o d \in Seq(AccessType)
      BY <2>1, <2>2, <2>3
    <2>6. OpsIn(b \o f, SetupOps) /\ OpsIn(m \o r, SetupOps)
      BY <2>1, <2>2, <2>4, OpsConcat, Zenon
    <2>7. OpsIn((b \o f) \o c, SetupOps) /\ OpsIn((m \o r) \o d, SetupOps)
      BY <2>3, <2>4, <2>5, <2>6, OpsConcat, Zenon
    <2>8. OpsIn(((b \o f) \o c) \o ((m \o r) \o d), SetupOps)
      BY <2>5, <2>7, OpsConcat, Zenon
    <2> QED BY <2>8, Zenon DEF DoInit, MacInit, b, f, c, m, r, d
  <1>3. OpsIn(ReadHwRev, SetupOps)
    <2> DEFINE a == ReadPhy("PHID1")
               b == ReadPhy("PHID2")
               e == << Bank(3), Read("EREVID") >>
    <2>0. {"PHID1", "PHID2"} \subseteq {"PHCON1", "PHID1", "PHID2"} OBVIOUS
    <2>1. a \in Seq(AccessType) /\ b \in Seq(AccessType) BY <2>0, ReadPhyReady, Zenon
    <2>2. e \in Seq(AccessType) BY ShortLists
    <2>3. OpsIn(a, SetupOps) /\ OpsIn(b, SetupOps) /\ OpsIn(e, SetupOps)
      BY <1>0, <1>1, QuietLists, Zenon
    <2> HIDE DEF a, b, e
    <2>4. a \o b \in Seq(AccessType) BY <2>1
    <2>5. OpsIn(a \o b, SetupOps) BY <2>1, <2>3, OpsConcat, Zenon
    <2>6. OpsIn((a \o b) \o e, SetupOps) BY <2>2, <2>3, <2>4, <2>5, OpsConcat, Zenon
    <2> QED BY <2>6, Zenon DEF ReadHwRev, a, b, e
  <1>4. \A full \in BOOLEAN : OpsIn(MacInitRest(full), SetupOps)
    BY <1>0, QuietLists, Zenon
  <1> QED BY <1>2, <1>3, <1>4

(* Working off a list adds no accesses.                                    *)
LEMMA OpsTail ==
    ASSUME NEW S, NEW q \in Seq(S), q # <<>>, NEW T, OpsIn(q, T)
    PROVE  Head(q).op \in T /\ OpsIn(Tail(q), T)
  <1>1. /\ Len(q) \in Nat /\ Len(q) >= 1 /\ Head(q) = q[1] /\ Len(Tail(q)) = Len(q) - 1
        /\ \A i \in 1..(Len(q) - 1) : Tail(q)[i] = q[i + 1]
    BY TailFacts
  <1>2. 1 \in 1..Len(q) /\ \A i \in 1..(Len(q) - 1) : i + 1 \in 1..Len(q) BY <1>1
  <1> QED BY <1>1, <1>2, Zenon DEF OpsIn

(* The accesses ...                                                        *)
Work ==
    \/ SelectBank \/ WriteReg \/ SetBits \/ SetRxen \/ ReadOrClear \/ PollClock
    \/ WriteMiregadr \/ WriteMicmd \/ PollBusy \/ ReadMird

(* ... and what all of them leave alone.                                   *)
LEMMA WorkFacts ==
    ASSUME Work
    PROVE  /\ ~asserted /\ todo # <<>> /\ todo' = Tail(todo)
           /\ UNCHANGED <<clkrdy, phyclk, duplex, stage, handle, asserted>>
           /\ Head(todo).op # "rxen" => rxen' = rxen
           /\ Head(todo).op # "set" => fulldpx' = fulldpx
           /\ programmed \subseteq programmed'
  <1>1. CASE SelectBank BY <1>1 DEF SelectBank, Do, mac
  <1>2. CASE WriteReg BY <1>2 DEF WriteReg, Do
  <1>3. CASE SetBits BY <1>3 DEF SetBits, Do
  <1>4. CASE SetRxen BY <1>4 DEF SetRxen, Do
  <1>5. CASE ReadOrClear BY <1>5 DEF ReadOrClear, Do, mac
  <1>6. CASE PollClock BY <1>6 DEF PollClock, Do, mac
  <1>7. CASE WriteMiregadr BY <1>7 DEF WriteMiregadr, Do, mac
  <1>8. CASE WriteMicmd BY <1>8 DEF WriteMicmd, Do, mac
  <1>9. CASE PollBusy BY <1>9 DEF PollBusy, Do, mac
  <1>10. CASE ReadMird BY <1>10 DEF ReadMird, Do, mac
  <1> QED BY <1>1, <1>2, <1>3, <1>4, <1>5, <1>6, <1>7, <1>8, <1>9, <1>10 DEF Work

-----------------------------------------------------------------------------
(* The stages of enc28_test_app.                                           *)

Stages == {"start", "reset", "init", "hw_rev", "begin", "packet_task", "ip_task",
           "queues", "running", "any"}

(* Those from the call of enc28_begin_packet_transfer on.                  *)
Receiving == {"begin", "packet_task", "ip_task", "queues", "running"}

(* Reception is off before them.                                           *)
StageInv ==
    /\ stage \in Stages
    /\ stage \in {"start", "reset", "init", "hw_rev"} => ~rxen /\ OpsIn(todo, SetupOps)
    /\ stage \in {"start", "reset"} => todo = <<>>

(* Every step keeps StageInv.                                               *)
LEMMA StageStep ==
    BankInv /\ StageInv /\ [Next]_vars => StageInv'
  <1> SUFFICES ASSUME BankInv, StageInv, [Next]_vars PROVE StageInv' OBVIOUS
  <1>e. OpsIn(<<>>, SetupOps) BY DEF OpsIn
  <1>0. ASSUME UNCHANGED <<stage, rxen, todo>> PROVE StageInv'
    BY <1>0 DEF StageInv, OpsIn
  <1>1. CASE SoftReset
    <2>1. todo' = <<>> /\ ~rxen' /\ stage' \in {"reset", "any"}
      BY <1>1 DEF SoftReset, Advance
    <2> QED BY <1>e, <2>1 DEF StageInv, Stages
  <1>2. CASE CallInit
    <2>1. /\ todo' = DoInit /\ rxen' = rxen
          /\ (stage = "any" /\ stage' = "any") \/ (stage = "reset" /\ stage' = "init")
      BY <1>2 DEF CallInit, Call, Advance, chip
    <2> QED BY <2>1, NoRxen DEF StageInv, Stages
  <1>3. CASE CallHwRev
    <2>1. /\ todo' = ReadHwRev /\ rxen' = rxen
          /\ (stage = "any" /\ stage' = "any") \/ (stage = "init" /\ stage' = "hw_rev")
      BY <1>3 DEF CallHwRev, Call, Advance, chip
    <2> QED BY <2>1, NoRxen DEF StageInv, Stages
  <1>4. CASE CallBegin \/ CallReadMac \/ CallEnd
    <2>1. stage' \in {"any", "begin"}
      BY <1>4 DEF CallBegin, CallReadMac, CallEnd, Call, Advance
    <2> QED BY <2>1 DEF StageInv, Stages
  <1>5. CASE CreatePacketTask \/ CreateIpTask \/ CreateQueues \/ StartScheduler
    <2>1. stage' \in {"packet_task", "ip_task", "queues", "running"}
      BY <1>5 DEF CreatePacketTask, CreateIpTask, CreateQueues, StartScheduler, Step
    <2> QED BY <2>1 DEF StageInv, Stages
  <1>7. CASE Work
    <2>1. /\ todo # <<>> /\ todo' = Tail(todo) /\ UNCHANGED stage
          /\ Head(todo).op # "rxen" => rxen' = rxen
      BY <1>7, WorkFacts
    <2>2. todo \in Seq(AccessType) BY DEF BankInv
    <2>3. OpsIn(todo, SetupOps) => Head(todo).op \in SetupOps /\ OpsIn(todo', SetupOps)
      BY <2>1, <2>2, OpsTail
    <2>4. "rxen" \notin SetupOps BY DEF SetupOps
    <2> QED BY <2>1, <2>3, <2>4 DEF StageInv
  <1>8. CASE UseDuplex
    <2>1. PICK full \in IF value = "PHCON1" THEN {duplex} ELSE BOOLEAN :
                 todo' = MacInitRest(full)
      BY <1>8 DEF UseDuplex
    <2>2. full \in BOOLEAN BY DEF BankInv
    <2>3. OpsIn(todo', SetupOps) BY <2>1, <2>2, NoRxen
    <2>4. UNCHANGED <<stage, rxen>> /\ todo # <<>>
      BY <1>8 DEF UseDuplex, chip
    <2> QED BY <2>3, <2>4 DEF StageInv
  <1>9. CASE ClockStable BY <1>9, <1>0 DEF ClockStable
  <1>10. CASE MiiDone BY <1>10, <1>0 DEF MiiDone
  <1>11. CASE FrameInterrupt BY <1>11, <1>0 DEF FrameInterrupt, chip
  <1>12. CASE UNCHANGED vars BY <1>12, <1>0 DEF vars, chip
  <1> QED BY <1>1, <1>2, <1>3, <1>4, <1>5, <1>7, <1>8, <1>9, <1>10, <1>11, <1>12
          DEF Next, Driver, Work

(* ... is an invariant of the specification.                               *)
THEOREM StageInvariant == Spec => []StageInv
  <1>1. Init => StageInv
    <2> SUFFICES ASSUME Init PROVE StageInv OBVIOUS
    <2>1. stage \in {"start", "any"} /\ ~rxen /\ todo = <<>> BY DEF Init
    <2>2. OpsIn(todo, SetupOps) BY <2>1 DEF OpsIn
    <2> QED BY <2>1, <2>2 DEF StageInv, Stages
  <1> QED BY <1>1, BankInvariant, StageStep, PTL DEF Spec

-----------------------------------------------------------------------------
(* The MII.  A read of the PHY goes through four phases; what an access    *)
(* does to them:                                                           *)

Phases == {"idle", "asked", "answered", "noted"}

Moves(a, x, b) ==
    \/ x.op = "micmd" /\ x.on /\ a = "idle" /\ b = "asked"
    \/ x.op = "poll_busy" /\ a = "asked" /\ b = "answered"
    \/ x.op = "micmd" /\ ~x.on /\ a = "answered" /\ b = "noted"
    \/ x.op = "read_mird" /\ a = "noted" /\ b = "idle"
    \/ x.op \in {"miregadr", "duplex"} /\ a = "idle" /\ b = "idle"
    \/ x.op \in Quiet \ {"duplex"} /\ a = b

(* f has the phases a list of accesses goes through; at its end, no read   *)
(* is under way.                                                           *)
Walk(q, f) ==
    /\ f \in [1..(Len(q) + 1) -> Phases]
    /\ f[Len(q) + 1] = "idle"
    /\ \A i \in 1..Len(q) : Moves(f[i], q[i], f[i + 1])
WalksFrom(q, a) == \E f : Walk(q, f) /\ f[1] = a

(* Working off a list goes on to its next phase.                           *)
LEMMA WalkTail ==
    ASSUME NEW S, NEW q \in Seq(S), q # <<>>, NEW a, WalksFrom(q, a)
    PROVE  \E b \in Phases : Moves(a, Head(q), b) /\ WalksFrom(Tail(q), b)
  <1> DEFINE t == Tail(q)
  <1>1. /\ Len(q) \in Nat /\ Len(q) >= 1 /\ Head(q) = q[1] /\ Len(t) = Len(q) - 1
        /\ \A i \in 1..(Len(q) - 1) : t[i] = q[i + 1]
    BY TailFacts
  <1>2. PICK f : Walk(q, f) /\ f[1] = a BY DEF WalksFrom
  <1> DEFINE g == [i \in 1..(Len(t) + 1) |-> f[i + 1]]
  <1> HIDE DEF t
  <1>3. 1 \in 1..Len(q) /\ 1 + 1 \in 1..(Len(q) + 1) BY <1>1
  <1>4. Moves(a, Head(q), f[1 + 1]) /\ f[1 + 1] \in Phases BY <1>1, <1>2, <1>3 DEF Walk
  <1>5. g \in [1..(Len(t) + 1) -> Phases] /\ g[1] = f[1 + 1] /\ g[Len(t) + 1] = f[Len(q) + 1]
    BY <1>1, <1>2 DEF Walk
  <1>6. ASSUME NEW i \in 1..Len(t) PROVE Moves(g[i], t[i], g[i + 1])
    <2>1. i + 1 \in 1..Len(q) /\ t[i] = q[i + 1] /\ g[i] = f[i + 1]
          /\ g[i + 1] = f[(i + 1) + 1]
      BY <1>1
    <2> QED BY <1>2, <2>1 DEF Walk
  <1> HIDE DEF g
  <1>7. Walk(t, g) BY <1>2, <1>5, <1>6 DEF Walk
  <1> QED BY <1>4, <1>5, <1>7, Zenon DEF WalksFrom, t

(* Lists that start and end idle can follow on each other.                 *)
LEMMA WalkConcat ==
    ASSUME NEW S, NEW p \in Seq(S), NEW q \in Seq(S), WalksFrom(p, "idle"),
           WalksFrom(q, "idle")
    PROVE  WalksFrom(p \o q, "idle")
  <1> DEFINE r == p \o q
  <1>0. /\ Len(p) \in Nat /\ Len(q) \in Nat /\ Len(r) = Len(p) + Len(q)
        /\ \A k \in 1..Len(p) : r[k] = p[k]
        /\ \A k \in 1..Len(q) : r[Len(p) + k] = q[k]
    BY ConcatFacts
  <1> HIDE DEF r
  <1>1. PICK f : Walk(p, f) /\ f[1] = "idle" BY DEF WalksFrom
  <1>2. PICK g : Walk(q, g) /\ g[1] = "idle" BY DEF WalksFrom
  <1> DEFINE h == [i \in 1..(Len(r) + 1) |-> IF i <= Len(p) + 1 THEN f[i] ELSE g[i - Len(p)]]
  <1>3. h \in [1..(Len(r) + 1) -> Phases]
    <2> SUFFICES ASSUME NEW i \in 1..(Len(r) + 1)
                 PROVE  (IF i <= Len(p) + 1 THEN f[i] ELSE g[i - Len(p)]) \in Phases
      OBVIOUS
    <2>1. CASE i <= Len(p) + 1
      <3>1. i \in 1..(Len(p) + 1) BY <1>0, <2>1
      <3> QED BY <1>1, <2>1, <3>1 DEF Walk
    <2>2. CASE ~(i <= Len(p) + 1)
      <3>1. i - Len(p) \in 1..(Len(q) + 1) BY <1>0, <2>2
      <3> QED BY <1>2, <2>2, <3>1 DEF Walk
    <2> QED BY <2>1, <2>2
  <1>4. h[1] = "idle" BY <1>0, <1>1
  <1>5. h[Len(r) + 1] = "idle"
    <2>1. CASE Len(q) = 0
      <3>1. Len(r) + 1 = Len(p) + 1 /\ Len(r) + 1 \in 1..(Len(r) + 1) BY <1>0, <2>1
      <3> QED BY <1>1, <3>1, <1>0 DEF Walk
    <2>2. CASE Len(q) # 0
      <3>1. /\ (Len(r) + 1) - Len(p) = Len(q) + 1 /\ ~(Len(r) + 1 <= Len(p) + 1)
            /\ Len(r) + 1 \in 1..(Len(r) + 1)
        BY <1>0, <2>2
      <3>2. h[Len(r) + 1] = g[Len(q) + 1] BY <3>1
      <3> QED BY <1>2, <3>2 DEF Walk
    <2> QED BY <2>1, <2>2
  <1>6. ASSUME NEW i \in 1..Len(r) PROVE Moves(h[i], r[i], h[i + 1])
    <2>1. CASE i \in 1..Len(p)
      <3>1. h[i] = f[i] /\ h[i + 1] = f[i + 1] /\ r[i] = p[i] BY <1>0, <2>1
      <3> QED BY <1>1, <2>1, <3>1 DEF Walk
    <2>2. CASE i = Len(p) + 1
      <3>1. 1 \in 1..Len(q) /\ r[i] = q[1] /\ h[i] = f[Len(p) + 1] /\ h[i + 1] = g[1 + 1]
        BY <1>0, <2>2
      <3>2. f[Len(p) + 1] = "idle" BY <1>1 DEF Walk
      <3> QED BY <1>2, <3>1, <3>2 DEF Walk
    <2>3. CASE i \notin 1..(Len(p) + 1)
      <3>1. /\ i - Len(p) \in 1..Len(q) /\ r[i] = q[i - Len(p)]
            /\ h[i] = g[i - Len(p)] /\ h[i + 1] = g[(i - Len(p)) + 1]
        <4>1. i - Len(p) \in 1..Len(q) /\ Len(p) + (i - Len(p)) = i BY <1>0, <2>3
        <4>2. r[i] = q[i - Len(p)] BY <1>0, <4>1
        <4>3. /\ i \in 1..(Len(r) + 1) /\ i + 1 \in 1..(Len(r) + 1) /\ ~(i <= Len(p) + 1)
              /\ ~(i + 1 <= Len(p) + 1) /\ (i + 1) - Len(p) = (i - Len(p)) + 1
          BY <1>0, <2>3
        <4> QED BY <4>1, <4>2, <4>3
      <3> QED BY <1>2, <3>1 DEF Walk
    <2>4. i \in 1..Len(p) \/ i = Len(p) + 1 \/ i \notin 1..(Len(p) + 1) BY <1>0
    <2> QED BY <2>1, <2>2, <2>3, <2>4
  <1> HIDE DEF h
  <1>7. Walk(r, h) BY <1>3, <1>5, <1>6 DEF Walk
  <1> QED BY <1>4, <1>7, Zenon DEF WalksFrom, r

(* A quiet list stays idle.                                                *)
LEMMA QuietWalk ==
    ASSUME NEW S, NEW q \in Seq(S), OpsIn(q, Quiet)
    PROVE  WalksFrom(q, "idle")
  <1>0. Len(q) \in Nat OBVIOUS
  <1> DEFINE f == [i \in 1..(Len(q) + 1) |-> "idle"]
  <1>1. f \in [1..(Len(q) + 1) -> Phases] /\ f[Len(q) + 1] = "idle" /\ f[1] = "idle"
    BY <1>0 DEF Phases
  <1>2. ASSUME NEW i \in 1..Len(q) PROVE Moves(f[i], q[i], f[i + 1])
    <2>1. f[i] = "idle" /\ f[i + 1] = "idle" BY <1>0
    <2>2. q[i].op \in Quiet BY DEF OpsIn
    <2> HIDE DEF f
    <2> QED BY <2>1, <2>2 DEF Moves
  <1> HIDE DEF f
  <1> QED BY <1>1, <1>2 DEF WalksFrom, Walk

(* The sequence of enc28_do_read_phy_register.                             *)
LEMMA PhyWalk ==
    ASSUME NEW p
    PROVE  WalksFrom(ReadPhy(p), "idle")
  <1> DEFINE q == ReadPhy(p)
             f == [i \in 1..(Len(q) + 1) |->
                      IF i \in {4, 5} THEN "asked" ELSE IF i \in {6, 7} THEN "answered"
                      ELSE IF i = 8 THEN "noted" ELSE "idle"]
  <1>1. /\ Len(q) = 8
        /\ q[1] = Bank(2) /\ q[2] = MiiAddress(p) /\ q[3] = MiiCommand(TRUE)
        /\ q[4] = Bank(3) /\ q[5] = Other("poll_busy")
        /\ q[6] = Bank(2) /\ q[7] = MiiCommand(FALSE) /\ q[8] = Other("read_mird")
    BY DEF ReadPhy
  <1> HIDE DEF q
  <1>2. /\ q[1].op = "bank" /\ q[2].op = "miregadr" /\ q[3].op = "micmd" /\ q[3].on = TRUE
        /\ q[4].op = "bank" /\ q[5].op = "poll_busy" /\ q[6].op = "bank"
        /\ q[7].op = "micmd" /\ q[7].on = FALSE /\ q[8].op = "read_mird"
    BY <1>1 DEF Bank, MiiAddress, MiiCommand, Other
  <1>3. f \in [1..(Len(q) + 1) -> Phases] BY DEF Phases
  <1>4. /\ f[1] = "idle" /\ f[2] = "idle" /\ f[3] = "idle" /\ f[4] = "asked"
        /\ f[5] = "asked" /\ f[6] = "answered" /\ f[7] = "answered" /\ f[8] = "noted"
        /\ f[9] = "idle"
    BY <1>1
  <1> HIDE DEF f
  <1>5. /\ Moves(f[1], q[1], f[2]) /\ Moves(f[2], q[2], f[3]) /\ Moves(f[3], q[3], f[4])
        /\ Moves(f[4], q[4], f[5]) /\ Moves(f[5], q[5], f[6]) /\ Moves(f[6], q[6], f[7])
        /\ Moves(f[7], q[7], f[8]) /\ Moves(f[8], q[8], f[9])
    BY <1>2, <1>4 DEF Moves, Quiet
  <1>6. \A i \in 1..Len(q) : Moves(f[i], q[i], f[i + 1])
    <2>1. \A i \in 1..Len(q) : i \in {1, 2, 3, 4, 5, 6, 7, 8} BY <1>1
    <2>2. /\ 1 + 1 = 2 /\ 2 + 1 = 3 /\ 3 + 1 = 4 /\ 4 + 1 = 5 /\ 5 + 1 = 6 /\ 6 + 1 = 7
          /\ 7 + 1 = 8 /\ 8 + 1 = 9
      OBVIOUS
    <2> QED BY <1>5, <2>1, <2>2
  <1>7. f[Len(q) + 1] = "idle" BY <1>1, <1>4
  <1>8. Walk(q, f) BY <1>3, <1>6, <1>7 DEF Walk
  <1> QED BY <1>4, <1>8 DEF WalksFrom, q

(* All lists start and end with no read under way.                         *)
LEMMA ListsWalk ==
    /\ WalksFrom(DoInit, "idle") /\ WalksFrom(ReadHwRev, "idle")
    /\ WalksFrom(BeginPacketTransfer, "idle") /\ WalksFrom(ReadMac, "idle")
    /\ WalksFrom(EndPacketTransfer, "idle") /\ WalksFrom(<<>>, "idle")
    /\ \A full \in BOOLEAN : WalksFrom(MacInitRest(full), "idle")
  <1>0. \A q : OpsIn(q, Quiet \ {"rxen"}) => OpsIn(q, Quiet) BY DEF OpsIn
  <1>1. WalksFrom(DoInit, "idle")
    <2> DEFINE b == BufferRegisterInit
               f == ReceiveFilterInit
               c == << Other("poll_clock") >>
               m == << Bank(2), Set("MACON1") >>
               r == ReadPhy("PHCON1")
               d == << Other("duplex") >>
    <2>1. /\ b \in Seq(AccessType) /\ f \in Seq(AccessType) /\ m \in Seq(AccessType)
      BY ShortLists
    <2>2. r \in Seq(AccessType)
      <3>1. "PHCON1" \in {"PHCON1", "PHID1", "PHID2"} OBVIOUS
      <3> QED BY <3>1, ReadPhyReady, Zenon
    <2>3. c \in Seq(AccessType) /\ d \in Seq(AccessType)
      <3>1. {"duplex", "poll_clock"} \subseteq {"poll_clock", "poll_busy", "read_mird", "duplex"}
        OBVIOUS
      <3>2. Other("poll_clock") \in AccessType /\ Other("duplex") \in AccessType
        BY <3>1, AccessTypes, Zenon
      <3> QED BY <3>2, Tuples, Zenon
    <2>4. OpsIn(b, Quiet) /\ OpsIn(f, Quiet) /\ OpsIn(c, Quiet) /\ OpsIn(m, Quiet)
          /\ OpsIn(d, Quiet)
      BY <1>0, QuietLists, Zenon
    <2>5. /\ WalksFrom(b, "idle") /\ WalksFrom(f, "idle") /\ WalksFrom(c, "idle")
          /\ WalksFrom(m, "idle") /\ WalksFrom(d, "idle") /\ WalksFrom(r, "idle")
      BY <2>1, <2>3, <2>4, QuietWalk, PhyWalk, Zenon
    <2> HIDE DEF b, f, c, m, r, d
    <2>6. /\ b \o f \in Seq(AccessType) /\ (b \o f) \o c \in Seq(AccessType)
          /\ m \o r \in Seq(AccessType) /\ (m \o r) \o d \in Seq(AccessType)
      BY <2>1, <2>2, <2>3
    <2>7. WalksFrom(b \o f, "idle") /\ WalksFrom(m \o r, "idle")
      BY <2>1, <2>2, <2>5, WalkConcat, Zenon
    <2>8. WalksFrom((b \o f) \o c, "idle") /\ WalksFrom((m \o r) \o d, "idle")
      BY <2>3, <2>5, <2>6, <2>7, WalkConcat, Zenon
    <2>9. WalksFrom(((b \o f) \o c) \o ((m \o r) \o d), "idle")
      BY <2>6, <2>8, WalkConcat, Zenon
    <2> QED BY <2>9, Zenon DEF DoInit, MacInit, b, f, c, m, r, d
  <1>2. WalksFrom(ReadHwRev, "idle")
    <2> DEFINE a == ReadPhy("PHID1")
               b == ReadPhy("PHID2")
               e == << Bank(3), Read("EREVID") >>
    <2>0. {"PHID1", "PHID2"} \subseteq {"PHCON1", "PHID1", "PHID2"} OBVIOUS
    <2>1. a \in Seq(AccessType) /\ b \in Seq(AccessType) BY <2>0, ReadPhyReady, Zenon
    <2>2. e \in Seq(AccessType) BY ShortLists
    <2>3. OpsIn(e, Quiet) BY <1>0, QuietLists, Zenon
    <2>4. WalksFrom(a, "idle") /\ WalksFrom(b, "idle") /\ WalksFrom(e, "idle")
      BY <2>2, <2>3, QuietWalk, PhyWalk, Zenon
    <2> HIDE DEF a, b, e
    <2>5. a \o b \in Seq(AccessType) BY <2>1
    <2>6. WalksFrom(a \o b, "idle") BY <2>1, <2>4, WalkConcat, Zenon
    <2>7. WalksFrom((a \o b) \o e, "idle") BY <2>2, <2>4, <2>5, <2>6, WalkConcat, Zenon
    <2> QED BY <2>7, Zenon DEF ReadHwRev, a, b, e
  <1>3. /\ WalksFrom(BeginPacketTransfer, "idle") /\ WalksFrom(ReadMac, "idle")
        /\ WalksFrom(EndPacketTransfer, "idle")
    BY ShortLists, QuietLists, QuietWalk, Zenon
  <1>4. WalksFrom(<<>>, "idle")
    <2>1. <<>> \in Seq(AccessType) BY Tuples, Zenon
    <2>2. OpsIn(<<>>, Quiet) BY DEF OpsIn
    <2> QED BY <2>1, <2>2, QuietWalk, Zenon
  <1>5. \A full \in BOOLEAN : WalksFrom(MacInitRest(full), "idle")
    BY <1>0, MacLists, QuietLists, QuietWalk, Zenon
  <1> QED BY <1>1, <1>2, <1>3, <1>4, <1>5

(* The state of the MII in each phase: the command bit is set only while   *)
(* an answer is awaited or just seen, and what MIRD holds from then on is  *)
(* the register that was asked for.                                        *)
InPhase(a) ==
    /\ miird <=> a \in {"asked", "answered"}
    /\ busy => a = "asked"
    /\ a # "idle" => busy \/ mird = miregadr

PhyInv ==
    /\ value \in {"nothing", miregadr}
    /\ \E a \in Phases : WalksFrom(todo, a) /\ InPhase(a)

(* The last access of a read of the PHY gives the register asked for.      *)
LEMMA MirdIsFresh ==
    ASSUME BankInv, PhyInv, ReadMird
    PROVE  value' = miregadr /\ miregadr' = miregadr
  <1>1. todo # <<>> /\ Head(todo).op = "read_mird" /\ todo \in Seq(AccessType)
    BY DEF ReadMird, Do, BankInv
  <1>2. PICK a \in Phases : WalksFrom(todo, a) /\ InPhase(a) BY DEF PhyInv
  <1>3. PICK b \in Phases : Moves(a, Head(todo), b) BY <1>1, <1>2, WalkTail, Zenon
  <1>4. a = "noted" BY <1>1, <1>3 DEF Moves, Quiet
  <1>5. ~busy /\ mird = miregadr BY <1>2, <1>4 DEF InPhase
  <1>6. PICK c \in 0..3 : "MIRD" \in Banks[c + 1] /\ hwBank = c /\ currBank = c
    <2>1. Head(todo).op \in {"miregadr", "micmd", "read_mird", "duplex"} BY <1>1
    <2> QED BY <1>1, <2>1, MiiFits, Zenon
  <1>7. Reached("MIRD") = "MIRD" /\ ReadsWell("MIRD") BY <1>6, BankedReached, Zenon
  <1> QED BY <1>5, <1>7 DEF ReadMird, mii

(* Every step keeps PhyInv.                                                *)
LEMMA PhyStep ==
    BankInv /\ PhyInv /\ [Next]_vars => PhyInv'
  <1> SUFFICES ASSUME BankInv, PhyInv, [Next]_vars PROVE PhyInv' OBVIOUS
  <1>a. PICK a \in Phases : WalksFrom(todo, a) /\ InPhase(a) BY DEF PhyInv
  <1>i. "idle" \in Phases BY DEF Phases
  <1>0. ASSUME UNCHANGED <<value, miregadr, todo, miird, busy, mird>> PROVE PhyInv'
    BY <1>0 DEF PhyInv, InPhase, WalksFrom, Walk, Moves
  <1>e. ASSUME todo = <<>> PROVE InPhase("idle")
    <2>1. PICK f : Walk(todo, f) /\ f[1] = a BY <1>a DEF WalksFrom
    <2>2. Len(todo) + 1 = 1 BY <1>e
    <2> QED BY <1>a, <2>1, <2>2 DEF Walk
  <1>c. ASSUME NEW from, NEW to, NEW q, Call(from, to, q), WalksFrom(q, "idle")
        PROVE  PhyInv'
    <2>1. todo' = q /\ UNCHANGED <<value, miregadr, miird, busy, mird>> /\ todo = <<>>
      BY <1>c DEF Call, Advance, chip
    <2>2. InPhase("idle")' BY <1>e, <2>1 DEF InPhase
    <2>3. WalksFrom(todo', "idle") BY <1>c, <2>1
    <2> QED BY <1>i, <2>1, <2>2, <2>3 DEF PhyInv
  <1>1. CASE SoftReset
    <2>1. todo' = <<>> /\ ~miird' /\ ~busy' /\ value' = "nothing"
      BY <1>1 DEF SoftReset, Advance
    <2>2. InPhase("idle")' BY <2>1 DEF InPhase
    <2>3. WalksFrom(todo', "idle") BY <2>1, ListsWalk
    <2> QED BY <1>i, <2>1, <2>2, <2>3 DEF PhyInv
  <1>2. CASE CallInit BY <1>2, <1>c, ListsWalk, Zenon DEF CallInit
  <1>3. CASE CallHwRev BY <1>3, <1>c, ListsWalk, Zenon DEF CallHwRev
  <1>4. CASE CallBegin BY <1>4, <1>c, ListsWalk, Zenon DEF CallBegin
  <1>5. CASE CallReadMac BY <1>5, <1>c, ListsWalk, Zenon DEF CallReadMac
  <1>6. CASE CallEnd BY <1>6, <1>c, ListsWalk, Zenon DEF CallEnd
  <1>7. CASE CreatePacketTask BY <1>7, <1>0 DEF CreatePacketTask, Step, chip
  <1>8. CASE CreateIpTask \/ CreateQueues \/ StartScheduler
    BY <1>8, <1>0 DEF CreateIpTask, CreateQueues, StartScheduler, Step, chip
  <1>9. CASE Work
    <2>1. todo # <<>> /\ todo' = Tail(todo) /\ todo \in Seq(AccessType)
      BY <1>9, WorkFacts DEF BankInv
    <2>2. PICK b \in Phases : Moves(a, Head(todo), b) /\ WalksFrom(todo', b)
      BY <1>a, <2>1, WalkTail, Zenon
    <2>q. ASSUME Head(todo).op \in Quiet \ {"duplex"}, UNCHANGED <<mii, value>>
          PROVE  PhyInv'
      <3>1. a = b BY <2>2, <2>q DEF Moves, Quiet
      <3>2. InPhase(a)' BY <1>a, <2>q DEF InPhase, mii
      <3>3. value' \in {"nothing", miregadr'} BY <2>q DEF PhyInv, mii
      <3> QED BY <2>2, <3>1, <3>2, <3>3 DEF PhyInv
    <2>3. CASE SelectBank BY <2>3, <2>q DEF SelectBank, Do, Quiet
    <2>4. CASE WriteReg BY <2>4, <2>q DEF WriteReg, Do, Quiet
    <2>5. CASE SetBits BY <2>5, <2>q DEF SetBits, Do, Quiet
    <2>6. CASE SetRxen BY <2>6, <2>q DEF SetRxen, Do, Quiet
    <2>7. CASE ReadOrClear BY <2>7, <2>q DEF ReadOrClear, Do, Quiet
    <2>8. CASE PollClock BY <2>8, <2>q DEF PollClock, Do, Quiet
    <2>9. CASE WriteMiregadr
      <3>1. Head(todo).op = "miregadr" /\ value' = "nothing" /\ UNCHANGED <<miird, busy, mird>>
        BY <2>9 DEF WriteMiregadr, Do
      <3>2. a = "idle" /\ b = "idle" BY <2>2, <3>1 DEF Moves, Quiet
      <3>3. InPhase(b)' BY <1>a, <3>1, <3>2 DEF InPhase
      <3> QED BY <2>2, <3>1, <3>3 DEF PhyInv
    <2>10. CASE WriteMicmd
      <3>1. /\ Head(todo).op = "micmd" /\ miird' = Head(todo).on
            /\ busy' = (busy \/ (Head(todo).on /\ ~miird))
            /\ UNCHANGED <<miregadr, mird, value>>
        BY <2>10 DEF WriteMicmd, Do
      <3>2. \/ Head(todo).on /\ a = "idle" /\ b = "asked"
            \/ ~Head(todo).on /\ a = "answered" /\ b = "noted"
        BY <2>2, <3>1 DEF Moves, Quiet
      <3>3. InPhase(b)'
        <4>1. CASE Head(todo).on /\ a = "idle" /\ b = "asked"
          BY <1>a, <3>1, <4>1 DEF InPhase
        <4>2. CASE ~Head(todo).on /\ a = "answered" /\ b = "noted"
          BY <1>a, <3>1, <4>2 DEF InPhase
        <4> QED BY <3>2, <4>1, <4>2
      <3> QED BY <2>2, <3>1, <3>3 DEF PhyInv
    <2>11. CASE PollBusy
      <3>1. /\ Head(todo).op = "poll_busy" /\ UNCHANGED <<mii, value>>
            /\ busy => ~(Reached("MISTAT") = "MISTAT" /\ ReadsWell("MISTAT"))
        BY <2>11 DEF PollBusy, Do
      <3>2. PICK c \in 0..3 : "MISTAT" \in Banks[c + 1] /\ hwBank = c /\ currBank = c
        BY <2>1, <3>1, MiiFits
      <3>3. ~busy BY <3>1, <3>2, BankedReached, Zenon
      <3>4. a = "asked" /\ b = "answered" BY <2>2, <3>1 DEF Moves, Quiet
      <3>5. InPhase(b)' BY <1>a, <3>1, <3>3, <3>4 DEF InPhase, mii
      <3>6. value' \in {"nothing", miregadr'} BY <3>1 DEF PhyInv, mii
      <3> QED BY <2>2, <3>5, <3>6 DEF PhyInv
    <2>12. CASE ReadMird
      <3>1. Head(todo).op = "read_mird" /\ UNCHANGED mii BY <2>12 DEF ReadMird, Do
      <3>2. a = "noted" /\ b = "idle" BY <2>2, <3>1 DEF Moves, Quiet
      <3>3. InPhase(b)' BY <1>a, <3>1, <3>2 DEF InPhase, mii
      <3>4. value' \in {"nothing", miregadr'} BY <2>12, MirdIsFresh
      <3> QED BY <2>2, <3>3, <3>4 DEF PhyInv
    <2> QED
      BY <1>9, <2>3, <2>4, <2>5, <2>6, <2>7, <2>8, <2>9, <2>10, <2>11, <2>12 DEF Work
  <1>10. CASE UseDuplex
    <2>1. PICK full \in IF value = "PHCON1" THEN {duplex} ELSE BOOLEAN :
                 todo' = MacInitRest(full)
      BY <1>10 DEF UseDuplex
    <2>2. full \in BOOLEAN BY DEF BankInv
    <2>3. WalksFrom(todo', "idle") BY <2>1, <2>2, ListsWalk
    <2>4. /\ todo # <<>> /\ Head(todo).op = "duplex" /\ todo \in Seq(AccessType)
          /\ UNCHANGED <<value, miregadr, miird, busy, mird>>
      BY <1>10 DEF UseDuplex, Other, chip, BankInv
    <2>5. PICK b \in Phases : Moves(a, Head(todo), b) BY <1>a, <2>4, WalkTail, Zenon
    <2>6. a = "idle" BY <2>4, <2>5 DEF Moves, Quiet
    <2>7. InPhase("idle")' BY <1>a, <2>4, <2>6 DEF InPhase
    <2> QED BY <1>i, <2>3, <2>4, <2>7 DEF PhyInv
  <1>11. CASE ClockStable BY <1>11, <1>0 DEF ClockStable
  <1>12. CASE MiiDone
    <2>1. busy /\ ~busy' /\ mird' = miregadr /\ UNCHANGED <<miird, miregadr, todo, value>>
      BY <1>12 DEF MiiDone
    <2>2. InPhase(a)' BY <1>a, <2>1 DEF InPhase
    <2>3. WalksFrom(todo', a) BY <1>a, <2>1
    <2> QED BY <2>1, <2>2, <2>3 DEF PhyInv
  <1>13. CASE FrameInterrupt BY <1>13, <1>0 DEF FrameInterrupt, chip
  <1>14. CASE UNCHANGED vars BY <1>14, <1>0 DEF vars, chip
  <1> QED BY <1>1, <1>2, <1>3, <1>4, <1>5, <1>6, <1>7, <1>8, <1>9, <1>10, <1>11, <1>12,
             <1>13, <1>14
          DEF Next, Driver, Work

(* ... is an invariant of the specification.                               *)
THEOREM PhyInvariant == Spec => []PhyInv
  <1>1. Init => PhyInv
    <2> SUFFICES ASSUME Init PROVE PhyInv OBVIOUS
    <2>1. todo = <<>> /\ ~miird /\ ~busy /\ value = "nothing" BY DEF Init
    <2>2. InPhase("idle") /\ "idle" \in Phases BY <2>1 DEF InPhase, Phases
    <2>3. WalksFrom(todo, "idle") BY <2>1, ListsWalk
    <2> QED BY <2>1, <2>2, <2>3 DEF PhyInv
  <1> QED BY <1>1, BankInvariant, PhyStep, PTL DEF Spec

(* enc28_do_read_phy_register returns the register it was asked for, after *)
(* any calls and resets before it.                                         *)
THEOREM PhyFresh == Spec => []PhyValueIsFresh
  <1>1. PhyInv => PhyValueIsFresh BY DEF PhyInv, PhyValueIsFresh
  <1> QED BY <1>1, PhyInvariant, PTL

-----------------------------------------------------------------------------
(* The accesses of enc28_do_init one by one.                               *)

(* ConcatFacts for lists of accesses.                                      *)
LEMMA Concats ==
    \A p, q \in Seq(AccessType) :
       /\ Len(p) \in Nat /\ Len(q) \in Nat
       /\ p \o q \in Seq(AccessType) /\ Len(p \o q) = Len(p) + Len(q)
       /\ \A i \in 1..Len(p) : (p \o q)[i] = p[i]
       /\ \A i \in 1..Len(q) : (p \o q)[Len(p) + i] = q[i]
  BY ConcatFacts

(* The concatenation written out.                                          *)
LEMMA DoInitElems ==
    LET q == DoInit
    IN  /\ Len(q) = 18
        /\ q[1] = Bank(0) /\ q[2] = Write("ERXST") /\ q[3] = Write("ERXND")
        /\ q[4] = Write("ERXRDPT") /\ q[5] = Bank(1) /\ q[6] = Write("ERXFCON")
        /\ q[7] = Other("poll_clock") /\ q[8] = Bank(2) /\ q[9] = Set("MACON1")
        /\ q[10] = Bank(2) /\ q[11] = MiiAddress("PHCON1") /\ q[12] = MiiCommand(TRUE)
        /\ q[13] = Bank(3) /\ q[14] = Other("poll_busy") /\ q[15] = Bank(2)
        /\ q[16] = MiiCommand(FALSE) /\ q[17] = Other("read_mird") /\ q[18] = Other("duplex")
  <1> DEFINE b == BufferRegisterInit
             f == ReceiveFilterInit
             c == << Other("poll_clock") >>
             m == << Bank(2), Set("MACON1") >>
             r == ReadPhy("PHCON1")
             d == << Other("duplex") >>
  <1>1. b \in Seq(AccessType) /\ f \in Seq(AccessType) /\ m \in Seq(AccessType)
    BY ShortLists
  <1>2. r \in Seq(AccessType) /\ c \in Seq(AccessType) /\ d \in Seq(AccessType)
    <2>1. /\ {"duplex", "poll_clock"} \subseteq {"poll_clock", "poll_busy", "read_mird", "duplex"}
          /\ "PHCON1" \in {"PHCON1", "PHID1", "PHID2"}
      OBVIOUS
    <2>2. Other("poll_clock") \in AccessType /\ Other("duplex") \in AccessType
      BY <2>1, AccessTypes, Zenon
    <2> QED BY <2>1, <2>2, Tuples, ReadPhyReady, Zenon
  <1>3. /\ Len(b) = 4 /\ Len(f) = 2 /\ Len(c) = 1 /\ Len(m) = 2 /\ Len(r) = 8 /\ Len(d) = 1
        /\ b[1] = Bank(0) /\ b[2] = Write("ERXST") /\ b[3] = Write("ERXND")
        /\ b[4] = Write("ERXRDPT") /\ f[1] = Bank(1) /\ f[2] = Write("ERXFCON")
        /\ c[1] = Other("poll_clock") /\ m[1] = Bank(2) /\ m[2] = Set("MACON1")
        /\ r[1] = Bank(2) /\ r[2] = MiiAddress("PHCON1") /\ r[3] = MiiCommand(TRUE)
        /\ r[4] = Bank(3) /\ r[5] = Other("poll_busy") /\ r[6] = Bank(2)
        /\ r[7] = MiiCommand(FALSE) /\ r[8] = Other("read_mird") /\ d[1] = Other("duplex")
    BY DEF BufferRegisterInit, ReceiveFilterInit, ReadPhy
  <1>d. DoInit = ((b \o f) \o c) \o ((m \o r) \o d) BY Zenon DEF DoInit, MacInit
  <1> HIDE DEF b, f, c, m, r, d
  <1> DEFINE bf == b \o f
             mr == m \o r
  <1>4. /\ Len(bf) = 6 /\ bf \in Seq(AccessType)
        /\ bf[1] = b[1] /\ bf[2] = b[2] /\ bf[3] = b[3] /\ bf[4] = b[4]
        /\ bf[5] = f[1] /\ bf[6] = f[2]
    <2>1. /\ bf \in Seq(AccessType) /\ Len(bf) = Len(b) + Len(f)
          /\ \A i \in 1..Len(b) : bf[i] = b[i]
          /\ \A i \in 1..Len(f) : bf[Len(b) + i] = f[i]
      BY <1>1, Concats, Zenon
    <2> HIDE DEF bf
    <2>2. Len(b) + 1 = 5 /\ Len(b) + 2 = 6 BY <1>3
    <2> QED BY <1>3, <2>1, <2>2
  <1>5. /\ Len(mr) = 10 /\ mr \in Seq(AccessType)
        /\ mr[1] = m[1] /\ mr[2] = m[2] /\ mr[3] = r[1] /\ mr[4] = r[2] /\ mr[5] = r[3]
        /\ mr[6] = r[4] /\ mr[7] = r[5] /\ mr[8] = r[6] /\ mr[9] = r[7] /\ mr[10] = r[8]
    <2>1. /\ mr \in Seq(AccessType) /\ Len(mr) = Len(m) + Len(r)
          /\ \A i \in 1..Len(m) : mr[i] = m[i]
          /\ \A i \in 1..Len(r) : mr[Len(m) + i] = r[i]
      BY <1>1, <1>2, Concats, Zenon
    <2> HIDE DEF mr
    <2>2. Len(mr) = 10 /\ mr[1] = m[1] /\ mr[2] = m[2] BY <1>3, <2>1
    <2>3. \A i \in 1..8 : mr[2 + i] = r[i] BY <1>3, <2>1
    <2>4. /\ 2 + 1 = 3 /\ 2 + 2 = 4 /\ 2 + 3 = 5 /\ 2 + 4 = 6
          /\ 2 + 5 = 7 /\ 2 + 6 = 8 /\ 2 + 7 = 9 /\ 2 + 8 = 10
          /\ {1, 2, 3, 4, 5, 6, 7, 8} \subseteq 1..8
      OBVIOUS
    <2>5. /\ mr[3] = r[1] /\ mr[4] = r[2] /\ mr[5] = r[3] /\ mr[6] = r[4]
          /\ mr[7] = r[5] /\ mr[8] = r[6] /\ mr[9] = r[7] /\ mr[10] = r[8]
      BY <2>3, <2>4
    <2> QED BY <2>1, <2>2, <2>5
  <1> HIDE DEF bf, mr
  <1> DEFINE h == bf \o c
             t == mr \o d
  <1>6. Len(h) = 7 /\ h \in Seq(AccessType) /\ h[7] = c[1] /\ \A k \in 1..6 : h[k] = bf[k]
    <2>1. /\ h \in Seq(AccessType) /\ Len(h) = Len(bf) + Len(c)
          /\ \A i \in 1..Len(bf) : h[i] = bf[i]
          /\ \A i \in 1..Len(c) : h[Len(bf) + i] = c[i]
      BY <1>2, <1>4, Concats, Zenon
    <2> HIDE DEF h
    <2>2. Len(bf) + 1 = 7 BY <1>4
    <2> QED BY <1>3, <1>4, <2>1, <2>2
  <1>7. Len(t) = 11 /\ t \in Seq(AccessType) /\ t[11] = d[1] /\ \A k \in 1..10 : t[k] = mr[k]
    <2>1. /\ t \in Seq(AccessType) /\ Len(t) = Len(mr) + Len(d)
          /\ \A i \in 1..Len(mr) : t[i] = mr[i]
          /\ \A i \in 1..Len(d) : t[Len(mr) + i] = d[i]
      BY <1>2, <1>5, Concats, Zenon
    <2> HIDE DEF t
    <2>2. Len(mr) + 1 = 11 BY <1>5
    <2> QED BY <1>3, <1>5, <2>1, <2>2
  <1> HIDE DEF h, t
  <1> DEFINE q == h \o t
  <1>8. Len(q) = 18 /\ (\A k \in 1..7 : q[k] = h[k]) /\ \A k \in 1..11 : q[7 + k] = t[k]
    <2>1. /\ Len(q) = Len(h) + Len(t)
          /\ \A i \in 1..Len(h) : q[i] = h[i]
          /\ \A i \in 1..Len(t) : q[Len(h) + i] = t[i]
      BY <1>6, <1>7, Concats, Zenon
    <2> HIDE DEF q
    <2> QED BY <1>6, <1>7, <2>1
  <1>9. DoInit = q BY <1>d, Zenon DEF q, h, t, bf, mr
  <1> HIDE DEF q
  <1>10. /\ q[1] = h[1] /\ q[2] = h[2] /\ q[3] = h[3] /\ q[4] = h[4] /\ q[5] = h[5]
         /\ q[6] = h[6] /\ q[7] = h[7]
    BY <1>8
  <1>11. /\ q[8] = t[1] /\ q[9] = t[2] /\ q[10] = t[3] /\ q[11] = t[4] /\ q[12] = t[5]
         /\ q[13] = t[6] /\ q[14] = t[7] /\ q[15] = t[8] /\ q[16] = t[9] /\ q[17] = t[10]
         /\ q[18] = t[11]
    <2>1. /\ 7 + 1 = 8 /\ 7 + 2 = 9 /\ 7 + 3 = 10 /\ 7 + 4 = 11 /\ 7 + 5 = 12 /\ 7 + 6 = 13
          /\ 7 + 7 = 14 /\ 7 + 8 = 15 /\ 7 + 9 = 16 /\ 7 + 10 = 17 /\ 7 + 11 = 18
          /\ {1, 2, 3, 4, 5, 6, 7, 8, 9, 10, 11} \subseteq 1..11
      OBVIOUS
    <2> QED BY <1>8, <2>1
  <1>12. /\ h[1] = b[1] /\ h[2] = b[2] /\ h[3] = b[3] /\ h[4] = b[4] /\ h[5] = f[1]
         /\ h[6] = f[2] /\ h[7] = c[1]
    BY <1>4, <1>6
  <1>13. /\ t[1] = m[1] /\ t[2] = m[2] /\ t[3] = r[1] /\ t[4] = r[2] /\ t[5] = r[3]
         /\ t[6] = r[4] /\ t[7] = r[5] /\ t[8] = r[6] /\ t[9] = r[7] /\ t[10] = r[8]
         /\ t[11] = d[1]
    BY <1>5, <1>7
  <1>14. Len(q) = 18 BY <1>8
  <1> QED BY <1>3, <1>9, <1>10, <1>11, <1>12, <1>13, <1>14, Zenon

(* The accesses of the rest of priv_enc28_do_mac_init.                     *)
LEMMA MacRestElems ==
    ASSUME NEW full \in BOOLEAN
    PROVE  LET q == MacInitRest(full)
           IN  /\ q \in Seq(AccessType)
               /\ Len(q) = IF full THEN 8 ELSE 9
               /\ q[1] = SetMacon3(full) /\ q[2] = Set("MACON4") /\ q[3] = Write("MAMXFL")
               /\ q[4] = Write("MABBIPG") /\ q[5] = Write("MAIPGL")
               /\ full => q[6] = Bank(3) /\ q[7] = Write("MAC_ADD") /\ q[8] = Bank(0)
               /\ ~full => /\ q[6] = Write("MAIPGH") /\ q[7] = Bank(3)
                           /\ q[8] = Write("MAC_ADD") /\ q[9] = Bank(0)
  <1> DEFINE p == << SetMacon3(full), Set("MACON4"), Write("MAMXFL"),
                     Write("MABBIPG"), Write("MAIPGL") >>
             g == IF full THEN <<>> ELSE << Write("MAIPGH") >>
             m == << Bank(3), Write("MAC_ADD"), Bank(0) >>
  <1>1. p \in Seq(AccessType) /\ g \in Seq(AccessType) /\ m \in Seq(AccessType)
    BY RestTypes
  <1>2. /\ Len(p) = 5 /\ p[1] = SetMacon3(full) /\ p[2] = Set("MACON4")
        /\ p[3] = Write("MAMXFL") /\ p[4] = Write("MABBIPG") /\ p[5] = Write("MAIPGL")
        /\ Len(m) = 3 /\ m[1] = Bank(3) /\ m[2] = Write("MAC_ADD") /\ m[3] = Bank(0)
        /\ full => Len(g) = 0
        /\ ~full => Len(g) = 1 /\ g[1] = Write("MAIPGH")
    OBVIOUS
  <1>d. MacInitRest(full) = (p \o g) \o m BY Zenon DEF MacInitRest
  <1> HIDE DEF p, g, m
  <1> DEFINE a == p \o g
  <1>3. /\ a \in Seq(AccessType) /\ Len(a) = Len(p) + Len(g)
        /\ \A i \in 1..Len(p) : a[i] = p[i]
        /\ \A i \in 1..Len(g) : a[Len(p) + i] = g[i]
    BY <1>1, Concats, Zenon
  <1> HIDE DEF a
  <1> DEFINE q == a \o m
  <1>4. /\ q \in Seq(AccessType) /\ Len(q) = Len(a) + Len(m)
        /\ \A i \in 1..Len(a) : q[i] = a[i]
        /\ \A i \in 1..Len(m) : q[Len(a) + i] = m[i]
    BY <1>1, <1>3, Concats, Zenon
  <1>5. MacInitRest(full) = q BY <1>d, Zenon DEF q, a
  <1> HIDE DEF q
  <1>6. /\ Len(a) >= 5 /\ Len(a) \in Nat
        /\ a[1] = p[1] /\ a[2] = p[2] /\ a[3] = p[3] /\ a[4] = p[4] /\ a[5] = p[5]
    BY <1>2, <1>3
  <1>7. q[1] = p[1] /\ q[2] = p[2] /\ q[3] = p[3] /\ q[4] = p[4] /\ q[5] = p[5]
    BY <1>4, <1>6
  <1>8. CASE full
    <2>1. Len(a) = 5 /\ Len(q) = 8 BY <1>2, <1>3, <1>4, <1>8
    <2>2. 5 + 1 = 6 /\ 5 + 2 = 7 /\ 5 + 3 = 8 OBVIOUS
    <2>3. q[6] = m[1] /\ q[7] = m[2] /\ q[8] = m[3] BY <1>2, <1>4, <2>1, <2>2
    <2> QED BY <1>2, <1>4, <1>5, <1>7, <1>8, <2>1, <2>3
  <1>9. CASE ~full
    <2>0. Len(g) = 1 /\ g[1] = Write("MAIPGH") BY <1>2, <1>9, Zenon
    <2>1. Len(a) = 6 /\ Len(q) = 9 BY <1>2, <1>3, <1>4, <2>0
    <2>2. 5 + 1 = 6 /\ 6 + 1 = 7 /\ 6 + 2 = 8 /\ 6 + 3 = 9 OBVIOUS
    <2>3. q[7] = m[1] /\ q[8] = m[2] /\ q[9] = m[3] BY <1>2, <1>4, <2>1, <2>2
    <2>4. a[6] = g[1]
      <3>1. a[5 + 1] = g[1] BY <1>2, <1>3, <2>0
      <3> QED BY <2>2, <3>1
    <2>5. q[6] = g[1] BY <1>4, <2>1, <2>4
    <2> QED BY <1>2, <1>4, <1>5, <1>7, <1>9, <2>1, <2>3, <2>5
  <1> QED BY <1>8, <1>9

-----------------------------------------------------------------------------
(* The clock.  Only accesses outside MAC and MII come before the loop that *)
(* polls ESTAT.CLKRDY.                                                     *)

BeforeClock(q) ==
    \E i \in 1..Len(q) :
       /\ q[i].op = "poll_clock"
       /\ \A k \in 1..(i - 1) :
             q[k].op = "bank" \/ (q[k].op = "write" /\ q[k].reg \notin MacOrMii)

(* enc28_do_init polls the clock before it turns to the MAC.               *)
LEMMA DoInitClock == BeforeClock(DoInit)
  <1> DEFINE q == DoInit
  <1>7. /\ q[1] = Bank(0) /\ q[2] = Write("ERXST") /\ q[3] = Write("ERXND")
        /\ q[4] = Write("ERXRDPT") /\ q[5] = Bank(1) /\ q[6] = Write("ERXFCON")
        /\ q[7] = Other("poll_clock") /\ Len(q) = 18
    BY DoInitElems
  <1> HIDE DEF q
  <1>8. /\ q[1].op = "bank" /\ q[5].op = "bank" /\ q[7].op = "poll_clock"
        /\ q[2].op = "write" /\ q[3].op = "write" /\ q[4].op = "write" /\ q[6].op = "write"
        /\ q[2].reg = "ERXST" /\ q[3].reg = "ERXND" /\ q[4].reg = "ERXRDPT"
        /\ q[6].reg = "ERXFCON"
    BY <1>7 DEF Bank, Write, Other
  <1>9. MacOrMii \cap {"ERXST", "ERXND", "ERXRDPT", "ERXFCON"} = {} BY DEF MacOrMii, Banks
  <1>10. 7 \in 1..Len(q) /\ \A k \in 1..(7 - 1) : k \in {1, 2, 3, 4, 5, 6} BY <1>7
  <1>11. \A k \in 1..(7 - 1) :
            q[k].op = "bank" \/ (q[k].op = "write" /\ q[k].reg \notin MacOrMii)
    BY <1>8, <1>9, <1>10
  <1>12. BeforeClock(q) BY <1>8, <1>10, <1>11 DEF BeforeClock
  <1> QED BY <1>12 DEF q

(* Until the loop is reached, no access is to MAC or MII.                  *)
LEMMA BeforeClockTail ==
    ASSUME NEW S, NEW q \in Seq(S), q # <<>>, BeforeClock(q)
    PROVE  \/ Head(q).op = "poll_clock"
           \/ /\ Head(q).op = "bank" \/ (Head(q).op = "write" /\ Head(q).reg \notin MacOrMii)
              /\ BeforeClock(Tail(q))
  <1> DEFINE t == Tail(q)
  <1>1. /\ Len(q) \in Nat /\ Len(q) >= 1 /\ Head(q) = q[1] /\ Len(t) = Len(q) - 1
        /\ \A i \in 1..(Len(q) - 1) : t[i] = q[i + 1]
    BY TailFacts
  <1> HIDE DEF t
  <1>2. PICK i \in 1..Len(q) :
           /\ q[i].op = "poll_clock"
           /\ \A k \in 1..(i - 1) :
                 q[k].op = "bank" \/ (q[k].op = "write" /\ q[k].reg \notin MacOrMii)
    BY DEF BeforeClock
  <1>3. CASE i = 1 BY <1>1, <1>2, <1>3
  <1>4. CASE i # 1
    <2>1. 1 \in 1..(i - 1) /\ i - 1 \in 1..Len(t) /\ t[i - 1] = q[i] BY <1>1, <1>4
    <2>2. \A k \in 1..((i - 1) - 1) : k + 1 \in 1..(i - 1) /\ t[k] = q[k + 1]
      BY <1>1, <1>4
    <2>3. \A k \in 1..((i - 1) - 1) :
             t[k].op = "bank" \/ (t[k].op = "write" /\ t[k].reg \notin MacOrMii)
      BY <1>2, <2>2
    <2>4. BeforeClock(t) BY <1>2, <2>1, <2>3 DEF BeforeClock
    <2> QED BY <1>1, <1>2, <2>1, <2>4 DEF t
  <1> QED BY <1>3, <1>4

(* What an access leaves in the history.                                   *)
LEMMA WorkAccess ==
    ASSUME Work
    PROVE  /\ access'.clkrdy = clkrdy
           /\ Head(todo).op = "bank" => access'.want = "ECON1"
           /\ Head(todo).op = "write" => access'.want = Head(todo).reg
           /\ Head(todo).op = "poll_clock" => clkrdy
  <1>1. CASE SelectBank BY <1>1 DEF SelectBank, Do, Access
  <1>2. CASE WriteReg BY <1>2 DEF WriteReg, Do, Access, Reg
  <1>3. CASE SetBits BY <1>3 DEF SetBits, Do, Access
  <1>4. CASE SetRxen BY <1>4 DEF SetRxen, Do, Access
  <1>5. CASE ReadOrClear BY <1>5 DEF ReadOrClear, Do, Access
  <1>6. CASE PollClock BY <1>6 DEF PollClock, Do, Access
  <1>7. CASE WriteMiregadr BY <1>7 DEF WriteMiregadr, Do, Access
  <1>8. CASE WriteMicmd BY <1>8 DEF WriteMicmd, Do, Access
  <1>9. CASE PollBusy BY <1>9 DEF PollBusy, Do, Access
  <1>10. CASE ReadMird BY <1>10 DEF ReadMird, Do, Access
  <1> QED BY <1>1, <1>2, <1>3, <1>4, <1>5, <1>6, <1>7, <1>8, <1>9, <1>10 DEF Work

ClockInv ==
    /\ stage # "any" => (access.got \in MacOrMii => access.clkrdy)
    /\ stage = "init" => clkrdy \/ BeforeClock(todo)
    /\ stage \in {"hw_rev"} \cup Receiving => clkrdy

(* Every step keeps ClockInv.                                              *)
LEMMA ClockStep ==
    BankInv /\ BankInv' /\ StageInv /\ ClockInv /\ [Next]_vars => ClockInv'
  <1> SUFFICES ASSUME BankInv, BankInv', StageInv, ClockInv, [Next]_vars PROVE ClockInv'
    OBVIOUS
  <1>0. ASSUME UNCHANGED <<clkrdy, stage, access, todo>> PROVE ClockInv'
    BY <1>0 DEF ClockInv, BeforeClock
  <1>e. ASSUME todo = <<>> PROVE ~BeforeClock(todo) BY <1>e DEF BeforeClock
  <1>1. CASE SoftReset
    <2>1. /\ UNCHANGED <<clkrdy, access>> /\ todo' = <<>>
          /\ (stage = "any" /\ stage' = "any") \/ (stage = "start" /\ stage' = "reset")
      BY <1>1 DEF SoftReset, Advance
    <2> QED BY <2>1 DEF ClockInv, Receiving
  <1>2. CASE CallInit
    <2>1. /\ UNCHANGED <<clkrdy, access>> /\ todo' = DoInit
          /\ (stage = "any" /\ stage' = "any") \/ (stage = "reset" /\ stage' = "init")
      BY <1>2 DEF CallInit, Call, Advance, chip
    <2> QED BY <2>1, DoInitClock DEF ClockInv, Receiving
  <1>3. CASE CallHwRev
    <2>1. /\ UNCHANGED <<clkrdy, access>> /\ todo = <<>>
          /\ (stage = "any" /\ stage' = "any") \/ (stage = "init" /\ stage' = "hw_rev")
      BY <1>3 DEF CallHwRev, Call, Advance, chip
    <2> QED BY <1>e, <2>1 DEF ClockInv, Receiving
  <1>4. CASE CallBegin
    <2>1. /\ UNCHANGED <<clkrdy, access>>
          /\ (stage = "any" /\ stage' = "any") \/ (stage = "hw_rev" /\ stage' = "begin")
      BY <1>4 DEF CallBegin, Call, Advance, chip
    <2> QED BY <2>1 DEF ClockInv, Receiving
  <1>5. CASE CallReadMac \/ CallEnd
    <2>1. UNCHANGED <<clkrdy, access>> /\ stage' = "any"
      BY <1>5 DEF CallReadMac, CallEnd, Call, Advance, chip
    <2> QED BY <2>1 DEF ClockInv, Receiving
  <1>6. CASE CreatePacketTask \/ CreateIpTask \/ CreateQueues \/ StartScheduler
    <2>1. UNCHANGED <<clkrdy, access>> /\ stage \in Receiving /\ stage' \in Receiving
      BY <1>6 DEF CreatePacketTask, CreateIpTask, CreateQueues, StartScheduler, Step, chip,
                  Receiving
    <2>2. Receiving \cap {"init", "any"} = {} BY DEF Receiving
    <2> QED BY <2>1, <2>2 DEF ClockInv
  <1>8. CASE Work
    <2>1. /\ todo # <<>> /\ todo' = Tail(todo) /\ todo \in Seq(AccessType)
          /\ UNCHANGED <<clkrdy, stage>>
      BY <1>8, WorkFacts DEF BankInv
    <2>2. /\ access'.clkrdy = clkrdy
          /\ Head(todo).op = "bank" => access'.want = "ECON1"
          /\ Head(todo).op = "write" => access'.want = Head(todo).reg
          /\ Head(todo).op = "poll_clock" => clkrdy
      BY <1>8, WorkAccess
    <2>3. access'.got = access'.want BY DEF BankInv
    <2>4. "ECON1" \notin MacOrMii BY DEF MacOrMii, Banks
    <2>5. CASE clkrdy \/ stage = "any" BY <2>1, <2>2, <2>5 DEF ClockInv
    <2>6. CASE ~clkrdy /\ stage # "any"
      <3>1. stage = "init" /\ BeforeClock(todo)
        BY <2>1, <2>6 DEF ClockInv, StageInv, Stages, Receiving
      <3>2. Head(todo).op # "poll_clock" BY <2>2, <2>6 DEF ClockInv
      <3>3. /\ Head(todo).op = "bank" \/ (Head(todo).op = "write" /\ Head(todo).reg \notin MacOrMii)
            /\ BeforeClock(todo')
        BY <2>1, <3>1, <3>2, BeforeClockTail, Zenon
      <3>4. access'.got \notin MacOrMii BY <2>2, <2>3, <2>4, <3>3
      <3> QED BY <2>1, <3>1, <3>3, <3>4 DEF ClockInv
    <2> QED BY <2>5, <2>6
  <1>9. CASE UseDuplex
    <2>1. /\ todo = << Other("duplex") >> /\ UNCHANGED <<clkrdy, stage, access>>
      BY <1>9 DEF UseDuplex, chip
    <2>2. ~BeforeClock(todo) BY <2>1 DEF BeforeClock, Other
    <2> QED BY <2>1, <2>2 DEF ClockInv
  <1>10. CASE ClockStable
    <2>1. clkrdy' /\ UNCHANGED <<stage, access, todo>> BY <1>10 DEF ClockStable
    <2> QED BY <2>1 DEF ClockInv
  <1>11. CASE MiiDone BY <1>11, <1>0 DEF MiiDone
  <1>12. CASE FrameInterrupt BY <1>12, <1>0 DEF FrameInterrupt, chip
  <1>13. CASE UNCHANGED vars BY <1>13, <1>0 DEF vars, chip
  <1> QED
    BY <1>1, <1>2, <1>3, <1>4, <1>5, <1>6, <1>8, <1>9, <1>10, <1>11, <1>12, <1>13
          DEF Next, Driver, Work

(* The application makes no access to MAC or MII before it has seen        *)
(* ESTAT.CLKRDY set: the loop of priv_enc28_do_poll_estat_clk comes first, *)
(* whenever the oscillator gets stable.  (After a reset command the bit    *)
(* does not vouch for the PHY: PhyIsReady is false.)                       *)
THEOREM ClockFirst == Spec => []MacNeedsClock
  <1>1. Init => ClockInv
    <2> SUFFICES ASSUME Init PROVE ClockInv OBVIOUS
    <2>1. stage \in {"start", "any"} /\ access.got = "ECON1"
      BY DEF Init
    <2>2. "ECON1" \notin MacOrMii BY DEF MacOrMii, Banks
    <2> QED BY <2>1, <2>2 DEF ClockInv, Receiving
  <1>2. BankInv /\ BankInv' /\ StageInv /\ ClockInv /\ [Next]_vars => ClockInv'
    BY ClockStep
  <1>3. ClockInv => MacNeedsClock BY DEF ClockInv, MacNeedsClock
  <1> QED BY <1>1, <1>2, <1>3, BankInvariant, StageInvariant, PTL DEF Spec

-----------------------------------------------------------------------------
(* The set-up of the chip.  What a call has to program is programmed, or   *)
(* still on its list.                                                      *)

Pending(q, r) == \E i \in 1..Len(q) : q[i].op = "write" /\ q[i].reg = r
Due(r) == r \in programmed \/ Pending(todo, r)

First == {"ERXST", "ERXND", "ERXRDPT", "ERXFCON"}
Rest  == {"MAMXFL", "MABBIPG", "MAIPGL", "MAC_ADD"}

(* enc28_do_init has not used PHCON1 yet, and will have read it by then.   *)
EndsDuplex(q) == q # <<>> /\ q[Len(q)].op = "duplex"
ReadsPhcon1(q) ==
    /\ Len(q) >= 2 => q[Len(q) - 1].op = "read_mird"
    /\ Len(q) >= 8 => q[Len(q) - 7].op = "miregadr"
    /\ \A i \in 1..Len(q) : q[i].op = "miregadr" => q[i].phy = "PHCON1"

RestDue ==
    /\ \A r \in Rest : Due(r)
    /\ duplex \/ Due("MAIPGH")

(* Accesses that give the MAC no other duplex mode than d.                 *)
KeepsMode(x, d) ==
    /\ x.op = "write" => x.reg # "MACON3"
    /\ x.op = "set" => (x.full => d) /\ (x.reg = "MACON3" /\ d => x.full)
ModeIs(q, d) == \A i \in 1..Len(q) : KeepsMode(q[i], d)

(* ERDPT is written before reception is enabled.                           *)
ErdptFirst(q) ==
    \E i \in 1..Len(q) : /\ q[i].op = "write" /\ q[i].reg = "ERDPT"
                         /\ \A k \in 1..i : q[k].op # "rxen"

SetupInv ==
    /\ fulldpx \in BOOLEAN
    /\ stage # "any" =>
          /\ fulldpx => duplex
          /\ "MACON3" \in programmed /\ duplex => fulldpx
          /\ ModeIs(todo, duplex)
    /\ stage = "init" =>
          /\ \A r \in First : Due(r)
          /\ IF EndsDuplex(todo)
             THEN /\ ReadsPhcon1(todo)
                  /\ Len(todo) <= 7 => miregadr = "PHCON1"
                  /\ Len(todo) = 1 => value = "PHCON1"
             ELSE RestDue
    /\ stage \in {"hw_rev"} \cup Receiving =>
          /\ First \cup Rest \subseteq programmed
          /\ duplex \/ "MAIPGH" \in programmed
          /\ ~EndsDuplex(todo)
    /\ stage \in Receiving => "ERDPT" \in programmed \/ (~rxen /\ ErdptFirst(todo))

(* A list of accesses and its tail.                                        *)
LEMMA PendingTail ==
    ASSUME NEW q \in Seq(AccessType), q # <<>>
    PROVE  /\ \A r : Pending(q, r) => \/ Head(q).op = "write" /\ Head(q).reg = r
                                      \/ Pending(Tail(q), r)
           /\ \A d : ModeIs(q, d) => KeepsMode(Head(q), d) /\ ModeIs(Tail(q), d)
           /\ ErdptFirst(q) => /\ Head(q).op # "rxen"
                               /\ \/ Head(q).op = "write" /\ Head(q).reg = "ERDPT"
                                  \/ ErdptFirst(Tail(q))
  <1> DEFINE t == Tail(q)
  <1>1. /\ Len(q) \in Nat /\ Len(q) >= 1 /\ Head(q) = q[1] /\ Len(t) = Len(q) - 1
        /\ \A i \in 1..(Len(q) - 1) : t[i] = q[i + 1]
    BY TailFacts
  <1> HIDE DEF t
  <1>2. \A i \in 1..Len(q) : i = 1 \/ (i - 1 \in 1..Len(t) /\ t[i - 1] = q[i]) BY <1>1
  <1>3. \A i \in 1..Len(t) : i + 1 \in 1..Len(q) /\ t[i] = q[i + 1] BY <1>1
  <1>4. 1 \in 1..Len(q) BY <1>1
  <1>5. ASSUME NEW r, Pending(q, r)
        PROVE  (Head(q).op = "write" /\ Head(q).reg = r) \/ Pending(t, r)
    BY <1>1, <1>2, <1>5 DEF Pending
  <1>6. ASSUME NEW d, ModeIs(q, d) PROVE KeepsMode(Head(q), d) /\ ModeIs(t, d)
    BY <1>1, <1>3, <1>4, <1>6, Zenon DEF ModeIs
  <1>9. ASSUME ErdptFirst(q)
        PROVE  /\ Head(q).op # "rxen"
               /\ (Head(q).op = "write" /\ Head(q).reg = "ERDPT") \/ ErdptFirst(t)
    <2>1. PICK i \in 1..Len(q) : /\ q[i].op = "write" /\ q[i].reg = "ERDPT"
                                 /\ \A k \in 1..i : q[k].op # "rxen"
      BY <1>9 DEF ErdptFirst
    <2>2. 1 \in 1..i BY <1>1
    <2>3. CASE i = 1 BY <1>1, <2>1, <2>3
    <2>4. CASE i # 1
      <3>1. i - 1 \in 1..Len(t) /\ t[i - 1] = q[i] BY <1>2, <2>4
      <3>2. \A k \in 1..(i - 1) : k + 1 \in 1..i /\ k \in 1..Len(t) BY <1>1, <2>4
      <3>3. \A k \in 1..(i - 1) : t[k].op # "rxen" BY <1>3, <2>1, <3>2
      <3> QED BY <1>1, <2>1, <2>2, <3>1, <3>3 DEF ErdptFirst
    <2> QED BY <2>3, <2>4
  <1> QED BY <1>5, <1>6, <1>9 DEF t

(* The read of PHCON1 is where it must be until it is done.                *)
LEMMA DuplexTail ==
    ASSUME NEW q \in Seq(AccessType), q # <<>>, EndsDuplex(q), ReadsPhcon1(q),
           Head(q).op # "duplex"
    PROVE  /\ EndsDuplex(Tail(q)) /\ ReadsPhcon1(Tail(q)) /\ Len(Tail(q)) = Len(q) - 1
           /\ Len(q) = 8 => Head(q).op = "miregadr"
           /\ Len(q) = 2 => Head(q).op = "read_mird"
           /\ Head(q).op = "miregadr" => Head(q).phy = "PHCON1"
           /\ Len(q) \in Nat /\ Len(q) >= 2
  <1> DEFINE t == Tail(q)
  <1>1. /\ Len(q) \in Nat /\ Len(q) >= 1 /\ Head(q) = q[1] /\ Len(t) = Len(q) - 1
        /\ \A i \in 1..(Len(q) - 1) : t[i] = q[i + 1]
    BY TailFacts
  <1>t. t \in Seq(AccessType) BY TailFacts
  <1> HIDE DEF t
  <1>2. Len(q) >= 2 BY <1>1 DEF EndsDuplex
  <1>3. Len(t) \in 1..(Len(q) - 1) /\ Len(t) + 1 = Len(q) /\ t # <<>> BY <1>1, <1>2, <1>t
  <1>4. EndsDuplex(t) BY <1>1, <1>3 DEF EndsDuplex
  <1>5. ReadsPhcon1(t)
    <2>1. Len(t) >= 2 => t[Len(t) - 1].op = "read_mird"
      <3> SUFFICES ASSUME Len(t) >= 2 PROVE t[Len(t) - 1].op = "read_mird" OBVIOUS
      <3>1. Len(t) - 1 \in 1..(Len(q) - 1) /\ (Len(t) - 1) + 1 = Len(q) - 1 BY <1>1
      <3> QED BY <1>1, <1>2, <3>1 DEF ReadsPhcon1
    <2>2. Len(t) >= 8 => t[Len(t) - 7].op = "miregadr"
      <3> SUFFICES ASSUME Len(t) >= 8 PROVE t[Len(t) - 7].op = "miregadr" OBVIOUS
      <3>1. /\ Len(t) - 7 \in 1..(Len(q) - 1) /\ (Len(t) - 7) + 1 = Len(q) - 7
            /\ Len(q) >= 8
        BY <1>1
      <3> QED BY <1>1, <3>1 DEF ReadsPhcon1
    <2>3. \A i \in 1..Len(t) : t[i].op = "miregadr" => t[i].phy = "PHCON1"
      <3>1. \A i \in 1..Len(t) : i + 1 \in 1..Len(q) /\ t[i] = q[i + 1] BY <1>1
      <3> QED BY <3>1 DEF ReadsPhcon1
    <2> QED BY <2>1, <2>2, <2>3 DEF ReadsPhcon1
  <1>6. Len(q) = 8 => Head(q).op = "miregadr" BY <1>1 DEF ReadsPhcon1
  <1>7. Len(q) = 2 => Head(q).op = "read_mird" BY <1>1 DEF ReadsPhcon1
  <1>8. Head(q).op = "miregadr" => Head(q).phy = "PHCON1"
    <2>1. 1 \in 1..Len(q) BY <1>1
    <2> QED BY <1>1, <2>1 DEF ReadsPhcon1
  <1> QED BY <1>1, <1>2, <1>4, <1>5, <1>6, <1>7, <1>8 DEF t

(* A list that does not end with the use of PHCON1 never will.             *)
LEMMA NoDuplexTail ==
    ASSUME NEW q \in Seq(AccessType), q # <<>>, EndsDuplex(Tail(q))
    PROVE  EndsDuplex(q)
  <1> DEFINE t == Tail(q)
  <1>1. /\ Len(q) \in Nat /\ Len(q) >= 1 /\ Len(t) = Len(q) - 1
        /\ \A i \in 1..(Len(q) - 1) : t[i] = q[i + 1]
    BY TailFacts
  <1>2. t \in Seq(AccessType) /\ t # <<>> /\ t[Len(t)].op = "duplex"
    BY TailFacts DEF EndsDuplex
  <1> HIDE DEF t
  <1>3. Len(t) \in 1..(Len(q) - 1) /\ Len(t) + 1 = Len(q) BY <1>1, <1>2
  <1>4. t[Len(t)] = q[Len(q)] BY <1>1, <1>3
  <1> QED BY <1>2, <1>4 DEF EndsDuplex

(* enc28_do_init has all of its registers on its list, and reads PHCON1    *)
(* before it is used.                                                      *)
LEMMA DoInitSetup ==
    /\ \A r \in First : Pending(DoInit, r)
    /\ EndsDuplex(DoInit) /\ ReadsPhcon1(DoInit) /\ Len(DoInit) = 18
    /\ \A d : ModeIs(DoInit, d)
  <1> DEFINE q == DoInit
  <1>1. /\ Len(q) = 18
        /\ q[1] = Bank(0) /\ q[2] = Write("ERXST") /\ q[3] = Write("ERXND")
        /\ q[4] = Write("ERXRDPT") /\ q[5] = Bank(1) /\ q[6] = Write("ERXFCON")
        /\ q[7] = Other("poll_clock") /\ q[8] = Bank(2) /\ q[9] = Set("MACON1")
        /\ q[10] = Bank(2) /\ q[11] = MiiAddress("PHCON1") /\ q[12] = MiiCommand(TRUE)
        /\ q[13] = Bank(3) /\ q[14] = Other("poll_busy") /\ q[15] = Bank(2)
        /\ q[16] = MiiCommand(FALSE) /\ q[17] = Other("read_mird") /\ q[18] = Other("duplex")
    BY DoInitElems, Zenon
  <1> HIDE DEF q
  <1>2. /\ q[1].op = "bank" /\ q[2].op = "write" /\ q[3].op = "write" /\ q[4].op = "write"
        /\ q[5].op = "bank" /\ q[6].op = "write" /\ q[7].op = "poll_clock"
        /\ q[8].op = "bank" /\ q[9].op = "set" /\ q[10].op = "bank"
        /\ q[11].op = "miregadr" /\ q[12].op = "micmd" /\ q[13].op = "bank"
        /\ q[14].op = "poll_busy" /\ q[15].op = "bank" /\ q[16].op = "micmd"
        /\ q[17].op = "read_mird" /\ q[18].op = "duplex"
    BY <1>1 DEF Bank, Write, Other, Set, MiiAddress, MiiCommand
  <1>3. /\ q[2].reg = "ERXST" /\ q[3].reg = "ERXND" /\ q[4].reg = "ERXRDPT"
        /\ q[6].reg = "ERXFCON" /\ q[9].reg = "MACON1" /\ q[9].full = FALSE
        /\ q[11].phy = "PHCON1"
    BY <1>1 DEF Write, Set, MiiAddress
  <1>4. {2, 3, 4, 6} \subseteq 1..Len(q) BY <1>1
  <1>5. \A r \in First : Pending(q, r) BY <1>2, <1>3, <1>4 DEF First, Pending
  <1>6. \A i \in 1..Len(q) :
           i \in {1, 2, 3, 4, 5, 6, 7, 8, 9, 10, 11, 12, 13, 14, 15, 16, 17, 18}
    BY <1>1
  <1>7. \A d : ModeIs(q, d)
    <2> SUFFICES ASSUME NEW d, NEW i \in 1..Len(q) PROVE KeepsMode(q[i], d) BY DEF ModeIs
    <2>1. q[i].op = "set" => i = 9 BY <1>2, <1>6
    <2>2. q[i].op = "write" => i \in {2, 3, 4, 6} BY <1>2, <1>6
    <2>3. q[i].op = "set" => q[i].reg # "MACON3" /\ ~q[i].full BY <1>3, <2>1
    <2>4. q[i].op = "write" => q[i].reg # "MACON3" BY <1>3, <2>2
    <2> QED BY <2>3, <2>4 DEF KeepsMode
  <1>8. EndsDuplex(q)
    <2>2. Len(q) = 18 BY <1>1, Zenon
    <2>3. Len(<<>>) # 18 OBVIOUS
    <2>4. q # <<>> BY <2>2, <2>3
    <2> QED BY <1>2, <2>2, <2>4 DEF EndsDuplex
  <1>9. ReadsPhcon1(q)
    <2>1. \A i \in 1..Len(q) : q[i].op = "miregadr" => i = 11 BY <1>2, <1>6
    <2>2. q[Len(q) - 1].op = "read_mird" /\ q[Len(q) - 7].op = "miregadr"
      <3>1. Len(q) - 1 = 17 /\ Len(q) - 7 = 11 BY <1>1
      <3> QED BY <1>2, <3>1
    <2> QED BY <1>3, <2>1, <2>2 DEF ReadsPhcon1
  <1> QED BY <1>1, <1>5, <1>7, <1>8, <1>9 DEF q

(* So has the rest of priv_enc28_do_mac_init.                              *)
LEMMA MacRestSetup ==
    ASSUME NEW full \in BOOLEAN
    PROVE  /\ \A r \in Rest : Pending(MacInitRest(full), r)
           /\ full \/ Pending(MacInitRest(full), "MAIPGH")
           /\ ModeIs(MacInitRest(full), full)
           /\ ~EndsDuplex(MacInitRest(full))
  <1> DEFINE q == MacInitRest(full)
  <1>1. /\ Len(q) = IF full THEN 8 ELSE 9
        /\ q[1] = SetMacon3(full) /\ q[2] = Set("MACON4") /\ q[3] = Write("MAMXFL")
        /\ q[4] = Write("MABBIPG") /\ q[5] = Write("MAIPGL")
        /\ full => q[6] = Bank(3) /\ q[7] = Write("MAC_ADD") /\ q[8] = Bank(0)
        /\ ~full => /\ q[6] = Write("MAIPGH") /\ q[7] = Bank(3)
                    /\ q[8] = Write("MAC_ADD") /\ q[9] = Bank(0)
    BY MacRestElems, Zenon
  <1> HIDE DEF q
  <1>2. /\ q[1].op = "set" /\ q[1].reg = "MACON3" /\ q[1].full = full
        /\ q[2].op = "set" /\ q[2].reg = "MACON4" /\ q[2].full = FALSE
        /\ q[3].op = "write" /\ q[3].reg = "MAMXFL" /\ q[4].op = "write"
        /\ q[4].reg = "MABBIPG" /\ q[5].op = "write" /\ q[5].reg = "MAIPGL"
    BY <1>1 DEF SetMacon3, Set, Write
  <1>3. CASE full = TRUE
    <2>1. /\ Len(q) = 8 /\ q[6] = Bank(3) /\ q[7] = Write("MAC_ADD") /\ q[8] = Bank(0)
      BY <1>1, <1>3
    <2>2. /\ q[6].op = "bank" /\ q[7].op = "write" /\ q[7].reg = "MAC_ADD"
          /\ q[8].op = "bank"
      BY <2>1 DEF Bank, Write
    <2>3. {3, 4, 5, 7} \subseteq 1..Len(q) BY <2>1
    <2>4. \A r \in Rest : Pending(q, r) BY <1>2, <2>2, <2>3 DEF Rest, Pending
    <2>5. ModeIs(q, full)
      <3> SUFFICES ASSUME NEW i \in 1..Len(q) PROVE KeepsMode(q[i], full) BY DEF ModeIs
      <3>1. i \in {1, 2, 3, 4, 5, 6, 7, 8} BY <2>1
      <3>2. q[i].op = "set" => i \in {1, 2} BY <1>2, <2>2, <3>1
      <3>3. q[i].op = "write" => q[i].reg # "MACON3" BY <1>2, <2>2, <3>1
      <3>4. q[i].op = "set" /\ q[i].reg = "MACON3" => q[i].full BY <1>2, <1>3, <3>2
      <3> QED BY <1>3, <3>3, <3>4 DEF KeepsMode
    <2>6. ~EndsDuplex(q) BY <2>1, <2>2 DEF EndsDuplex
    <2> QED BY <1>3, <2>4, <2>5, <2>6 DEF q
  <1>4. CASE full = FALSE
    <2>1. /\ Len(q) = 9 /\ q[6] = Write("MAIPGH") /\ q[7] = Bank(3)
          /\ q[8] = Write("MAC_ADD") /\ q[9] = Bank(0)
      BY <1>1, <1>4
    <2>2. /\ q[8].op = "write" /\ q[8].reg = "MAC_ADD" /\ q[9].op = "bank"
          /\ q[6].op = "write" /\ q[6].reg = "MAIPGH" /\ q[7].op = "bank"
      BY <2>1 DEF Bank, Write
    <2>3. {3, 4, 5, 6, 8} \subseteq 1..Len(q) BY <2>1
    <2>4. \A r \in Rest : Pending(q, r) BY <1>2, <2>2, <2>3 DEF Rest, Pending
    <2>5. Pending(q, "MAIPGH") BY <2>2, <2>3 DEF Pending
    <2>6. ModeIs(q, full)
      <3> SUFFICES ASSUME NEW i \in 1..Len(q) PROVE KeepsMode(q[i], full) BY DEF ModeIs
      <3>1. i \in {1, 2, 3, 4, 5, 6, 7, 8, 9} BY <2>1
      <3>2. q[i].op = "set" => i \in {1, 2} BY <1>2, <2>2, <3>1
      <3>3. q[i].op = "write" => q[i].reg # "MACON3" BY <1>2, <2>2, <3>1
      <3>4. q[i].op = "set" => ~q[i].full BY <1>2, <1>4, <3>2
      <3> QED BY <1>4, <3>3, <3>4 DEF KeepsMode
    <2>7. ~EndsDuplex(q) BY <2>1, <2>2 DEF EndsDuplex
    <2> QED BY <1>4, <2>4, <2>5, <2>6, <2>7 DEF q
  <1> QED BY <1>3, <1>4

(* enc28_do_read_hw_rev and enc28_begin_packet_transfer.                   *)
LEMMA LateLists ==
    /\ \A d : ModeIs(ReadHwRev, d) /\ ModeIs(BeginPacketTransfer, d) /\ ModeIs(<<>>, d)
    /\ ErdptFirst(BeginPacketTransfer)
    /\ ~EndsDuplex(ReadHwRev) /\ ~EndsDuplex(BeginPacketTransfer)
  <1>1. (\A d : ModeIs(ReadHwRev, d)) /\ ~EndsDuplex(ReadHwRev)
    <2> DEFINE T == {"bank", "miregadr", "micmd", "poll_busy", "read_mird", "read"}
               a == ReadPhy("PHID1")
               b == ReadPhy("PHID2")
               e == << Bank(3), Read("EREVID") >>
    <2>1. OpsIn(a, T) /\ OpsIn(b, T)
      BY DEF OpsIn, ReadPhy, Bank, MiiAddress, MiiCommand, Other
    <2>2. OpsIn(e, T) BY DEF OpsIn, Bank, Read
    <2>3. a \in Seq(AccessType) /\ b \in Seq(AccessType) /\ e \in Seq(AccessType)
      <3>1. {"PHID1", "PHID2"} \subseteq {"PHCON1", "PHID1", "PHID2"} OBVIOUS
      <3> QED BY <3>1, ReadPhyReady, ShortLists, Zenon
    <2>t. "set" \notin T /\ "write" \notin T /\ "duplex" \notin T OBVIOUS
    <2> HIDE DEF a, b, e, T
    <2>4. OpsIn(a \o b, T) BY <2>1, <2>3, OpsConcat, Zenon
    <2>5. a \o b \in Seq(AccessType) BY <2>3
    <2>6. OpsIn((a \o b) \o e, T) BY <2>2, <2>3, <2>4, <2>5, OpsConcat, Zenon
    <2>7. OpsIn(ReadHwRev, T) BY <2>6, Zenon DEF ReadHwRev, a, b, e
    <2>8. \A d : ModeIs(ReadHwRev, d) BY <2>7, <2>t, Zenon DEF OpsIn, ModeIs, KeepsMode
    <2>9. ReadHwRev # <<>> => Len(ReadHwRev) \in 1..Len(ReadHwRev)
      <3>1. ReadHwRev \in Seq(AccessType) BY LongLists
      <3> QED BY <3>1
    <2>10. ~EndsDuplex(ReadHwRev) BY <2>7, <2>9, <2>t, Zenon DEF OpsIn, EndsDuplex
    <2> QED BY <2>8, <2>10
  <1>2. /\ \A d : ModeIs(BeginPacketTransfer, d)
        /\ ErdptFirst(BeginPacketTransfer) /\ ~EndsDuplex(BeginPacketTransfer)
    <2> DEFINE q == BeginPacketTransfer
    <2>1. /\ Len(q) = 6 /\ q[1] = Bank(0) /\ q[2] = Write("ERDPT") /\ q[3] = Set("EIE")
          /\ q[4] = Clear("EIR") /\ q[5] = Set("ECON2") /\ q[6] = Rxen(TRUE)
      BY DEF BeginPacketTransfer
    <2> HIDE DEF q
    <2>2. /\ q[1].op = "bank" /\ q[2].op = "write" /\ q[2].reg = "ERDPT" /\ q[3].op = "set"
          /\ q[3].reg = "EIE" /\ q[3].full = FALSE /\ q[4].op = "clear" /\ q[5].op = "set"
          /\ q[5].reg = "ECON2" /\ q[5].full = FALSE /\ q[6].op = "rxen"
      BY <2>1 DEF Bank, Write, Set, Clear, Rxen
    <2>3. \A i \in 1..Len(q) : i \in {1, 2, 3, 4, 5, 6} BY <2>1
    <2>4. \A d : ModeIs(q, d)
      <3> SUFFICES ASSUME NEW d, NEW i \in 1..Len(q) PROVE KeepsMode(q[i], d) BY DEF ModeIs
      <3>1. q[i].op = "write" => q[i].reg # "MACON3" BY <2>2, <2>3
      <3>2. q[i].op = "set" => q[i].reg # "MACON3" /\ ~q[i].full BY <2>2, <2>3
      <3> QED BY <3>1, <3>2 DEF KeepsMode
    <2>5. 2 \in 1..Len(q) /\ \A k \in 1..2 : k \in {1, 2} BY <2>1
    <2>6. ErdptFirst(q) BY <2>2, <2>5 DEF ErdptFirst
    <2>7. ~EndsDuplex(q) BY <2>1, <2>2 DEF EndsDuplex
    <2> QED BY <2>4, <2>6, <2>7 DEF q
  <1>3. \A d : ModeIs(<<>>, d) BY DEF ModeIs
  <1> QED BY <1>1, <1>2, <1>3

(* What an access programs: a written register, and whatever the "set      *)
(* bits" command does, MACON3 gets FULLDPX only together with the rest.    *)
LEMMA WorkPrograms ==
    ASSUME BankInv, Work
    PROVE  /\ Head(todo).op # "duplex"
           /\ Head(todo).op = "write" => Head(todo).reg \in programmed'
           /\ \/ UNCHANGED <<programmed, fulldpx>>
              \/ /\ Head(todo).op = "write" /\ fulldpx' = fulldpx
                 /\ programmed' = programmed \cup {Head(todo).reg}
              \/ /\ Head(todo).op = "set" /\ fulldpx' = (fulldpx \/ Head(todo).full)
                 /\ programmed' = programmed \cup {Head(todo).reg}
              \/ /\ Head(todo).op = "set" /\ programmed' = programmed
                 /\ fulldpx' = (fulldpx \/ FALSE)
           /\ miregadr' = IF Head(todo).op = "miregadr" THEN Head(todo).phy ELSE miregadr
           /\ Head(todo).op = "read_mird" => ReadMird
  <1>r. ASSUME todo # <<>>, Head(todo).op \in {"write", "set"} PROVE Reached(Reg) = Reg
    <2>1. Reg \in Common \/ \E c \in 0..3 : Reg \in Banks[c + 1] /\ hwBank = c /\ currBank = c
      BY <1>r, RegFits
    <2>2. hwBank \in 0..3 BY DEF BankInv
    <2> QED BY <2>1, <2>2, CommonReached, BankedReached, Zenon
  <1>1. CASE SelectBank BY <1>1 DEF SelectBank, Do, mac, mii
  <1>2. CASE WriteReg BY <1>2, <1>r DEF WriteReg, Do, mii, Reg
  <1>3. CASE SetBits
    <2>1. todo # <<>> /\ Head(todo).op = "set" /\ miregadr' = miregadr
      BY <1>3 DEF SetBits, Do, mii
    <2>2. Reached(Reg) = Head(todo).reg BY <1>r, <2>1 DEF Reg
    <2>3. PICK works \in SetWorks(Reg) :
             /\ programmed' = IF works THEN programmed \cup {Reached(Reg)} ELSE programmed
             /\ fulldpx' = (fulldpx \/ (works /\ Head(todo).full))
      BY <1>3 DEF SetBits
    <2>4. works \in BOOLEAN BY DEF SetWorks
    <2>5. CASE works = TRUE BY <2>1, <2>2, <2>3, <2>5
    <2>6. CASE works = FALSE BY <2>1, <2>3, <2>6
    <2> QED BY <2>4, <2>5, <2>6
  <1>4. CASE SetRxen BY <1>4 DEF SetRxen, Do, mac, mii
  <1>5. CASE ReadOrClear BY <1>5 DEF ReadOrClear, Do, mac, mii
  <1>6. CASE PollClock BY <1>6 DEF PollClock, Do, mac, mii
  <1>7. CASE WriteMiregadr BY <1>7 DEF WriteMiregadr, Do, mac
  <1>8. CASE WriteMicmd BY <1>8 DEF WriteMicmd, Do, mac
  <1>9. CASE PollBusy BY <1>9 DEF PollBusy, Do, mac, mii
  <1>10. CASE ReadMird BY <1>10 DEF ReadMird, Do, mac, mii
  <1> QED BY <1>1, <1>2, <1>3, <1>4, <1>5, <1>6, <1>7, <1>8, <1>9, <1>10 DEF Work

(* Every step keeps SetupInv.                                              *)
LEMMA SetupStep ==
    BankInv /\ StageInv /\ PhyInv /\ SetupInv /\ [Next]_vars => SetupInv'
  <1> SUFFICES ASSUME BankInv, StageInv, PhyInv, SetupInv, [Next]_vars PROVE SetupInv'
    OBVIOUS
  <1>0. ASSUME UNCHANGED <<rxen, duplex, fulldpx, miregadr, programmed, todo, value, stage>>
        PROVE  SetupInv'
    BY <1>0 DEF SetupInv, Due, Pending, ModeIs, KeepsMode, RestDue, EndsDuplex, ReadsPhcon1,
                ErdptFirst
  <1>e. ASSUME todo = <<>>
        PROVE  /\ ~EndsDuplex(todo) /\ ~ErdptFirst(todo)
               /\ \A r : ~Pending(todo, r)
    BY <1>e DEF EndsDuplex, ErdptFirst, Pending
  <1>1. CASE SoftReset
    <2>1. /\ fulldpx' = FALSE /\ programmed' = {} /\ todo' = <<>>
          /\ (stage = "any" /\ stage' = "any") \/ (stage = "start" /\ stage' = "reset")
      BY <1>1 DEF SoftReset, Advance
    <2>2. ModeIs(todo, duplex)' BY <2>1, LateLists
    <2> QED BY <2>1, <2>2 DEF SetupInv, Receiving
  <1>2. CASE CallInit
    <2>1. /\ todo' = DoInit /\ UNCHANGED <<fulldpx, duplex, programmed>>
          /\ (stage = "any" /\ stage' = "any") \/ (stage = "reset" /\ stage' = "init")
      BY <1>2 DEF CallInit, Call, Advance, chip
    <2>2. /\ \A r \in First : Pending(todo', r)
          /\ EndsDuplex(todo') /\ ReadsPhcon1(todo') /\ Len(todo') = 18
          /\ ModeIs(todo', duplex')
      BY <2>1, DoInitSetup
    <2>3. \A r \in First : Due(r)' BY <2>2 DEF Due
    <2> QED BY <2>1, <2>2, <2>3 DEF SetupInv, Receiving
  <1>3. CASE CallHwRev
    <2>1. /\ todo = <<>> /\ todo' = ReadHwRev /\ UNCHANGED <<fulldpx, duplex, programmed>>
          /\ (stage = "any" /\ stage' = "any") \/ (stage = "init" /\ stage' = "hw_rev")
      BY <1>3 DEF CallHwRev, Call, Advance, chip
    <2>2. ModeIs(todo', duplex') /\ ~EndsDuplex(todo') BY <2>1, LateLists
    <2>3. CASE stage = "any" BY <2>1, <2>3 DEF SetupInv, Receiving
    <2>4. CASE stage = "init"
      <3>1. (\A r \in First : Due(r)) /\ RestDue BY <1>e, <2>1, <2>4 DEF SetupInv
      <3>2. First \cup Rest \subseteq programmed BY <1>e, <2>1, <3>1 DEF RestDue, Due
      <3>3. duplex \/ "MAIPGH" \in programmed BY <1>e, <2>1, <3>1 DEF RestDue, Due
      <3> QED BY <2>1, <2>2, <2>4, <3>2, <3>3 DEF SetupInv, Receiving
    <2> QED BY <2>1, <2>3, <2>4
  <1>4. CASE CallBegin
    <2>1. /\ todo' = BeginPacketTransfer /\ UNCHANGED <<fulldpx, duplex, programmed, rxen>>
          /\ (stage = "any" /\ stage' = "any") \/ (stage = "hw_rev" /\ stage' = "begin")
      BY <1>4 DEF CallBegin, Call, Advance, chip
    <2>2. ModeIs(todo', duplex') /\ ErdptFirst(todo') /\ ~EndsDuplex(todo')
      BY <2>1, LateLists
    <2>3. stage = "hw_rev" => ~rxen BY DEF StageInv
    <2> QED BY <2>1, <2>2, <2>3 DEF SetupInv, Receiving
  <1>5. CASE CallReadMac \/ CallEnd
    <2>1. fulldpx' = fulldpx /\ stage' = "any"
      BY <1>5 DEF CallReadMac, CallEnd, Call, Advance, chip
    <2> QED BY <2>1 DEF SetupInv, Receiving
  <1>6. CASE CreatePacketTask \/ CreateIpTask \/ CreateQueues \/ StartScheduler
    <2>1. /\ stage \in Receiving /\ stage' \in Receiving
          /\ UNCHANGED <<fulldpx, duplex, programmed, rxen, todo>>
      BY <1>6 DEF CreatePacketTask, CreateIpTask, CreateQueues, StartScheduler, Step, chip,
                  Receiving
    <2>2. Receiving \cap {"init", "any"} = {} BY DEF Receiving
    <2> QED BY <2>1, <2>2 DEF SetupInv, ModeIs, KeepsMode, ErdptFirst, EndsDuplex
  <1>8. CASE Work
    <2> DEFINE h == Head(todo)
    <2>1. /\ todo # <<>> /\ todo' = Tail(todo) /\ todo \in Seq(AccessType)
          /\ UNCHANGED <<duplex, stage>>
          /\ h.op # "rxen" => rxen' = rxen
          /\ h.op # "set" => fulldpx' = fulldpx
          /\ programmed \subseteq programmed'
      BY <1>8, WorkFacts DEF BankInv
    <2>2. /\ h.op # "duplex"
          /\ h.op = "write" => h.reg \in programmed'
          /\ \/ UNCHANGED <<programmed, fulldpx>>
             \/ /\ h.op = "write" /\ fulldpx' = fulldpx
                /\ programmed' = programmed \cup {h.reg}
             \/ /\ h.op = "set" /\ fulldpx' = (fulldpx \/ h.full)
                /\ programmed' = programmed \cup {h.reg}
             \/ /\ h.op = "set" /\ programmed' = programmed
                /\ fulldpx' = (fulldpx \/ FALSE)
          /\ miregadr' = IF h.op = "miregadr" THEN h.phy ELSE miregadr
          /\ h.op = "read_mird" => ReadMird
      BY <1>8, WorkPrograms
    <2>3. /\ \A r : Pending(todo, r) => (h.op = "write" /\ h.reg = r) \/ Pending(todo', r)
          /\ ModeIs(todo, duplex) => KeepsMode(h, duplex) /\ ModeIs(todo', duplex)
          /\ ErdptFirst(todo) => /\ h.op # "rxen"
                                 /\ \/ h.op = "write" /\ h.reg = "ERDPT"
                                    \/ ErdptFirst(todo')
      BY <2>1, PendingTail, Zenon
    <2> HIDE DEF h
    <2>4. \A r : Due(r) => Due(r)' BY <2>1, <2>2, <2>3 DEF Due
    <2>5. fulldpx' \in BOOLEAN BY <2>2 DEF SetupInv
    <2>6. fulldpx => fulldpx' BY <2>2
    <2>7. stage' # "any" => /\ fulldpx' => duplex'
                            /\ "MACON3" \in programmed' /\ duplex' => fulldpx'
                            /\ ModeIs(todo', duplex')
      <3> SUFFICES ASSUME stage # "any"
                   PROVE  /\ fulldpx' => duplex
                          /\ "MACON3" \in programmed' /\ duplex => fulldpx'
                          /\ ModeIs(todo', duplex)
        BY <2>1
      <3>1. /\ fulldpx => duplex
            /\ "MACON3" \in programmed /\ duplex => fulldpx
            /\ KeepsMode(h, duplex) /\ ModeIs(todo', duplex)
        BY <2>3 DEF SetupInv
      <3>2. CASE UNCHANGED <<programmed, fulldpx>> BY <3>1, <3>2
      <3>3. CASE h.op = "write" /\ fulldpx' = fulldpx /\ programmed' = programmed \cup {h.reg}
        BY <3>1, <3>3 DEF KeepsMode
      <3>4. CASE /\ h.op = "set" /\ fulldpx' = (fulldpx \/ h.full)
                 /\ programmed' = programmed \cup {h.reg}
        BY <3>1, <3>4 DEF KeepsMode
      <3>5. CASE h.op = "set" /\ programmed' = programmed /\ fulldpx' = (fulldpx \/ FALSE)
        BY <3>1, <3>5
      <3> QED BY <2>2, <3>2, <3>3, <3>4, <3>5
    <2>8. stage' = "init" =>
             /\ \A r \in First : Due(r)'
             /\ IF EndsDuplex(todo')
                THEN /\ ReadsPhcon1(todo')
                     /\ Len(todo') <= 7 => miregadr' = "PHCON1"
                     /\ Len(todo') = 1 => value' = "PHCON1"
                ELSE RestDue'
      <3> SUFFICES ASSUME stage = "init"
                   PROVE  /\ \A r \in First : Due(r)'
                          /\ IF EndsDuplex(todo')
                             THEN /\ ReadsPhcon1(todo')
                                  /\ Len(todo') <= 7 => miregadr' = "PHCON1"
                                  /\ Len(todo') = 1 => value' = "PHCON1"
                             ELSE RestDue'
        BY <2>1
      <3>1. \A r \in First : Due(r)' BY <2>4 DEF SetupInv
      <3>2. CASE EndsDuplex(todo)
        <4>1. ReadsPhcon1(todo) /\ (Len(todo) <= 7 => miregadr = "PHCON1")
          BY <3>2 DEF SetupInv
        <4>2. /\ EndsDuplex(todo') /\ ReadsPhcon1(todo') /\ Len(todo') = Len(todo) - 1
              /\ Len(todo) = 8 => h.op = "miregadr"
              /\ Len(todo) = 2 => h.op = "read_mird"
              /\ h.op = "miregadr" => h.phy = "PHCON1"
              /\ Len(todo) \in Nat /\ Len(todo) >= 2
          BY <2>1, <2>2, <3>2, <4>1, DuplexTail, Zenon DEF h
        <4>3. Len(todo') <= 7 => miregadr' = "PHCON1" BY <2>2, <4>1, <4>2
        <4>4. ASSUME Len(todo') = 1 PROVE value' = "PHCON1"
          <5>0. Len(todo') = Len(todo) - 1 /\ Len(todo) \in Nat BY <4>2, Zenon
          <5>n. \A n \in Nat : 1 = n - 1 => n = 2 OBVIOUS
          <5>1. Len(todo) = 2 BY <4>4, <5>0, <5>n, Zenon
          <5>2. ReadMird /\ miregadr = "PHCON1" BY <2>2, <4>1, <4>2, <5>1
          <5> QED BY <5>2, MirdIsFresh
        <4> QED BY <3>1, <4>2, <4>3, <4>4
      <3>3. CASE ~EndsDuplex(todo)
        <4>1. RestDue BY <3>3 DEF SetupInv
        <4>2. ~EndsDuplex(todo') BY <2>1, <3>3, NoDuplexTail
        <4>3. RestDue'
          <5>1. \A r \in Rest : Due(r)' BY <2>4, <4>1 DEF RestDue
          <5>2. duplex' \/ Due("MAIPGH")' BY <2>1, <2>4, <4>1 DEF RestDue
          <5> QED BY <5>1, <5>2 DEF RestDue
        <4> QED BY <3>1, <4>2, <4>3
      <3> QED BY <3>2, <3>3
    <2>9. stage' \in {"hw_rev"} \cup Receiving =>
             /\ First \cup Rest \subseteq programmed'
             /\ duplex' \/ "MAIPGH" \in programmed'
             /\ ~EndsDuplex(todo')
      BY <2>1, NoDuplexTail DEF SetupInv
    <2>10. stage' \in Receiving =>
              "ERDPT" \in programmed' \/ (~rxen' /\ ErdptFirst(todo'))
      BY <2>1, <2>2, <2>3 DEF SetupInv
    <2> QED BY <2>5, <2>7, <2>8, <2>9, <2>10, Zenon DEF SetupInv
  <1>9. CASE UseDuplex
    <2>1. PICK full \in IF value = "PHCON1" THEN {duplex} ELSE BOOLEAN :
                 todo' = MacInitRest(full)
      BY <1>9 DEF UseDuplex
    <2>2. /\ todo = << Other("duplex") >>
          /\ UNCHANGED <<rxen, duplex, fulldpx, programmed, stage>>
      BY <1>9 DEF UseDuplex, chip
    <2>3. full \in BOOLEAN BY DEF BankInv
    <2>4. /\ \A r \in Rest : Pending(todo', r)
          /\ full \/ Pending(todo', "MAIPGH")
          /\ ModeIs(todo', full)
          /\ ~EndsDuplex(todo')
      BY <2>1, <2>3, MacRestSetup
    <2>5. /\ EndsDuplex(todo) /\ Len(todo) = 1 /\ ~ErdptFirst(todo)
          /\ \A r : ~Pending(todo, r)
      BY <2>2 DEF EndsDuplex, Other, ErdptFirst, Pending
    <2>6. CASE stage = "any" BY <2>2, <2>6 DEF SetupInv, Receiving
    <2>7. CASE stage = "init"
      <3>1. full = duplex BY <2>1, <2>5, <2>7 DEF SetupInv
      <3>2. \A r \in First : Due(r)' BY <2>2, <2>5, <2>7 DEF SetupInv, Due
      <3>3. RestDue' BY <2>2, <2>4, <3>1 DEF RestDue, Due
      <3>4. ModeIs(todo', duplex') BY <2>2, <2>4, <3>1
      <3> QED BY <2>2, <2>4, <2>7, <3>2, <3>3, <3>4 DEF SetupInv, Receiving
    <2>8. CASE stage \in {"start", "reset"} BY <2>2, <2>8 DEF StageInv
    <2>9. CASE stage \in {"hw_rev"} \cup Receiving BY <2>5, <2>9 DEF SetupInv
    <2> QED BY <2>6, <2>7, <2>8, <2>9 DEF StageInv, Stages, Receiving
  <1>10. CASE ClockStable BY <1>10, <1>0 DEF ClockStable
  <1>11. CASE MiiDone BY <1>11, <1>0 DEF MiiDone
  <1>12. CASE FrameInterrupt BY <1>12, <1>0 DEF FrameInterrupt, chip
  <1>13. CASE UNCHANGED vars BY <1>13, <1>0 DEF vars, chip
  <1> QED
    BY <1>1, <1>2, <1>3, <1>4, <1>5, <1>6, <1>8, <1>9, <1>10, <1>11, <1>12, <1>13
          DEF Next, Driver, Work

(* When the application has reception enabled, ring, filters, read         *)
(* pointer, lengths, gaps and address are written, and the MAC has no      *)
(* other duplex mode than the PHY, whatever the "set bits" command does to *)
(* MAC registers.                                                          *)
THEOREM SetUpFirst == Spec => []ReadyWhenReceiving
  <1>1. Init => SetupInv
    <2> SUFFICES ASSUME Init PROVE SetupInv OBVIOUS
    <2>1. /\ fulldpx = FALSE /\ programmed = {} /\ todo = <<>>
          /\ stage \in {"start", "any"}
      BY DEF Init
    <2>2. ModeIs(todo, duplex) BY <2>1, LateLists
    <2> QED BY <2>1, <2>2 DEF SetupInv, Receiving
  <1>2. BankInv /\ StageInv /\ PhyInv /\ SetupInv /\ [Next]_vars => SetupInv'
    BY SetupStep
  <1>3. StageInv /\ SetupInv => ReadyWhenReceiving
    <2> SUFFICES ASSUME StageInv, SetupInv, rxen, stage # "any"
                 PROVE  /\ First \cup Rest \cup {"ERDPT"} \subseteq programmed
                        /\ fulldpx => duplex
                        /\ "MACON3" \in programmed /\ duplex => fulldpx
                        /\ duplex \/ "MAIPGH" \in programmed
      BY DEF ReadyWhenReceiving, First, Rest
    <2>1. stage \in Receiving BY DEF StageInv, Stages, Receiving
    <2> QED BY <2>1 DEF SetupInv
  <1> QED BY <1>1, <1>2, <1>3, BankInvariant, StageInvariant, PhyInvariant, PTL DEF Spec

=============================================================================
