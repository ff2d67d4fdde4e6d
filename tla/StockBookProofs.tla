--------------------------- MODULE StockBookProofs ---------------------------
(***************************************************************************)
(* Lemmas about chains of movements, on which the proofs of StockControl   *)
(* and Till rest.                                                          *)
(***************************************************************************)
EXTENDS StockBook, TLAPS

(* What adjust_stock records is a movement, if it does not pass zero. *)
LEMMA EntryType ==
    ASSUME NEW q \in Nat, NEW d \in Int, q + d >= 0,
           NEW reason \in Reason, NEW ref \in Ref \cup {NoRef}
    PROVE  Entry(q, d, reason, ref) \in Movement
BY DEF Entry, Movement, Routed

(* The fields that make an entry a link of a chain. *)
LEMMA EntryFields ==
    ASSUME NEW q \in Nat, NEW d \in Int, NEW reason, NEW ref
    PROVE  /\ Entry(q, d, reason, ref).before = q
           /\ Entry(q, d, reason, ref).delta = d
           /\ Entry(q, d, reason, ref).after = q + d
BY DEF Entry

(* A log of movements ends at a quantity. *)
LEMMA EndOfType ==
    ASSUME NEW log \in Seq(Movement), NEW q \in Nat
    PROVE  EndOf(log, q) \in Nat
<1>1. CASE log = <<>>
  BY <1>1 DEF EndOf
<1>2. CASE log # <<>>
  <2>1. Len(log) \in 1..Len(log)
    BY <1>2
  <2>2. log[Len(log)] \in Movement
    BY <2>1
  <2> QED
    BY <1>2, <2>2 DEF EndOf, Movement
<1> QED
  BY <1>1, <1>2

(* Appending a legal move at the end keeps a chain a chain. *)
LEMMA ChainAppend ==
    ASSUME NEW log \in Seq(Movement), NEW q \in Nat, NEW m \in Movement,
           Chained(log, q),
           m.before = EndOf(log, q),
           m.after = m.before + m.delta
    PROVE  /\ Chained(Append(log, m), q)
           /\ EndOf(Append(log, m), q) = m.after
<1> DEFINE new == Append(log, m)
<1>1. /\ Len(new) = Len(log) + 1
      /\ new[Len(log) + 1] = m
      /\ \A i \in 1..Len(log) : new[i] = log[i]
      /\ new # <<>>
  OBVIOUS
<1>2. EndOf(new, q) = m.after
  BY <1>1 DEF EndOf
<1>3. ASSUME NEW i \in 1..Len(new)
      PROVE  /\ new[i].before = IF i = 1 THEN q ELSE new[i - 1].after
             /\ new[i].after = new[i].before + new[i].delta
             /\ new[i].after >= 0
  <2>1. CASE i \in 1..Len(log)
    <3>1. i # 1 => i - 1 \in 1..Len(log)
      BY <2>1
    <3> QED
      BY <1>1, <2>1, <3>1 DEF Chained
  <2>2. CASE i = Len(log) + 1
    <3>1. CASE log = <<>>
      BY <1>1, <2>2, <3>1 DEF EndOf, Movement
    <3>2. CASE log # <<>>
      <4>1. Len(log) \in 1..Len(log) /\ i # 1 /\ i - 1 = Len(log)
        BY <2>2, <3>2
      <4> QED
        BY <1>1, <2>2, <3>2, <4>1 DEF EndOf, Movement
    <3> QED
      BY <3>1, <3>2
  <2> QED
    BY <1>1, <2>1, <2>2
<1> QED
  BY <1>2, <1>3 DEF Chained

(* A chain continued by a chain is a chain. *)
LEMMA ChainConcat ==
    ASSUME NEW log \in Seq(Movement), NEW more \in Seq(Movement), NEW q \in Nat,
           Chained(log, q), Chained(more, EndOf(log, q))
    PROVE  /\ Chained(log \o more, q)
           /\ EndOf(log \o more, q) = EndOf(more, EndOf(log, q))
<1> DEFINE all == log \o more
<1>1. /\ Len(all) = Len(log) + Len(more)
      /\ \A i \in 1..Len(log) : all[i] = log[i]
      /\ \A i \in 1..Len(more) : all[Len(log) + i] = more[i]
  OBVIOUS
<1>2. EndOf(all, q) = EndOf(more, EndOf(log, q))
  <2>1. CASE more = <<>>
    <3>1. all = log
      BY <2>1
    <3> QED
      BY <2>1, <3>1 DEF EndOf
  <2>2. CASE more # <<>>
    <3>1. Len(more) \in 1..Len(more) /\ all # <<>>
      BY <1>1, <2>2
    <3>2. all[Len(all)] = more[Len(more)]
      BY <1>1, <3>1
    <3> QED
      BY <2>2, <3>1, <3>2 DEF EndOf
  <2> QED
    BY <2>1, <2>2
<1>3. ASSUME NEW i \in 1..Len(all)
      PROVE  /\ all[i].before = IF i = 1 THEN q ELSE all[i - 1].after
             /\ all[i].after = all[i].before + all[i].delta
             /\ all[i].after >= 0
  <2>1. CASE i \in 1..Len(log)
    <3>1. i # 1 => i - 1 \in 1..Len(log)
      BY <2>1
    <3> QED
      BY <1>1, <2>1, <3>1 DEF Chained
  <2>2. CASE i \notin 1..Len(log)
    <3> DEFINE j == i - Len(log)
    <3>1. j \in 1..Len(more) /\ i = Len(log) + j
      BY <1>1, <2>2
    <3> HIDE DEF j
    <3>2. all[i] = more[j]
      BY <1>1, <3>1
    <3>3. /\ more[j].before = IF j = 1 THEN EndOf(log, q) ELSE more[j - 1].after
          /\ more[j].after = more[j].before + more[j].delta
          /\ more[j].after >= 0
      BY <3>1 DEF Chained
    <3>4. CASE j # 1
      <4>1. j - 1 \in 1..Len(more) /\ i - 1 = Len(log) + (j - 1) /\ i # 1
        BY <3>1, <3>4
      <4>2. all[i - 1] = more[j - 1]
        BY <1>1, <4>1
      <4> QED
        BY <3>2, <3>3, <3>4, <4>1, <4>2
    <3>5. CASE j = 1 /\ log = <<>>
      BY <3>1, <3>2, <3>3, <3>5 DEF EndOf
    <3>6. CASE j = 1 /\ log # <<>>
      <4>1. Len(log) \in 1..Len(log) /\ i # 1 /\ i - 1 = Len(log)
        BY <3>1, <3>6
      <4>2. all[i - 1] = log[Len(log)]
        BY <1>1, <4>1
      <4> QED
        BY <3>2, <3>3, <3>6, <4>1, <4>2 DEF EndOf
    <3> QED
      BY <3>4, <3>5, <3>6
  <2> QED
    BY <2>1, <2>2
<1> QED
  BY <1>2, <1>3 DEF Chained

(* The empty log is a chain, and a log is a prefix of its extensions. *)
LEMMA ChainEmpty ==
    ASSUME NEW q
    PROVE  Chained(<<>>, q) /\ EndOf(<<>>, q) = q
BY DEF Chained, EndOf

LEMMA ConcatType ==
    ASSUME NEW log \in Seq(Movement), NEW more \in Seq(Movement)
    PROVE  /\ log \o more \in Seq(Movement)
           /\ more = <<>> => log \o more = log
<1>1. log \o more \in Seq(Movement)
  OBVIOUS
<1>2. ASSUME more = <<>> PROVE log \o more = log
  <2>1. Len(log \o <<>>) = Len(log)
    OBVIOUS
  <2>2. log \o <<>> \in Seq(Movement)
    OBVIOUS
  <2>3. \A i \in 1..Len(log) : (log \o <<>>)[i] = log[i]
    OBVIOUS
  <2> QED
    BY <1>2, <2>1, <2>2, <2>3
<1> QED
  BY <1>1, <1>2

LEMMA PrefixOfConcat ==
    ASSUME NEW log \in Seq(Movement), NEW more \in Seq(Movement)
    PROVE  /\ Len(log) <= Len(log \o more)
           /\ SubSeq(log \o more, 1, Len(log)) = log
<1>1. Len(log \o more) = Len(log) + Len(more)
  OBVIOUS
<1>2. SubSeq(log \o more, 1, Len(log)) \in Seq(Movement)
  OBVIOUS
<1>3. Len(SubSeq(log \o more, 1, Len(log))) = Len(log)
  BY <1>1
<1>4. \A i \in 1..Len(log) : SubSeq(log \o more, 1, Len(log))[i] = log[i]
  BY <1>1
<1> QED
  BY <1>1, <1>2, <1>3, <1>4

LEMMA PrefixOfAppend ==
    ASSUME NEW log \in Seq(Movement), NEW m \in Movement
    PROVE  /\ Append(log, m) \in Seq(Movement)
           /\ Len(log) <= Len(Append(log, m))
           /\ SubSeq(Append(log, m), 1, Len(log)) = log
<1>1. /\ Append(log, m) \in Seq(Movement)
      /\ Len(Append(log, m)) = Len(log) + 1
  OBVIOUS
<1>2. /\ SubSeq(Append(log, m), 1, Len(log)) \in Seq(Movement)
      /\ Len(SubSeq(Append(log, m), 1, Len(log))) = Len(log)
  BY <1>1
<1>3. \A i \in 1..Len(log) : SubSeq(Append(log, m), 1, Len(log))[i] = log[i]
  BY <1>1
<1> QED
  BY <1>1, <1>2, <1>3
=============================================================================
