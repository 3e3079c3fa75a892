------------------------ MODULE PermissionSyncProofs ------------------------
(***************************************************************************)
(* Proofs about the permission formats and the comparison made with them:  *)
(* what TLC checks in MCPermissionSync for strings of a few segments holds *)
(* for strings, lists and trees of any size.                               *)
(***************************************************************************)
EXTENDS PermissionSync, SequenceTheorems, FiniteSetTheorems, TLAPS

-----------------------------------------------------------------------------
(***************************************************************************)
(* Sequences of segments.                                                  *)
(***************************************************************************)

(* The segments of a concatenation. *)
LEMMA ConcatParts ==
  ASSUME NEW S, NEW s \in Seq(S), NEW t \in Seq(S), NEW n \in Nat, Len(s) = n
  PROVE  /\ s \o t \in Seq(S)
         /\ Len(s \o t) = Len(t) + n
         /\ \A i \in 1..n : (s \o t)[i] = s[i]
         /\ \A i \in 1..Len(t) : (s \o t)[i + n] = t[i]
<1>1. /\ s \o t \in Seq(S)
      /\ Len(s \o t) = Len(s) + Len(t)
      /\ \A i \in 1..Len(s) + Len(t) :
            (s \o t)[i] = IF i <= Len(s) THEN s[i] ELSE t[i - Len(s)]
  BY ConcatProperties
<1>2. Len(t) \in Nat
  OBVIOUS
<1>3. \A i \in 1..Len(t) : /\ i + n \in 1..Len(s) + Len(t)
                           /\ ~(i + n <= Len(s))
                           /\ (i + n) - Len(s) = i
  BY <1>2
<1> QED
  BY <1>1, <1>2, <1>3

(* What follows the first and the second segment. *)
LEMMA TailParts ==
  ASSUME NEW S, NEW s \in Seq(S), Len(s) >= 2
  PROVE  /\ Tail(s) \in Seq(S) \ {<<>>}
         /\ Len(Tail(s)) = Len(s) - 1
         /\ Tail(Tail(s)) \in Seq(S)
         /\ Len(Tail(Tail(s))) = Len(s) - 2
         /\ Len(s) # 2 => Tail(Tail(s)) # <<>>
<1>1. Tail(s) \in Seq(S) /\ Len(Tail(s)) = Len(s) - 1
  OBVIOUS
<1>2. \A t \in Seq(S) : Len(t) >= 1 => Tail(t) \in Seq(S) /\ Len(Tail(t)) = Len(t) - 1
  OBVIOUS
<1>3. Len(Tail(s)) >= 1
  BY <1>1
<1>4. Tail(Tail(s)) \in Seq(S) /\ Len(Tail(Tail(s))) = Len(Tail(s)) - 1
  BY <1>1, <1>2, <1>3, Zenon
<1>5. \A t \in Seq(S) : Len(t) >= 1 => t # <<>>
  OBVIOUS
<1>6. \A n : n = Len(Tail(Tail(s))) => n = Len(s) - 2 /\ (Len(s) # 2 => n >= 1)
  <2>1. \A t : Len(t) = Len(s) - 1 - 1 => Len(t) = Len(s) - 2 /\ (Len(s) # 2 => Len(t) >= 1)
    OBVIOUS
  <2>2. Len(Tail(Tail(s))) = Len(s) - 1 - 1
    BY <1>1, <1>4, Zenon
  <2> QED
    BY <2>1, <2>2, Zenon
<1> QED
  BY <1>1, <1>3, <1>4, <1>5, <1>6, Zenon

(* What comes before the last segment, and the last segment. *)
LEMMA FrontLast ==
  ASSUME NEW S, NEW s \in Seq(S), NEW e \in S
  PROVE  /\ s \o <<e>> \in Seq(S)
         /\ Len(s \o <<e>>) = Len(s) + 1
         /\ Front(s \o <<e>>) = s
         /\ Last(s \o <<e>>) = e
<1>1. /\ s \o <<e>> \in Seq(S)
      /\ Len(s \o <<e>>) = Len(s) + 1
      /\ \A i \in 1..Len(s) : (s \o <<e>>)[i] = s[i]
      /\ (s \o <<e>>)[Len(s) + 1] = e
  OBVIOUS
<1>2. Front(s \o <<e>>) = SubSeq(s \o <<e>>, 1, Len(s))
  BY <1>1 DEF Front
<1>3. /\ SubSeq(s \o <<e>>, 1, Len(s)) \in Seq(S)
      /\ Len(SubSeq(s \o <<e>>, 1, Len(s))) = Len(s)
      /\ \A i \in 1..Len(s) : SubSeq(s \o <<e>>, 1, Len(s))[i] = s[i]
  BY <1>1
<1>4. SubSeq(s \o <<e>>, 1, Len(s)) = s
  BY <1>3, SeqEqual
<1> QED
  BY <1>1, <1>2, <1>4 DEF Last

(* A resource of two segments and what follows it. *)
LEMMA TwoThenRest ==
  ASSUME NEW S, NEW s \in Seq(S), Len(s) = 2, NEW t \in Seq(S)
  PROVE  /\ s \o t \in Seq(S)
         /\ Len(s \o t) = Len(t) + 2
         /\ (s \o t)[1] = s[1]
         /\ SubSeq(s \o t, 1, 2) = s
         /\ Tail(s \o t) = <<s[2]>> \o t
         /\ Tail(Tail(s \o t)) = t
<1>1. /\ s \o t \in Seq(S)
      /\ Len(s \o t) = Len(t) + 2
      /\ \A i \in 1..2 : (s \o t)[i] = s[i]
      /\ \A i \in 1..Len(t) : (s \o t)[i + 2] = t[i]
  <2>1. \A n \in Nat : Len(s) = n =>
          /\ s \o t \in Seq(S)
          /\ Len(s \o t) = Len(t) + n
          /\ \A i \in 1..n : (s \o t)[i] = s[i]
          /\ \A i \in 1..Len(t) : (s \o t)[i + n] = t[i]
    BY ConcatParts
  <2> QED
    BY <2>1
<1>2. SubSeq(s \o t, 1, 2) = s
  <2>1. /\ SubSeq(s \o t, 1, 2) \in Seq(S)
        /\ Len(SubSeq(s \o t, 1, 2)) = 2
        /\ \A i \in 1..2 : SubSeq(s \o t, 1, 2)[i] = s[i]
    BY <1>1
  <2> QED
    BY <2>1, SeqEqual
<1>3. /\ Tail(s \o t) \in Seq(S)
      /\ Len(Tail(s \o t)) = Len(t) + 1
      /\ \A i \in 1..Len(t) + 1 : Tail(s \o t)[i] = (s \o t)[i + 1]
  BY <1>1
<1>4. Tail(s \o t) = <<s[2]>> \o t
  <2>1. /\ <<s[2]>> \o t \in Seq(S)
        /\ Len(<<s[2]>> \o t) = Len(t) + 1
        /\ (<<s[2]>> \o t)[1] = s[2]
        /\ \A i \in 1..Len(t) : (<<s[2]>> \o t)[i + 1] = t[i]
    <3>1. /\ <<s[2]>> \in Seq(S)
          /\ Len(<<s[2]>>) = 1
          /\ <<s[2]>>[1] = s[2]
      OBVIOUS
    <3> QED
      BY <3>1, ConcatParts
  <2>2. \A i \in 1..Len(t) + 1 : Tail(s \o t)[i] = (<<s[2]>> \o t)[i]
    <3> TAKE i \in 1..Len(t) + 1
    <3>1. CASE i = 1
      BY <3>1, <1>1, <1>3, <2>1
    <3>2. CASE i # 1
      <4>1. i - 1 \in 1..Len(t)
        BY <3>2
      <4>2. (i - 1) + 1 = i /\ (i - 1) + 2 = i + 1
        OBVIOUS
      <4> QED
        BY <4>1, <4>2, <1>1, <1>3, <2>1
    <3> QED
      BY <3>1, <3>2
  <2> QED
    BY <1>3, <2>1, <2>2, SeqEqual
<1>5. Tail(Tail(s \o t)) = t
  <2>1. /\ Tail(Tail(s \o t)) \in Seq(S)
        /\ Len(Tail(Tail(s \o t))) = Len(t)
        /\ \A i \in 1..Len(t) : Tail(Tail(s \o t))[i] = Tail(s \o t)[i + 1]
    BY <1>3
  <2>2. \A i \in 1..Len(t) : Tail(s \o t)[i + 1] = (s \o t)[(i + 1) + 1]
    BY <1>3
  <2>3. \A i \in 1..Len(t) : Tail(Tail(s \o t))[i] = t[i]
    BY <2>1, <2>2, <1>1
  <2> QED
    BY <2>1, <2>3, SeqEqual
<1>6. (s \o t)[1] = s[1]
  <2>1. \A i \in 1..2 : (s \o t)[i] = s[i]
    BY <1>1
  <2> QED
    BY <2>1
<1>7. s \o t \in Seq(S) /\ Len(s \o t) = Len(t) + 2
  BY <1>1
<1> QED
  BY <1>2, <1>4, <1>5, <1>6, <1>7, Zenon

(* A resource of one segment and what follows it. *)
LEMMA OneThenRest ==
  ASSUME NEW S, NEW s \in Seq(S), Len(s) = 1, NEW t \in Seq(S)
  PROVE  /\ s \o t \in Seq(S)
         /\ Len(s \o t) = Len(t) + 1
         /\ (s \o t)[1] = s[1]
         /\ SubSeq(s \o t, 1, 1) = s
         /\ Tail(s \o t) = t
<1>1. /\ s \o t \in Seq(S)
      /\ Len(s \o t) = Len(t) + 1
      /\ (s \o t)[1] = s[1]
      /\ \A i \in 1..Len(t) : (s \o t)[i + 1] = t[i]
  <2>1. \A n \in Nat : Len(s) = n =>
          /\ s \o t \in Seq(S)
          /\ Len(s \o t) = Len(t) + n
          /\ \A i \in 1..n : (s \o t)[i] = s[i]
          /\ \A i \in 1..Len(t) : (s \o t)[i + n] = t[i]
    BY ConcatParts
  <2> QED
    BY <2>1
<1>2. SubSeq(s \o t, 1, 1) = s
  <2>1. /\ SubSeq(s \o t, 1, 1) \in Seq(S)
        /\ Len(SubSeq(s \o t, 1, 1)) = 1
        /\ SubSeq(s \o t, 1, 1)[1] = s[1]
    BY <1>1
  <2> QED
    BY <2>1, SeqEqual
<1>3. Tail(s \o t) = t
  <2>1. /\ Tail(s \o t) \in Seq(S)
        /\ Len(Tail(s \o t)) = Len(t)
        /\ \A i \in 1..Len(t) : Tail(s \o t)[i] = t[i]
    BY <1>1
  <2> QED
    BY <2>1, SeqEqual
<1> QED
  BY <1>1, <1>2, <1>3

-----------------------------------------------------------------------------
(***************************************************************************)
(* splitFlat and ActionString.                                             *)
(***************************************************************************)

(* What splitFlat may return. *)
WellFormed(k) ==
  /\ k \in ActionKeys
  /\ Len(k.resource.path) = (IF k.resource.src = "api" THEN 2 ELSE 1)
  /\ k.resource.path[1] # Blank
  /\ k.controller # Empty
  /\ k.action # Blank

(* splitFlat: a resource and a controller with at least one segment each, and
   no empty part where the code asks for none. *)
LEMMA SplitWellFormed ==
  ASSUME NEW p \in FlatStrings, NEW k \in splitFlat(p)
  PROVE  WellFormed(k)
<1> DEFINE front == Front(p.segs)
<1>1. /\ p.segs \in Seq(STRING)
      /\ Len(p.segs) >= 2
      /\ Last(p.segs) # Blank /\ Last(p.segs) \in STRING
  BY DEF splitFlat, FlatStrings, Segments, Last
<1>2. front \in Seq(STRING) /\ Len(front) = Len(p.segs) - 1
  BY <1>1 DEF Front
<1> HIDE DEF front
<1>3. PICK r : /\ \/ p.src = "api" /\ r \in splitAPI(front)
                  \/ p.src = "plugin" /\ r \in splitPlugin(front)
               /\ r.controller # Empty
               /\ k = [resource |-> r.resource, controller |-> r.controller,
                       action |-> Last(p.segs)]
  BY DEF splitFlat, front, FlatStrings
<1>4. CASE p.src = "api" /\ r \in splitAPI(front)
  <2>1. Len(front) >= 2 /\ front[1] # Blank
    BY <1>2, <1>4 DEF splitAPI
  <2>2. r = [resource   |-> [src |-> "api", path |-> SubSeq(front, 1, 2)],
             controller |-> IF Len(front) = 2 THEN Tail(front) ELSE Tail(Tail(front))]
    BY <1>4, <2>1, Zenon DEF splitAPI
  <2>3. /\ SubSeq(front, 1, 2) \in Seq(STRING) \ {<<>>}
        /\ Len(SubSeq(front, 1, 2)) = 2
        /\ SubSeq(front, 1, 2)[1] = front[1]
    BY <1>2, <2>1
  <2>4. r.controller = Tail(front) \/ (Len(front) # 2 /\ r.controller = Tail(Tail(front)))
    BY <2>2
  <2>5. r.controller \in Segments
    BY <1>2, <2>1, <2>4, TailParts DEF Segments
  <2>6. r.resource = [src |-> "api", path |-> SubSeq(front, 1, 2)]
    BY <2>2
  <2>7. k.resource \in [src : {"api", "plugin"}, path : Segments]
    BY <1>3, <2>3, <2>6 DEF Segments
  <2>8. k \in ActionKeys
    BY <1>1, <1>3, <2>5, <2>7 DEF ActionKeys
  <2>9. k.resource = r.resource /\ k.controller = r.controller /\ k.action = Last(p.segs)
    BY <1>3
  <2>10. Len(k.resource.path) = 2 /\ k.resource.path[1] # Blank /\ k.resource.src = "api"
    BY <2>1, <2>3, <2>6, <2>9
  <2> QED
    BY <1>1, <1>3, <2>8, <2>9, <2>10 DEF WellFormed
<1>5. CASE p.src = "plugin" /\ r \in splitPlugin(front)
  <2>1. Len(front) >= 2 /\ front[1] # Blank
    BY <1>2, <1>5 DEF splitPlugin
  <2>2. r = [resource   |-> [src |-> "plugin", path |-> SubSeq(front, 1, 1)],
             controller |-> Tail(front)]
    BY <1>5, <2>1, Zenon DEF splitPlugin
  <2>3. /\ SubSeq(front, 1, 1) \in Seq(STRING) \ {<<>>}
        /\ Len(SubSeq(front, 1, 1)) = 1
        /\ SubSeq(front, 1, 1)[1] = front[1]
    BY <1>2, <2>1
  <2>4. r.controller \in Segments
    BY <1>2, <2>1, <2>2, TailParts DEF Segments
  <2>5. r.resource = [src |-> "plugin", path |-> SubSeq(front, 1, 1)]
    BY <2>2
  <2>6. k.resource \in [src : {"api", "plugin"}, path : Segments]
    BY <1>3, <2>3, <2>5 DEF Segments
  <2>7. k \in ActionKeys
    BY <1>1, <1>3, <2>4, <2>6 DEF ActionKeys
  <2>8. k.resource = r.resource /\ k.controller = r.controller /\ k.action = Last(p.segs)
    BY <1>3
  <2>9. Len(k.resource.path) = 1 /\ k.resource.path[1] # Blank /\ k.resource.src # "api"
    BY <2>1, <2>3, <2>5, <2>8
  <2> QED
    BY <1>1, <1>3, <2>7, <2>8, <2>9 DEF WellFormed
<1> QED
  BY <1>3, <1>4, <1>5

(* splitFlat is a function: a string denotes one action or none. *)
LEMMA SplitOne ==
  ASSUME NEW p \in FlatStrings, NEW k \in splitFlat(p)
  PROVE  splitFlat(p) = {k}
<1> SUFFICES ASSUME NEW j \in splitFlat(p) PROVE j = k
  OBVIOUS
<1> DEFINE front == Front(p.segs)
<1>1. PICK r : /\ \/ p.src = "api" /\ r \in splitAPI(front)
                  \/ p.src = "plugin" /\ r \in splitPlugin(front)
               /\ k = [resource |-> r.resource, controller |-> r.controller,
                       action |-> Last(p.segs)]
  BY DEF splitFlat, FlatStrings
<1>2. PICK q : /\ \/ p.src = "api" /\ q \in splitAPI(front)
                  \/ p.src = "plugin" /\ q \in splitPlugin(front)
               /\ j = [resource |-> q.resource, controller |-> q.controller,
                       action |-> Last(p.segs)]
  BY DEF splitFlat, FlatStrings
<1>3. q = r
  <2>1. \A x, y \in splitAPI(front) : x = y
    BY Zenon DEF splitAPI
  <2>2. \A x, y \in splitPlugin(front) : x = y
    BY Zenon DEF splitPlugin
  <2> QED
    BY <1>1, <1>2, <2>1, <2>2
<1> QED
  BY <1>1, <1>2, <1>3

(* The dotted string of an action, and what splitFlat takes it apart into:
   the controller is left out when it is implicit. *)
Shown(k) == IF implicitController(k.resource, k.controller) THEN <<>> ELSE k.controller

(* It is a sequence of segments, the controller's own or none. *)
LEMMA ShownOrNot ==
  ASSUME NEW k
  PROVE  /\ Shown(k) = <<>> \/ Shown(k) = k.controller
         /\ \A S : k.controller \in Seq(S) => Shown(k) \in Seq(S)
<1>1. Shown(k) = <<>> \/ Shown(k) = k.controller
  BY Zenon DEF Shown
<1>2. \A S : <<>> \in Seq(S)
  OBVIOUS
<1> QED
  BY <1>1, <1>2, Zenon

(* Front and last segment of the string. *)
LEMMA StringOfKey ==
  ASSUME NEW k \in ActionKeys
  PROVE  /\ ActionString(k) \in FlatStrings
         /\ ActionString(k).src = k.resource.src
         /\ Len(ActionString(k).segs) >= 2
         /\ Front(ActionString(k).segs) = k.resource.path \o Shown(k)
         /\ Last(ActionString(k).segs) = k.action
<1> DEFINE front == k.resource.path \o Shown(k)
<1>1. /\ k.resource.path \in Seq(STRING) /\ k.resource.path # <<>>
      /\ k.resource.src \in {"api", "plugin"}
      /\ k.controller \in Seq(STRING)
      /\ k.action \in STRING
  BY DEF ActionKeys, Segments
<1>0. Shown(k) \in Seq(STRING)
  BY <1>1, ShownOrNot
<1>2. front \in Seq(STRING) /\ Len(front) = Len(k.resource.path) + Len(Shown(k))
  BY <1>0, <1>1, ConcatProperties
<1>3. Len(k.resource.path) >= 1 /\ Len(Shown(k)) \in Nat
  BY <1>0, <1>1
<1>4. ActionString(k) = [src |-> k.resource.src, segs |-> front \o <<k.action>>]
  BY Zenon DEF ActionString, Shown
<1> HIDE DEF front
<1>5. /\ front \o <<k.action>> \in Seq(STRING)
      /\ Len(front \o <<k.action>>) = Len(front) + 1
      /\ Front(front \o <<k.action>>) = front
      /\ Last(front \o <<k.action>>) = k.action
  BY <1>1, <1>2, FrontLast
<1>6. Len(front \o <<k.action>>) >= 2
  BY <1>2, <1>3, <1>5
<1>7. front \o <<k.action>> \in Segments
  BY <1>5, <1>6 DEF Segments
<1>8. /\ ActionString(k).src = k.resource.src
      /\ ActionString(k).segs = front \o <<k.action>>
  BY <1>4
<1>9. ActionString(k) \in FlatStrings
  BY <1>1, <1>4, <1>7 DEF FlatStrings
<1> QED
  BY <1>5, <1>6, <1>8, <1>9, Zenon DEF front

(* What implicit controllers cost: nothing, splitFlat puts them back. *)
LEMMA SplitsApi ==
  ASSUME NEW k, WellFormed(k), k.resource.src = "api"
  PROVE  splitAPI(k.resource.path \o Shown(k))
           = {[resource |-> k.resource, controller |-> k.controller]}
<1> DEFINE path == k.resource.path
           front == path \o Shown(k)
<1>1. /\ path \in Seq(STRING) /\ Len(path) = 2 /\ path[1] # Blank
      /\ k.controller \in Seq(STRING) /\ k.controller # <<>> /\ k.controller # Empty
      /\ k.resource = [src |-> "api", path |-> path]
  BY DEF WellFormed, ActionKeys, Segments
<1>2. Shown(k) \in Seq(STRING)
  BY <1>1, ShownOrNot
<1>3. /\ front \in Seq(STRING)
      /\ Len(front) = Len(Shown(k)) + 2
      /\ front[1] = path[1]
      /\ SubSeq(front, 1, 2) = path
      /\ Tail(front) = <<path[2]>> \o Shown(k)
      /\ Tail(Tail(front)) = Shown(k)
  BY <1>1, <1>2, TwoThenRest
<1>4. splitAPI(front) =
        IF Len(front) < 2 \/ front[1] = Blank \/ Tail(front) = Empty
        THEN {}
        ELSE {[resource   |-> [src |-> "api", path |-> SubSeq(front, 1, 2)],
               controller |-> IF Len(front) = 2 THEN Tail(front)
                                                ELSE Tail(Tail(front))]}
  BY Zenon DEF splitAPI
<1> HIDE DEF front
<1>5. CASE implicitController(k.resource, k.controller)
  <2>1. Shown(k) = <<>> /\ k.controller = <<path[2]>>
    BY <1>1, <1>5 DEF Shown, implicitController, Last
  <2>2. <<path[2]>> \o Shown(k) = <<path[2]>>
    BY <1>1, <2>1
  <2>3. Len(front) = 2 /\ Tail(front) = k.controller
    BY <1>3, <2>1, <2>2
  <2> QED
    <3>1. ~(Len(front) < 2 \/ front[1] = Blank \/ Tail(front) = Empty)
      BY <1>1, <1>3, <2>3
    <3>2. splitAPI(front) = {[resource   |-> [src |-> "api", path |-> path],
                             controller |-> k.controller]}
      BY <1>3, <1>4, <2>3, <3>1, Zenon
    <3> QED
      BY <1>1, <3>2, Zenon DEF front
<1>6. CASE ~implicitController(k.resource, k.controller)
  <2>1. Shown(k) = k.controller
    BY <1>6 DEF Shown
  <2>2. Len(Shown(k)) >= 1
    BY <1>1, <2>1
  <2>3. Len(Tail(front)) >= 2
    BY <1>3, <2>2
  <2>4. Tail(front) # Empty
    <3>1. Len(Empty) = 1 /\ ~(1 >= 2)
      BY DEF Empty
    <3> QED
      BY <2>3, <3>1, Zenon
  <2>5. Len(front) # 2 /\ ~(Len(front) < 2)
    BY <1>2, <1>3, <2>2
  <2> QED
    <3>1. ~(Len(front) < 2 \/ front[1] = Blank \/ Tail(front) = Empty)
      BY <1>1, <1>3, <2>4, <2>5, Zenon
    <3>2. splitAPI(front) = {[resource   |-> [src |-> "api", path |-> path],
                             controller |-> k.controller]}
      BY <1>3, <1>4, <2>1, <2>5, <3>1, Zenon
    <3> QED
      BY <1>1, <3>2, Zenon DEF front
<1> QED
  BY <1>5, <1>6

(* A plugin's controller is always written out. *)
LEMMA SplitsPlugin ==
  ASSUME NEW k, WellFormed(k), k.resource.src = "plugin"
  PROVE  splitPlugin(k.resource.path \o Shown(k))
           = {[resource |-> k.resource, controller |-> k.controller]}
<1> DEFINE path == k.resource.path
           front == path \o Shown(k)
<1>1. /\ path \in Seq(STRING) /\ Len(path) = 1 /\ path[1] # Blank
      /\ k.controller \in Seq(STRING) /\ k.controller # <<>> /\ k.controller # Empty
      /\ k.resource = [src |-> "plugin", path |-> path]
  BY DEF WellFormed, ActionKeys, Segments
<1>2. Shown(k) = k.controller
  BY DEF Shown, implicitController
<1>3. /\ Len(front) = Len(k.controller) + 1
      /\ front[1] = path[1]
      /\ SubSeq(front, 1, 1) = path
      /\ Tail(front) = k.controller
  <2>1. /\ Len(path \o k.controller) = Len(k.controller) + 1
        /\ (path \o k.controller)[1] = path[1]
        /\ SubSeq(path \o k.controller, 1, 1) = path
        /\ Tail(path \o k.controller) = k.controller
    BY <1>1, OneThenRest
  <2> QED
    BY <1>2, <2>1, Zenon
<1>4. splitPlugin(front) =
        IF Len(front) < 2 \/ front[1] = Blank \/ Tail(front) = Empty
        THEN {}
        ELSE {[resource   |-> [src |-> "plugin", path |-> SubSeq(front, 1, 1)],
               controller |-> Tail(front)]}
  BY Zenon DEF splitPlugin
<1>5. Len(k.controller) >= 1
  BY <1>1
<1> HIDE DEF front
<1>6. ~(Len(front) < 2)
  BY <1>1, <1>3, <1>5
<1> QED
  BY <1>1, <1>3, <1>4, <1>6 DEF front

(* The way back: expanding the string of an action gives that action. *)
LEMMA RoundTripKey ==
  ASSUME NEW k, WellFormed(k)
  PROVE  splitFlat(ActionString(k)) = {k}
<1> DEFINE p == ActionString(k)
<1>1. k \in ActionKeys /\ k.controller # Empty /\ k.action # Blank
  BY DEF WellFormed
<1>2. /\ p.src = k.resource.src /\ Len(p.segs) >= 2
      /\ Front(p.segs) = k.resource.path \o Shown(k)
      /\ Last(p.segs) = k.action
  BY <1>1, StringOfKey
<1>3. k = [resource |-> k.resource, controller |-> k.controller, action |-> k.action]
  BY <1>1 DEF ActionKeys
<1> DEFINE parsed == CASE p.src = "api"    -> splitAPI(Front(p.segs))
                       [] p.src = "plugin" -> splitPlugin(Front(p.segs))
                       [] OTHER            -> {}
<1>4. parsed = {[resource |-> k.resource, controller |-> k.controller]}
  BY <1>1, <1>2, SplitsApi, SplitsPlugin DEF ActionKeys
<1>5. splitFlat(p) =
        IF Len(p.segs) < 2 \/ Last(p.segs) = Blank THEN {}
        ELSE {[resource |-> r.resource, controller |-> r.controller,
               action |-> Last(p.segs)] : r \in {q \in parsed : q.controller # Empty}}
  BY Zenon DEF splitFlat
<1> HIDE DEF parsed
<1>6. {q \in parsed : q.controller # Empty}
        = {[resource |-> k.resource, controller |-> k.controller]}
  BY <1>1, <1>4
<1> HIDE DEF p
<1>7. ~(Len(p.segs) < 2 \/ Last(p.segs) = Blank)
  BY <1>1, <1>2
<1>8. splitFlat(p) = {[resource |-> k.resource, controller |-> k.controller,
                       action |-> k.action]}
  <2>1. splitFlat(p) =
          {[resource |-> r.resource, controller |-> r.controller, action |-> k.action] :
             r \in {[resource |-> k.resource, controller |-> k.controller]}}
    BY <1>2, <1>5, <1>6, <1>7, Zenon
  <2> QED
    BY <2>1
<1> QED
  BY <1>3, <1>8, Zenon DEF p

-----------------------------------------------------------------------------
(***************************************************************************)
(* Lists and trees.                                                        *)
(***************************************************************************)

Denoted(l) == UNION {splitFlat(p) : p \in ToSet(l)}

Strings(K) == {ActionString(k) : k \in K}

(* The actions a list denotes are told apart by their strings, however many
   spellings of one action the list has. *)
LEMMA DenotedApart ==
  ASSUME NEW l \in Seq(FlatStrings)
  PROVE  /\ \A k \in Denoted(l) : WellFormed(k) /\ splitFlat(ActionString(k)) = {k}
         /\ \A j, k \in Denoted(l) : ActionString(j) = ActionString(k) => j = k
<1>1. \A p \in ToSet(l) : p \in FlatStrings
  BY DEF ToSet
<1>2. \A k \in Denoted(l) : WellFormed(k)
  BY <1>1, SplitWellFormed DEF Denoted
<1>3. \A k \in Denoted(l) : splitFlat(ActionString(k)) = {k}
  BY <1>2, RoundTripKey
<1>4. ASSUME NEW j \in Denoted(l), NEW k \in Denoted(l),
             ActionString(j) = ActionString(k)
      PROVE  j = k
  <2>1. {j} = {k}
    BY <1>3, <1>4, Zenon
  <2> QED
    BY <2>1
<1> QED
  BY <1>2, <1>3, <1>4

(* What a PUT leaves behind: every action once. *)
LEMMA FlattenExpanded ==
  ASSUME NEW l \in Seq(FlatStrings)
  PROVE  FlattenPermissions(ExpandPermissions(l)) = [s \in Strings(Denoted(l)) |-> 1]
<1> DEFINE K == Denoted(l)
           t == ExpandPermissions(l)
<1>1. t = [k \in K |-> TRUE]
  BY Zenon DEF ExpandPermissions, Denoted
<1>2. Enabled(t) = K
  <2> HIDE DEF K, t
  <2>1. DOMAIN t = K /\ \A k \in K : t[k]
    BY <1>1
  <2> QED
    BY <2>1 DEF Enabled
<1>3. \A s \in Strings(K) : Cardinality({k \in K : ActionString(k) = s}) = 1
  <2> SUFFICES ASSUME NEW j \in K
               PROVE  Cardinality({k \in K : ActionString(k) = ActionString(j)}) = 1
    BY Zenon DEF Strings
  <2>1. {k \in K : ActionString(k) = ActionString(j)} = {j}
    BY DenotedApart, Zenon
  <2>2. Cardinality({j}) = 1
    BY FS_Singleton, Zenon
  <2> QED
    BY <2>1, <2>2, Zenon
<1>4. FlattenPermissions(t) =
        [s \in {ActionString(k) : k \in Enabled(t)} |->
           Cardinality({k \in Enabled(t) : ActionString(k) = s})]
  BY Zenon DEF FlattenPermissions
<1>5. FlattenPermissions(t) =
        [s \in Strings(K) |-> Cardinality({k \in K : ActionString(k) = s})]
  BY <1>2, <1>4, Zenon DEF Strings
<1> HIDE DEF K, t
<1>6. FlattenPermissions(t) = [s \in Strings(K) |-> 1]
  BY <1>3, <1>5
<1> QED
  BY <1>6, Zenon DEF K, t

(* A list without duplicates is a bag of single strings, and no other is. *)
LEMMA BagOfInjective ==
  ASSUME NEW S, NEW l \in Seq(S)
  PROVE  /\ DOMAIN ToBag(l) = ToSet(l)
         /\ ToBag(l) = [x \in ToSet(l) |-> 1] <=> IsInjective(l)
<1> DEFINE At(x) == {i \in DOMAIN l : l[i] = x}
<1>1. Range(l) = ToSet(l)
  BY Zenon DEF Range, ToSet
<1>2. ToBag(l) = [x \in ToSet(l) |-> Cardinality(At(x))]
  BY <1>1, Zenon DEF ToBag
<1>3. IsFiniteSet(DOMAIN l)
  <2>1. DOMAIN l = 1..Len(l) /\ Len(l) \in Int
    OBVIOUS
  <2> QED
    BY <2>1, FS_Interval
<1>4. \A x : IsFiniteSet(At(x))
  BY <1>3, FS_Subset
<1>5. ASSUME IsInjective(l), NEW x \in ToSet(l) PROVE Cardinality(At(x)) = 1
  <2>1. PICK a \in DOMAIN l : x = l[a]
    BY Zenon DEF ToSet
  <2>2. At(x) = {a}
    BY <1>5, <2>1 DEF IsInjective
  <2> QED
    BY <2>2, FS_Singleton, Zenon
<1>6. ASSUME \A x \in ToSet(l) : Cardinality(At(x)) = 1 PROVE IsInjective(l)
  <2> SUFFICES ASSUME NEW a \in DOMAIN l, NEW b \in DOMAIN l, l[a] = l[b]
               PROVE  a = b
    BY Zenon DEF IsInjective
  <2>1. l[a] \in ToSet(l)
    BY Zenon DEF ToSet
  <2>2. Cardinality(At(l[a])) = 1
    BY <1>6, <2>1, Zenon
  <2>3. PICK e : At(l[a]) = {e}
    <3> HIDE DEF At
    <3> QED
      BY <1>4, <2>2, FS_Singleton, Zenon
  <2>4. a \in At(l[a]) /\ b \in At(l[a])
    OBVIOUS
  <2> QED
    BY <2>3, <2>4
<1> HIDE DEF At
<1>7. ToBag(l) = [x \in ToSet(l) |-> 1] <=> \A x \in ToSet(l) : Cardinality(At(x)) = 1
  BY <1>2
<1> QED
  BY <1>2, <1>5, <1>6, <1>7

(* After a PUT the comparison succeeds for the lists in canonical form without
   duplicates, and for no other. *)
LEMMA PutSettles ==
  ASSUME NEW l \in Seq(FlatStrings)
  PROVE  UpToDate(l, ExpandPermissions(l)) <=> Settleable(l)
<1> DEFINE K == Denoted(l)
           S == ToSet(l)
<1>1. FlattenPermissions(ExpandPermissions(l)) = [s \in Strings(K) |-> 1]
  BY FlattenExpanded, Zenon
<1>2. S \subseteq FlatStrings
  BY DEF ToSet
<1>3. \A k \in K : splitFlat(ActionString(k)) = {k}
  BY DenotedApart, Zenon
<1>4. (\A p \in S : Canonical(p)) <=> S = Strings(K)
  <2>1. ASSUME S = Strings(K), NEW p \in S PROVE Canonical(p)
    <3>1. PICK k \in K : p = ActionString(k)
      BY <2>1, Zenon DEF Strings
    <3>2. k \in splitFlat(p)
      BY <1>3, <3>1
    <3> QED
      BY <3>1, <3>2 DEF Canonical
  <2>2. ASSUME \A p \in S : Canonical(p) PROVE S = Strings(K)
    <3>1. ASSUME NEW p \in S PROVE p \in Strings(K)
      <4>1. PICK k \in splitFlat(p) : ActionString(k) = p
        BY <2>2, <3>1, Zenon DEF Canonical
      <4>2. k \in K
        BY <3>1 DEF Denoted
      <4> QED
        BY <4>1, <4>2, Zenon DEF Strings
    <3>2. ASSUME NEW s \in Strings(K) PROVE s \in S
      <4>1. PICK k \in K : s = ActionString(k)
        BY Zenon DEF Strings
      <4>2. PICK p \in S : k \in splitFlat(p)
        BY <4>1, Zenon DEF Denoted
      <4>3. PICK j \in splitFlat(p) : ActionString(j) = p
        BY <2>2, <4>2, Zenon DEF Canonical
      <4>4. j = k
        <5>1. p \in FlatStrings
          BY <1>2, <4>2
        <5>2. splitFlat(p) = {k} 
          BY <4>2, <5>1, SplitOne
        <5> QED
          BY <4>3, <5>2
      <4> QED
        BY <4>1, <4>2, <4>3, <4>4, Zenon
    <3> QED
      BY <3>1, <3>2
  <2> QED
    BY <2>1, <2>2
<1>5. /\ DOMAIN ToBag(l) = S
      /\ ToBag(l) = [x \in S |-> 1] <=> IsInjective(l)
  BY BagOfInjective, Zenon
<1> HIDE DEF K, S
<1>6. [s \in Strings(K) |-> 1] = ToBag(l) <=> S = Strings(K) /\ ToBag(l) = [x \in S |-> 1]
  BY <1>5
<1> QED
  BY <1>1, <1>4, <1>5, <1>6, Zenon DEF UpToDate, Settleable, S

-----------------------------------------------------------------------------
(***************************************************************************)
(* The poll loop.                                                          *)
(***************************************************************************)

(* The tree of a PUT is a tree. *)
LEMMA ExpandedIsTree ==
  ASSUME NEW l \in Seq(FlatStrings)
  PROVE  /\ DOMAIN ExpandPermissions(l) \subseteq ActionKeys
         /\ ExpandPermissions(l) \in [DOMAIN ExpandPermissions(l) -> BOOLEAN]
<1>1. ExpandPermissions(l) = [k \in Denoted(l) |-> TRUE]
  BY Zenon DEF ExpandPermissions, Denoted
<1>2. \A k \in Denoted(l) : k \in ActionKeys
  BY DenotedApart, Zenon DEF WellFormed
<1> QED
  BY <1>1, <1>2

(* Nothing but a PUT touches the tree. *)
LEMMA SyncStep ==
  ASSUME SyncInv, [Next]_vars
  PROVE  SyncInv' /\ (applied => UNCHANGED tree)
<1>1. list \in Seq(FlatStrings)
  BY ListsAssumption DEF SyncInv, TypeOK
<1>2. CASE Apply
  BY <1>1, <1>2, ExpandedIsTree DEF SyncInv, TypeOK, Apply
<1>3. CASE UNCHANGED vars
  BY <1>3 DEF SyncInv, TypeOK, vars
<1> QED
  BY <1>2, <1>3 DEF Next, Settled

(* For any lists and any trees a PUT leaves the tree its list expands to. *)
THEOREM SyncInvariance == Spec => []SyncInv
<1>1. Init => SyncInv
  BY TreesAssumption DEF Init, SyncInv, TypeOK
<1>2. SyncInv /\ [Next]_vars => SyncInv'
  BY SyncStep
<1> QED
  BY <1>1, <1>2, PTL DEF Spec

(* The keys of a tree have the right shape, whoever wrote it. *)
THEOREM TypeCorrect == Spec => []TypeOK
<1>1. SyncInv => TypeOK
  BY DEF SyncInv
<1> QED
  BY <1>1, SyncInvariance, PTL

(* Reporting "up to date" is sound for every list and every tree. *)
THEOREM UpToDateIsSound == Spec => []UpToDateSound
<1>1. SyncInv => UpToDateSound
  <2> SUFFICES ASSUME SyncInv, UpToDate(list, tree) PROVE Granted = Listed
    BY DEF UpToDateSound
  <2>1. list \in Seq(FlatStrings)
    BY ListsAssumption DEF SyncInv, TypeOK
  <2>2. DOMAIN FlattenPermissions(tree) = Granted
    BY DEF FlattenPermissions, Granted
  <2>3. DOMAIN ToBag(list) = Listed
    BY <2>1, BagOfInjective, Zenon DEF Listed
  <2> QED
    BY <2>2, <2>3 DEF UpToDate
<1> QED
  BY <1>1, SyncInvariance, PTL

(* The poll loop goes quiet after one PUT for exactly the canonical lists
   without duplicates, however long the strings and the list. *)
THEOREM SettlesAfterPut == Spec => []ApplySettles
<1>1. SyncInv => ApplySettles
  BY ListsAssumption, PutSettles DEF SyncInv, TypeOK, ApplySettles
<1> QED
  BY <1>1, SyncInvariance, PTL

(* What is shown can be pasted back, for every action of every tree. *)
THEOREM ShownRoundTrips == Spec => []RoundTrip
<1>1. SyncInv => RoundTrip
  <2> SUFFICES ASSUME SyncInv, NEW k \in Enabled(tree), Conventional(k)
               PROVE  splitFlat(ActionString(k)) = {k}
    BY DEF RoundTrip
  <2>1. k \in ActionKeys
    BY DEF SyncInv, TypeOK, Enabled
  <2>2. WellFormed(k)
    BY <2>1, Zenon DEF Conventional, WellFormed
  <2> QED
    BY <2>2, RoundTripKey
<1> QED
  BY <1>1, SyncInvariance, PTL
=============================================================================
