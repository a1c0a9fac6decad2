----------------------------- MODULE SocketsProofs -----------------------------
(* Theorems about ControlSockets, for any number of controllers and sockets. *)
EXTENDS ControlSockets, FiniteSetTheorems, TLAPS

-------------------------------------------------------------------------------
(* The invariant *)

\* The names whose sockets c has made.
Made(c) == {j \in 1 .. Len(Names) : pc[c] = "ready" \/ (Making(c) /\ j < k[c])}

\* A controller has a descriptor for each of them and for no other name.
Announced ==
  \A c \in Ctl, j \in 1 .. Len(Names) : fd[c][Names[j]] # None <=> j \in Made(c)

\* Where a socket may be that was made for the name n.
Holds(n) == {file[n]} \cup service[n] \cup {fd[c][n] : c \in Ctl}

\* A socket is made for one name.
OneName == \A m, n \in Name : m # n => Holds(m) \cap Holds(n) \subseteq {None}

\* While nobody else has made sockets, the latest controller finds at every path what
\* it bound there.
LatestAlone ==
  alone => /\ \A d \in Ctl : Making(d) => d = last
           /\ \A c \in Ctl, j \in 1 .. Len(Names) :
                c = last /\ j \in Made(c) => fd[c][Names[j]] = file[Names[j]]

AtStart == \A c \in Ctl : pc[c] \in {"off", "stop"} => k[c] = 1

SocketsInv == TypeOK /\ AtStart /\ Announced /\ OneName /\ LatestAlone

-------------------------------------------------------------------------------
(* Names and sockets *)

\* The names are counted once each.
LEMMA NamesAreApart ==
  /\ Len(Names) \in Nat /\ 1 <= Len(Names)
  /\ \A j \in 1 .. Len(Names) : Names[j] \in Name
  /\ \A n \in Name : \E j \in 1 .. Len(Names) : n = Names[j]
  /\ \A i, j \in 1 .. Len(Names) : Names[i] = Names[j] => i = j
  /\ IsFiniteSet(Name)
  <1>1. Names \in Seq(Name) /\ Len(Names) \in Nat /\ 1 <= Len(Names)
    BY NamesAssumption
  <1>2. DOMAIN Names = 1 .. Len(Names) /\ Names \in [1 .. Len(Names) -> Name]
    BY <1>1
  <1>3. Names \in Surjection(1 .. Len(Names), Name)
    BY <1>2 DEF Name, Surjection
  <1>4. IsFiniteSet(1 .. Len(Names)) /\ Cardinality(1 .. Len(Names)) = Len(Names)
    BY <1>1, FS_Interval
  <1>5. IsFiniteSet(Name) /\ Names \in Injection(1 .. Len(Names), Name)
    BY <1>3, <1>4, NamesAssumption, FS_Surjection
  <1>6. \A i, j \in 1 .. Len(Names) : Names[i] = Names[j] => i = j
    BY <1>2, <1>5 DEF Injection, IsInjective
  <1>7. \A j \in 1 .. Len(Names) : Names[j] \in Name
    BY <1>2 DEF Name
  <1>8. \A n \in Name : \E j \in 1 .. Len(Names) : n = Names[j]
    BY <1>3 DEF Surjection
  <1> QED
    BY <1>1, <1>5, <1>6, <1>7, <1>8

\* A new socket is one that nobody has.
LEMMA SpareSocket ==
  ASSUME Free # {}
  PROVE  /\ NewSocket \in Sockets /\ NewSocket # None
         /\ \A n \in Name : NewSocket \notin Holds(n)
  <1>1. NewSocket \in Free
    BY DEF NewSocket
  <1>2. \A n \in Name : Free \cap Holds(n) = {}
    BY DEF Free, Holds
  <1> QED
    BY <1>1, <1>2, NoneAssumption DEF Free

-------------------------------------------------------------------------------
(* The invariant is kept, action by action *)

LEMMA InitEstablishes == Init => SocketsInv
  <1> SUFFICES ASSUME Init PROVE SocketsInv
    OBVIOUS
  <1>1. TypeOK /\ AtStart
    BY NamesAreApart DEF Init, TypeOK, AtStart
  <1>2. \A c \in Ctl : Made(c) = {} /\ ~Making(c)
    BY DEF Init, Made, Making
  <1>3. Announced /\ LatestAlone
    BY <1>2, NamesAreApart DEF Init, Announced, LatestAlone
  <1>4. OneName
    BY DEF Init, OneName, Holds
  <1> QED
    BY <1>1, <1>3, <1>4 DEF SocketsInv

\* Where no socket appears at a second name, each remains of one name.
LEMMA OneNameKept ==
  ASSUME OneName, \A n \in Name : Holds(n)' \subseteq Holds(n) \cup {None}
  PROVE  OneName'
  <1> SUFFICES ASSUME NEW m \in Name, NEW n \in Name, m # n
               PROVE  Holds(m)' \cap Holds(n)' \subseteq {None}
    BY DEF OneName
  <1>1. Holds(m) \cap Holds(n) \subseteq {None}
    BY DEF OneName
  <1> QED
    BY <1>1

\* What a controller has made depends on its own steps alone.
LEMMA OthersMade ==
  ASSUME NEW d \in Ctl, pc'[d] = pc[d], k'[d] = k[d]
  PROVE  Made(d)' = Made(d) /\ (Making(d)' <=> Making(d))
  BY DEF Made, Making

LEMMA RunKeeps ==
  ASSUME SocketsInv, NEW c \in Ctl, Run(c)
  PROVE  SocketsInv'
  <1>1. pc[c] = "off" /\ k[c] = 1 /\ UNCHANGED <<file, fd, service, k>>
    BY DEF SocketsInv, AtStart, Run
  <1>2. TypeOK'
    BY DEF SocketsInv, TypeOK, Run
  <1>3. AtStart'
    BY <1>1 DEF SocketsInv, TypeOK, AtStart, Run
  <1>4. \A d \in Ctl \ {c} : pc'[d] = pc[d] /\ k'[d] = k[d]
    BY DEF SocketsInv, TypeOK, Run
  <1>5. \A d \in Ctl \ {c} : Made(d)' = Made(d) /\ (Making(d)' <=> Making(d))
    BY <1>4, OthersMade
  <1>6. Made(c) = {} /\ Made(c)' = {} /\ ~Making(c)
    <2>1. pc'[c] \in {"unlink", "stop"} /\ k'[c] = 1
      BY <1>1 DEF SocketsInv, TypeOK, Run
    <2>2. ~Making(c) /\ Made(c) = {}
      BY <1>1 DEF Made, Making
    <2>3. Made(c)' = {}
      BY <2>1 DEF Made, Making
    <2> QED
      BY <2>2, <2>3
  <1>7. Announced'
    BY <1>1, <1>5, <1>6 DEF SocketsInv, Announced
  <1>8. OneName'
    BY <1>1 DEF SocketsInv, OneName, Holds
  <1>9. LatestAlone'
    <2>1. CASE last' = c /\ (alone' <=> \A d \in Ctl : ~Making(d))
      BY <1>5, <1>6, <2>1 DEF LatestAlone
    <2>2. CASE UNCHANGED <<last, alone>> /\ pc'[c] = "stop"
      <3>1. ~Making(c)'
        BY <2>2 DEF Making
      <3> QED
        BY <1>1, <1>5, <1>6, <2>2, <3>1 DEF SocketsInv, LatestAlone
    <2> QED
      BY <2>1, <2>2 DEF SocketsInv, TypeOK, Run
  <1> QED
    BY <1>2, <1>3, <1>7, <1>8, <1>9 DEF SocketsInv

\* A controller that ends takes its descriptors along, and at most the file of the
\* socket that it was about to make.
LEMMA GoneKeeps ==
  ASSUME SocketsInv, NEW c \in Ctl, Gone(c), UNCHANGED <<service, last, alone>>,
         file' = file \/ (Making(c) /\ Remove(Names[k[c]]))
  PROVE  SocketsInv'
  <1>1. /\ pc'[c] = "off" /\ k'[c] = 1
        /\ \A n \in Name : fd'[c][n] = None
        /\ \A d \in Ctl \ {c} : pc'[d] = pc[d] /\ k'[d] = k[d] /\ fd'[d] = fd[d]
    BY DEF SocketsInv, TypeOK, Gone
  <1>2. TypeOK'
    <2>1. file' \in [Name -> Sockets \cup {None}]
      BY NamesAreApart DEF SocketsInv, TypeOK, Remove
    <2>2. fd' \in [Ctl -> [Name -> Sockets \cup {None}]]
      BY DEF SocketsInv, TypeOK, Gone
    <2>3. pc' \in [Ctl -> {"off", "unlink", "bind", "ready", "stop"}] /\ k' \in [Ctl -> 1 .. Len(Names)]
      BY NamesAreApart DEF SocketsInv, TypeOK, Gone
    <2> QED
      BY <2>1, <2>2, <2>3 DEF SocketsInv, TypeOK
  <1>3. AtStart'
    BY <1>1 DEF SocketsInv, AtStart
  <1>4. \A d \in Ctl \ {c} : Made(d)' = Made(d) /\ (Making(d)' <=> Making(d))
    BY <1>1, OthersMade
  <1>5. Made(c)' = {} /\ ~Making(c)'
    BY <1>1 DEF Made, Making
  <1>6. Announced'
    BY <1>1, <1>4, <1>5, NamesAreApart DEF SocketsInv, Announced
  <1>7. OneName'
    <2>1. ASSUME NEW n \in Name PROVE Holds(n)' \subseteq Holds(n) \cup {None}
      <3>1. file'[n] \in {file[n], None}
        BY NamesAreApart DEF SocketsInv, TypeOK, Remove
      <3>2. \A d \in Ctl : fd'[d][n] \in {fd[d][n], None}
        BY <1>1
      <3> QED
        BY <3>1, <3>2 DEF Holds
    <2> QED
      BY <2>1, OneNameKept DEF SocketsInv
  <1>8. LatestAlone'
    <2> SUFFICES ASSUME alone
                 PROVE  /\ \A d \in Ctl : Making(d)' => d = last
                        /\ \A d \in Ctl, j \in 1 .. Len(Names) :
                             d = last /\ j \in Made(d)' => fd'[d][Names[j]] = file'[Names[j]]
      BY DEF LatestAlone
    <2>1. \A d \in Ctl : Making(d)' => d = last
      BY <1>4, <1>5 DEF SocketsInv, LatestAlone
    <2>2. ASSUME NEW d \in Ctl, NEW j \in 1 .. Len(Names), d = last, j \in Made(d)'
          PROVE  fd'[d][Names[j]] = file'[Names[j]]
      <3>1. d # c /\ j \in Made(d) /\ fd'[d] = fd[d]
        BY <1>1, <1>4, <1>5, <2>2
      <3>2. file' = file
        BY <2>2, <3>1 DEF SocketsInv, LatestAlone
      <3> QED
        BY <2>2, <3>1, <3>2 DEF SocketsInv, LatestAlone
    <2> QED
      BY <2>1, <2>2
  <1> QED
    BY <1>2, <1>3, <1>6, <1>7, <1>8 DEF SocketsInv

LEMMA UnlinkKeeps ==
  ASSUME SocketsInv, NEW c \in Ctl, Unlink(c)
  PROVE  SocketsInv'
  <1>1. /\ Making(c) /\ Making(c)' /\ k[c] \in 1 .. Len(Names)
        /\ UNCHANGED <<fd, service, k, last, alone>>
        /\ \A d \in Ctl \ {c} : pc'[d] = pc[d]
    BY DEF SocketsInv, TypeOK, Unlink, Making
  <1>2. Names[k[c]] \in Name /\ file' = [file EXCEPT ![Names[k[c]]] = None]
    BY <1>1, NamesAreApart DEF Unlink, Remove
  <1>3. TypeOK'
    BY <1>2 DEF SocketsInv, TypeOK, Unlink
  <1>4. AtStart'
    BY <1>1 DEF SocketsInv, TypeOK, AtStart, Unlink
  <1>5. \A d \in Ctl \ {c} : Made(d)' = Made(d) /\ (Making(d)' <=> Making(d))
    BY <1>1, OthersMade
  <1>6. k[c] \notin Made(c) /\ Made(c)' = Made(c)
    BY <1>1, NamesAreApart DEF Unlink, SocketsInv, TypeOK, Made, Making
  <1>7. Announced'
    BY <1>1, <1>5, <1>6 DEF SocketsInv, Announced
  <1>8. OneName'
    <2>1. ASSUME NEW n \in Name PROVE Holds(n)' \subseteq Holds(n) \cup {None}
      <3>1. file'[n] \in {file[n], None}
        BY <1>2 DEF SocketsInv, TypeOK
      <3> QED
        BY <1>1, <3>1 DEF Holds
    <2> QED
      BY <2>1, OneNameKept DEF SocketsInv
  <1>9. LatestAlone'
    <2> SUFFICES ASSUME alone
                 PROVE  /\ \A d \in Ctl : Making(d)' => d = last
                        /\ \A d \in Ctl, j \in 1 .. Len(Names) :
                             d = last /\ j \in Made(d)' => fd[d][Names[j]] = file'[Names[j]]
      BY <1>1 DEF LatestAlone
    <2>1. \A d \in Ctl : Making(d)' => d = last
      BY <1>1, <1>5 DEF SocketsInv, LatestAlone
    <2>2. ASSUME NEW d \in Ctl, NEW j \in 1 .. Len(Names), d = last, j \in Made(d)'
          PROVE  fd[d][Names[j]] = file'[Names[j]]
      <3>1. d = c
        BY <1>1, <2>2 DEF SocketsInv, LatestAlone
      <3>2. j \in Made(c) /\ j # k[c]
        BY <1>1, <1>6, <2>2, <3>1
      <3>3. Names[j] \in Name /\ Names[j] # Names[k[c]]
        BY <1>1, <3>2, NamesAreApart
      <3>4. file'[Names[j]] = file[Names[j]]
        BY <1>2, <3>3 DEF SocketsInv, TypeOK
      <3> QED
        BY <2>2, <3>1, <3>2, <3>4 DEF SocketsInv, LatestAlone
    <2> QED
      BY <2>1, <2>2
  <1> QED
    BY <1>3, <1>4, <1>7, <1>8, <1>9 DEF SocketsInv

LEMMA BindKeeps ==
  ASSUME SocketsInv, NEW c \in Ctl, Bind(c)
  PROVE  SocketsInv'
  <1>a. k[c] \in 1 .. Len(Names) /\ Names[k[c]] \in Name
    BY NamesAreApart DEF SocketsInv, TypeOK
  <1>b. PICK n \in Name : n = Names[k[c]]
    BY <1>a
  <1>1. /\ Making(c) /\ k[c] \in 1 .. Len(Names) /\ file[n] = None /\ Free # {}
        /\ Len(Names) \in Nat
        /\ UNCHANGED <<service, last, alone>>
        /\ \A d \in Ctl \ {c} : pc'[d] = pc[d] /\ k'[d] = k[d] /\ fd'[d] = fd[d]
    BY <1>a, <1>b, NamesAreApart DEF SocketsInv, TypeOK, Bind, Making
  <1>2. PICK s \in Sockets : /\ s = NewSocket /\ s # None
                            /\ \A m \in Name : s \notin Holds(m)
    BY <1>1, SpareSocket
  <1>3. /\ file'[n] = s /\ fd'[c][n] = s
        /\ \A m \in Name \ {n} : file'[m] = file[m] /\ fd'[c][m] = fd[c][m]
    <2>1. file' = [file EXCEPT ![n] = s] /\ fd' = [fd EXCEPT ![c][n] = s]
      BY <1>b, <1>2 DEF Bind
    <2> QED
      BY <1>1, <2>1 DEF SocketsInv, TypeOK
  <1>4. TypeOK'
    <2>1. file' \in [Name -> Sockets \cup {None}]
      BY <1>1, <1>2 DEF SocketsInv, TypeOK, Bind
    <2>2. fd' \in [Ctl -> [Name -> Sockets \cup {None}]]
      BY <1>1, <1>2 DEF SocketsInv, TypeOK, Bind
    <2>3. pc' \in [Ctl -> {"off", "unlink", "bind", "ready", "stop"}]
      BY DEF SocketsInv, TypeOK, Bind
    <2>4. k' \in [Ctl -> 1 .. Len(Names)]
      <3>1. k' = k \/ (k[c] < Len(Names) /\ k' = [k EXCEPT ![c] = k[c] + 1])
        BY DEF Bind
      <3>2. k[c] < Len(Names) => k[c] + 1 \in 1 .. Len(Names)
        BY <1>1
      <3> QED
        BY <3>1, <3>2 DEF SocketsInv, TypeOK
    <2> QED
      BY <1>1, <2>1, <2>2, <2>3, <2>4 DEF SocketsInv, TypeOK
  <1>5. pc'[c] \in {"unlink", "ready"}
    BY DEF SocketsInv, TypeOK, Bind
  <1>6. AtStart'
    BY <1>1, <1>5 DEF SocketsInv, AtStart
  <1>7. \A d \in Ctl \ {c} : Made(d)' = Made(d) /\ (Making(d)' <=> Making(d))
    BY <1>1, OthersMade
  <1>8. Len(Names) \in Nat /\ k[c] \in Nat
    BY <1>1, NamesAreApart
  <1>9. \A j \in 1 .. Len(Names) : j \in Made(c)' <=> j \in Made(c) \/ j = k[c]
    <2>1. \A j \in 1 .. Len(Names) : j \in Made(c) <=> j < k[c]
      BY <1>1, <1>8 DEF Made, Making, Bind
    <2>2. CASE k[c] < Len(Names)
      <3>1. pc'[c] = "unlink" /\ k'[c] = k[c] + 1
        BY <2>2 DEF SocketsInv, TypeOK, Bind
      <3>2. \A j \in 1 .. Len(Names) : j \in Made(c)' <=> j < k[c] + 1
        BY <3>1 DEF Made, Making
      <3> QED
        BY <1>8, <2>1, <3>2
    <2>3. CASE ~(k[c] < Len(Names))
      <3>1. pc'[c] = "ready" /\ k[c] = Len(Names)
        BY <1>1, <1>8, <2>3 DEF SocketsInv, TypeOK, Bind
      <3>2. \A j \in 1 .. Len(Names) : j \in Made(c)'
        BY <3>1 DEF Made
      <3> QED
        BY <1>8, <2>1, <3>1, <3>2
    <2> QED
      BY <2>2, <2>3
  <1>10. \A j \in 1 .. Len(Names) : j # k[c] => Names[j] \in Name \ {n}
    BY <1>1, <1>b, NamesAreApart
  <1>11. Announced'
    <2> SUFFICES ASSUME NEW d \in Ctl, NEW j \in 1 .. Len(Names)
                 PROVE  fd'[d][Names[j]] # None <=> j \in Made(d)'
      BY DEF Announced
    <2>1. CASE d # c
      BY <1>1, <1>7, <2>1 DEF SocketsInv, Announced
    <2>2. CASE d = c /\ j = k[c]
      BY <1>b, <1>2, <1>3, <1>9, <2>2
    <2>3. CASE d = c /\ j # k[c]
      BY <1>3, <1>9, <1>10, <2>3 DEF SocketsInv, Announced
    <2> QED
      BY <2>1, <2>2, <2>3
  <1>12. OneName'
    <2>1. ASSUME NEW m \in Name, m # n PROVE Holds(m)' = Holds(m) /\ s \notin Holds(m)
      <3>1. file'[m] = file[m] /\ \A d \in Ctl : fd'[d][m] = fd[d][m]
        BY <1>1, <1>3, <2>1
      <3> QED
        BY <1>1, <1>2, <3>1 DEF Holds
    <2>2. Holds(n)' \subseteq Holds(n) \cup {s}
      <3>1. \A d \in Ctl : fd'[d][n] \in {fd[d][n], s}
        BY <1>1, <1>3
      <3>2. file'[n] = s /\ service'[n] = service[n]
        BY <1>1, <1>3
      <3>3. ASSUME NEW x \in Holds(n)' PROVE x \in Holds(n) \cup {s}
        <4>1. x = s \/ x \in service[n] \/ \E d \in Ctl : x = fd'[d][n]
          BY <3>2, <3>3 DEF Holds
        <4> QED
          BY <3>1, <4>1 DEF Holds
      <3> QED
        BY <3>3
    <2> SUFFICES ASSUME NEW a \in Name, NEW b \in Name, a # b
                 PROVE  Holds(a)' \cap Holds(b)' \subseteq {None}
      BY DEF OneName
    <2>3. Holds(a) \cap Holds(b) \subseteq {None}
      BY DEF SocketsInv, OneName
    <2>5. CASE a = n
      <3>1. Holds(b)' = Holds(b) /\ s \notin Holds(b)
        BY <2>1, <2>5
      <3>2. Holds(a)' \subseteq Holds(a) \cup {s}
        BY <2>2, <2>5
      <3> QED
        BY <2>3, <3>1, <3>2
    <2>6. CASE b = n
      <3>1. Holds(a)' = Holds(a) /\ s \notin Holds(a)
        BY <2>1, <2>6
      <3>2. Holds(b)' \subseteq Holds(b) \cup {s}
        BY <2>2, <2>6
      <3> QED
        BY <2>3, <3>1, <3>2
    <2>7. CASE a # n /\ b # n
      BY <2>1, <2>3, <2>7
    <2> QED
      BY <2>5, <2>6, <2>7
  <1>13. LatestAlone'
    <2> SUFFICES ASSUME alone
                 PROVE  /\ \A d \in Ctl : Making(d)' => d = last
                        /\ \A d \in Ctl, j \in 1 .. Len(Names) :
                             d = last /\ j \in Made(d)' => fd'[d][Names[j]] = file'[Names[j]]
      BY <1>1 DEF LatestAlone
    <2>1. last = c
      BY <1>1 DEF SocketsInv, LatestAlone
    <2>2. \A d \in Ctl : Making(d)' => d = last
      BY <1>7, <2>1 DEF SocketsInv, LatestAlone
    <2>3. ASSUME NEW j \in 1 .. Len(Names), j \in Made(c)'
          PROVE  fd'[c][Names[j]] = file'[Names[j]]
      <3>1. CASE j = k[c]
        BY <1>b, <1>3, <3>1
      <3>2. CASE j # k[c]
        BY <1>3, <1>9, <1>10, <2>1, <2>3, <3>2 DEF SocketsInv, LatestAlone
      <3> QED
        BY <3>1, <3>2
    <2> QED
      BY <2>1, <2>2, <2>3
  <1> QED
    BY <1>4, <1>6, <1>11, <1>12, <1>13 DEF SocketsInv

\* A process of a service comes with a socket of its name or goes.
LEMMA ServiceKeeps ==
  ASSUME SocketsInv, NEW n \in Name,
         UNCHANGED <<file, fd, pc, k, last, alone>>,
         NEW S, S \subseteq Holds(n), S \subseteq Sockets, service' = [service EXCEPT ![n] = S]
  PROVE  SocketsInv'
  <1>1. TypeOK'
    BY DEF SocketsInv, TypeOK, Holds
  <1>2. AtStart' /\ Announced' /\ LatestAlone'
    BY DEF SocketsInv, AtStart, Announced, LatestAlone, Made, Making
  <1>3. OneName'
    <2>1. ASSUME NEW m \in Name PROVE Holds(m)' \subseteq Holds(m) \cup {None}
      <3>1. service'[m] \subseteq Holds(m)
        BY DEF SocketsInv, TypeOK, Holds
      <3> QED
        BY <3>1 DEF Holds
    <2> QED
      BY <2>1, OneNameKept DEF SocketsInv
  <1> QED
    BY <1>1, <1>2, <1>3 DEF SocketsInv

LEMMA NextKeeps == SocketsInv /\ [Next]_vars => SocketsInv'
  <1> SUFFICES ASSUME SocketsInv, [Next]_vars PROVE SocketsInv'
    OBVIOUS
  <1> HIDE DEF SocketsInv
  <1>1. CASE UNCHANGED vars
    <2>1. (\A n \in Name : Holds(n)' = Holds(n)) /\ (\A c \in Ctl : Made(c)' = Made(c))
      BY <1>1 DEF vars, Made, Making, Holds
    <2>2. TypeOK' /\ AtStart' /\ Announced' /\ OneName'
      BY <1>1, <2>1 DEF vars, SocketsInv, TypeOK, AtStart, Announced, OneName
    <2>3. LatestAlone'
      BY <1>1, <2>1 DEF vars, SocketsInv, LatestAlone, Making
    <2> QED
      BY <2>2, <2>3 DEF SocketsInv
  <1>2. ASSUME NEW c \in Ctl, Run(c) PROVE SocketsInv'
    BY <1>2, RunKeeps
  <1>3. ASSUME NEW c \in Ctl, UnlinkFails(c) PROVE SocketsInv'
    BY <1>3, GoneKeeps DEF UnlinkFails
  <1>4. ASSUME NEW c \in Ctl, Unlink(c) PROVE SocketsInv'
    BY <1>4, UnlinkKeeps
  <1>5. ASSUME NEW c \in Ctl, BindFails(c) PROVE SocketsInv'
    BY <1>5, GoneKeeps DEF BindFails, Making
  <1>6. ASSUME NEW c \in Ctl, Bind(c) PROVE SocketsInv'
    BY <1>6, BindKeeps
  <1>7. ASSUME NEW c \in Ctl, Quit(c) PROVE SocketsInv'
    BY <1>7, GoneKeeps DEF Quit
  <1>8. ASSUME NEW c \in Ctl, NEW n \in Name, StartService(c, n) PROVE SocketsInv'
    <2>1. k[c] \in 1 .. Len(Names) /\ Made(c) = 1 .. Len(Names)
      BY <1>8 DEF SocketsInv, TypeOK, StartService, Made
    <2>2. fd[c][n] # None
      BY <2>1, NamesAreApart DEF SocketsInv, Announced
    <2>3. service[n] \cup {fd[c][n]} \subseteq Holds(n)
      BY DEF Holds
    <2>4. service[n] \cup {fd[c][n]} \subseteq Sockets
      BY <2>2 DEF SocketsInv, TypeOK
    <2> QED
      BY <1>8, <2>3, <2>4, ServiceKeeps DEF StartService
  <1>9. ASSUME NEW n \in Name, ServiceEnds(n) PROVE SocketsInv'
    <2>1. PICK s \in service[n] : service' = [service EXCEPT ![n] = service[n] \ {s}]
      BY <1>9 DEF ServiceEnds
    <2>2. service[n] \ {s} \subseteq Holds(n) /\ service[n] \ {s} \subseteq Sockets
      BY DEF SocketsInv, TypeOK, Holds
    <2> QED
      BY <1>9, <2>1, <2>2, ServiceKeeps DEF ServiceEnds
  <1> QED
    BY <1>1, <1>2, <1>3, <1>4, <1>5, <1>6, <1>7, <1>8, <1>9 DEF Next

LEMMA Invariant == Spec => []SocketsInv
  BY InitEstablishes, NextKeeps, PTL DEF Spec

-------------------------------------------------------------------------------
(* Theorems *)

\* The variables keep their types: main() never asks for a socket beyond its last.
THEOREM TypeCorrect == Spec => []TypeOK
  <1>1. SocketsInv => TypeOK
    BY DEF SocketsInv
  <1> QED
    BY <1>1, Invariant, PTL

\* What a controller hands to its services is bound to their paths, unless another
\* controller has made sockets since it began to.
THEOREM LatestStaysBound == Spec => []LatestIsBound
  <1>1. SocketsInv => LatestIsBound
    <2> SUFFICES ASSUME SocketsInv, last # NoCtl, pc[last] = "ready", alone
                 PROVE  fd[last] = file
      BY DEF LatestIsBound
    <2>1. last \in Ctl /\ Made(last) = 1 .. Len(Names)
      BY DEF SocketsInv, TypeOK, Made
    <2>2. \A j \in 1 .. Len(Names) : fd[last][Names[j]] = file[Names[j]]
      BY <2>1 DEF SocketsInv, LatestAlone
    <2>3. \A n \in Name : fd[last][n] = file[n]
      BY <2>2, NamesAreApart
    <2> QED
      BY <2>1, <2>3 DEF SocketsInv, TypeOK
  <1> QED
    BY <1>1, Invariant, PTL

\* A controller that starts services has a descriptor for each, no two the same.
THEOREM DescriptorsComplete == Spec => []AllDescriptors
  <1>1. SocketsInv => AllDescriptors
    <2> SUFFICES ASSUME SocketsInv, NEW c \in Ctl, pc[c] = "ready",
                        NEW m \in Name, NEW n \in Name
                 PROVE  fd[c][m] # None /\ (m # n => fd[c][m] # fd[c][n])
      BY DEF AllDescriptors
    <2>1. Made(c) = 1 .. Len(Names)
      BY DEF Made
    <2>2. \A i \in Name : fd[c][i] # None
      BY <2>1, NamesAreApart DEF SocketsInv, Announced
    <2>3. m # n => Holds(m) \cap Holds(n) \subseteq {None}
      BY DEF SocketsInv, OneName
    <2>4. fd[c][m] \in Holds(m) /\ fd[c][n] \in Holds(n)
      BY DEF Holds
    <2> QED
      BY <2>2, <2>3, <2>4
  <1> QED
    BY <1>1, Invariant, PTL

\* A service's socket is at no path but its own.
THEOREM PathsKeptApart == Spec => []OwnPath
  <1>1. SocketsInv => OwnPath
    <2> SUFFICES ASSUME SocketsInv, NEW m \in Name, NEW n \in Name,
                        file[n] \in service[m], m # n
                 PROVE  FALSE
      BY DEF OwnPath
    <2>1. Holds(m) \cap Holds(n) \subseteq {None}
      BY DEF SocketsInv, OneName
    <2>2. file[n] \in Holds(m) /\ file[n] \in Holds(n)
      BY DEF Holds
    <2>3. file[n] # None
      BY NoneAssumption DEF SocketsInv, TypeOK
    <2> QED
      BY <2>1, <2>2, <2>3
  <1> QED
    BY <1>1, Invariant, PTL

\* A running service loses its path only to a controller that makes the socket of its
\* name: no end of a controller and no other service cuts it off.
THEOREM CutOffOnlyByMain == Spec => CutOffByMain
  <1> DEFINE CutOff == \A n \in Name :
               file[n] \in service[n] \cap service'[n] /\ file'[n] # file[n]
                 => \E c \in Ctl : Making(c) /\ Names[k[c]] = n /\ fd[c][n] = None
  <1>1. SocketsInv /\ [Next]_vars => [CutOff]_vars
    <2> SUFFICES ASSUME SocketsInv, Next, NEW n \in Name,
                        file'[n] # file[n]
                 PROVE  \E c \in Ctl : Making(c) /\ Names[k[c]] = n /\ fd[c][n] = None
      BY DEF CutOff
    <2>1. PICK c \in Ctl : Unlink(c) \/ BindFails(c) \/ Bind(c)
      BY DEF Next, Run, UnlinkFails, Quit, StartService, ServiceEnds
    <2>2. Making(c) /\ k[c] \in 1 .. Len(Names) /\ Names[k[c]] \in Name
      BY <2>1, NamesAreApart DEF SocketsInv, TypeOK, Unlink, BindFails, Bind, Making
    <2>3. Names[k[c]] = n
      BY <2>1, <2>2 DEF SocketsInv, TypeOK, Unlink, BindFails, Bind, Remove
    <2>4. k[c] \notin Made(c)
      BY <2>2 DEF Made, Making
    <2>5. fd[c][n] = None
      BY <2>2, <2>3, <2>4 DEF SocketsInv, Announced
    <2> QED
      BY <2>2, <2>3, <2>5
  <1> QED
    BY <1>1, Invariant, PTL DEF Spec, CutOffByMain
===============================================================================
