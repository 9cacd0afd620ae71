-------------------------- MODULE RenderingProofs ---------------------------
(***************************************************************************)
(* Theorems about the making of bodies: for any matches, variables, files, *)
(* imports and configurations, and any order that the search takes.        *)
(***************************************************************************)
EXTENDS EngineProofs

-----------------------------------------------------------------------------
(***************************************************************************)
(* Rendering: what a sequence holds.                                       *)
(***************************************************************************)
\* A member more, two sequences in a row, and a sequence without its first or its last member.
LEMMA RangeOfAppend ==
  ASSUME NEW S, NEW s \in Seq(S), NEW x \in S PROVE Range(Append(s, x)) = Range(s) \cup {x}
<1> DEFINE a == Append(s, x)
<1>1. /\ a \in Seq(S) /\ Len(a) = Len(s) + 1 /\ \A k \in 1..Len(s) : a[k] = s[k]
      /\ a[Len(s) + 1] = x
  BY AppendIs
<1> HIDE DEF a
<1>2. DOMAIN a = 1..Len(s) \cup {Len(s) + 1} /\ DOMAIN s = 1..Len(s)
  BY <1>1
<1> QED BY <1>1, <1>2 DEF Range, a

\* What is in two sequences one after the other.
LEMMA RangeOfBoth ==
  ASSUME NEW S, NEW s \in Seq(S), NEW t \in Seq(S) PROVE Range(s \o t) = Range(s) \cup Range(t)
<1> DEFINE c == s \o t
<1>1. /\ c \in Seq(S) /\ Len(c) = Len(s) + Len(t)
      /\ \A k \in 1..Len(c) : c[k] = IF k <= Len(s) THEN s[k] ELSE t[k - Len(s)]
  BY ConcatProperties
<1> HIDE DEF c
<1>2. DOMAIN c = 1..Len(s) + Len(t) /\ DOMAIN s = 1..Len(s) /\ DOMAIN t = 1..Len(t)
      /\ Len(s) \in Nat /\ Len(t) \in Nat
  BY <1>1
<1>3. \A k \in DOMAIN c : c[k] \in Range(s) \cup Range(t)
  <2> TAKE k \in DOMAIN c
  <2>1. CASE k <= Len(s)
    BY <1>1, <1>2, <2>1 DEF Range
  <2>2. CASE ~(k <= Len(s))
    <3>1. k - Len(s) \in 1..Len(t) /\ c[k] = t[k - Len(s)]
      BY <1>1, <1>2, <2>2
    <3> QED BY <1>2, <3>1 DEF Range
  <2> QED BY <2>1, <2>2
<1>4. \A k \in DOMAIN s : s[k] \in Range(c)
  <2> TAKE k \in DOMAIN s
  <2>1. k \in DOMAIN c /\ c[k] = s[k]
    BY <1>1, <1>2
  <2> QED BY <2>1 DEF Range
<1>5. \A k \in DOMAIN t : t[k] \in Range(c)
  <2> TAKE k \in DOMAIN t
  <2>1. k + Len(s) \in DOMAIN c /\ c[k + Len(s)] = t[k]
    BY <1>1, <1>2
  <2> QED BY <2>1 DEF Range
<1> QED BY <1>3, <1>4, <1>5 DEF Range, c

\* What is in a sequence: the head of it and what is in its tail.
LEMMA RangeOfTail ==
  ASSUME NEW S, NEW s \in Seq(S), s # << >>
  PROVE  Range(s) = {Head(s)} \cup Range(Tail(s)) /\ Head(s) \in S /\ Tail(s) \in Seq(S)
<1> DEFINE t == Tail(s)
<1>1. /\ t \in Seq(S) /\ Len(t) = Len(s) - 1 /\ Len(s) \in Nat /\ Len(s) > 0
      /\ \A k \in 1..Len(t) : t[k] = s[k + 1]
  BY TailIs
<1>2. Head(s) = s[1] /\ Head(s) \in S
  BY <1>1
<1> HIDE DEF t
<1>3. DOMAIN s = 1..Len(s) /\ DOMAIN t = 1..Len(s) - 1
  BY <1>1
<1>4. \A k \in DOMAIN s : s[k] \in {Head(s)} \cup Range(t)
  <2> TAKE k \in DOMAIN s
  <2>1. k = 1 \/ k - 1 \in DOMAIN t
    BY <1>1, <1>3
  <2>2. k - 1 \in DOMAIN t => t[k - 1] = s[k]
    BY <1>1, <1>3
  <2> QED BY <1>2, <2>1, <2>2 DEF Range
<1>5. \A k \in DOMAIN t : k + 1 \in DOMAIN s /\ t[k] = s[k + 1]
  BY <1>1, <1>3
<1>6. 1 \in DOMAIN s
  BY <1>1, <1>3
<1>7. Range(s) = {Head(s)} \cup Range(t)
  BY <1>2, <1>4, <1>5, <1>6 DEF Range
<1> QED BY <1>1, <1>2, <1>7 DEF t

\* What is in a sequence: what is in the front of it and the last of it.
LEMMA RangeOfFront ==
  ASSUME NEW S, NEW s \in Seq(S), s # << >>
  PROVE  Range(s) = Range(Front(s)) \cup {Last(s)}
<1> DEFINE t == Front(s)
<1>1. /\ t \in Seq(S) /\ Len(t) = Len(s) - 1 /\ Len(s) \in Nat /\ Len(s) > 0
      /\ \A k \in 1..Len(t) : t[k] = s[k]
  BY FrontIs
<1>2. Last(s) = s[Len(s)]
  BY DEF Last
<1> HIDE DEF t
<1>3. DOMAIN s = 1..Len(s) /\ DOMAIN t = 1..Len(s) - 1
  BY <1>1
<1>4. \A k \in DOMAIN s : k \in DOMAIN t \/ k = Len(s)
  BY <1>1, <1>3
<1>5. \A k \in DOMAIN t : k \in DOMAIN s /\ t[k] = s[k]
  BY <1>1, <1>3
<1>6. Len(s) \in DOMAIN s
  BY <1>1, <1>3
<1> QED BY <1>2, <1>4, <1>5, <1>6 DEF Range, t

\* The count of a sequence without repetitions is that of its members.
LEMMA NoRepetitions ==
  ASSUME NEW S, NEW s \in Seq(S), \A j, k \in DOMAIN s : s[j] = s[k] => j = k
  PROVE  Len(s) = Cardinality(Range(s))
<1> DEFINE N == 1..Len(s)
           R == Range(s)
<1>1. Len(s) \in Nat /\ DOMAIN s = N /\ 1 \in Int /\ Len(s) \in Int
  OBVIOUS
<1>2. IsFiniteSet(N) /\ Cardinality(N) = IF 1 > Len(s) THEN 0 ELSE Len(s) - 1 + 1
  BY <1>1, FS_Interval
<1>3. Cardinality(N) = Len(s)
  BY <1>1, <1>2
<1>4. s \in Bijection(N, R)
  <2>1. s \in [N -> R]
    BY <1>1 DEF Range
  <2>2. s \in Injection(N, R)
    BY <1>1, <2>1 DEF Injection, IsInjective
  <2>3. s \in Surjection(N, R)
    BY <1>1, <2>1 DEF Surjection, Range
  <2> QED BY <2>2, <2>3 DEF Bijection
<1>5. ExistsBijection(N, R)
  BY <1>4 DEF ExistsBijection
<1> HIDE DEF N, R
<1>6. Cardinality(R) = Cardinality(N)
  BY <1>2, <1>5, FS_Bijection
<1> QED BY <1>3, <1>6 DEF R

\* Two sequences without repetitions that share nothing have none together.
LEMMA NoneTwice ==
  ASSUME NEW S, NEW s \in Seq(S), NEW m \in Seq(S),
         \A j, k \in DOMAIN s : s[j] = s[k] => j = k,
         \A j, k \in DOMAIN m : m[j] = m[k] => j = k,
         \A j \in DOMAIN s, k \in DOMAIN m : s[j] # m[k],
         NEW c, c = s \o m
  PROVE  \A j, k \in DOMAIN c : c[j] = c[k] => j = k
<1>1. /\ c \in Seq(S) /\ Len(c) = Len(s) + Len(m)
      /\ \A k \in 1..Len(c) : c[k] = IF k <= Len(s) THEN s[k] ELSE m[k - Len(s)]
  BY ConcatProperties
<1>2. DOMAIN c = 1..Len(s) + Len(m) /\ DOMAIN s = 1..Len(s) /\ DOMAIN m = 1..Len(m)
      /\ Len(s) \in Nat /\ Len(m) \in Nat
  BY <1>1
<1> TAKE j, k \in DOMAIN c
<1> HAVE c[j] = c[k]
<1>3. (j \in DOMAIN s /\ c[j] = s[j]) \/ (j - Len(s) \in DOMAIN m /\ c[j] = m[j - Len(s)])
  BY <1>1, <1>2
<1>4. (k \in DOMAIN s /\ c[k] = s[k]) \/ (k - Len(s) \in DOMAIN m /\ c[k] = m[k - Len(s)])
  BY <1>1, <1>2
<1>5. j = k \/ (j - Len(s) = k - Len(s) /\ j - Len(s) \in DOMAIN m)
  BY <1>3, <1>4
<1> QED BY <1>2, <1>5

-----------------------------------------------------------------------------
(***************************************************************************)
(* Rendering: the walk through the match files.                            *)
(***************************************************************************)
Opening == [file : DOMAIN Files, left : Seq(DOMAIN Files)]
Contexts ==
  [of : Templates, config : Configs, style : {"none", "capital"}, left : Seq(DOMAIN Files),
   visited : SUBSET DOMAIN Files, open : Seq(Opening), globals : Seq(Variables),
   templates : Seq(Templates)]

\* The files that are open, and what is left to visit after them; what has been visited or
\* will be; the files that have given what is in them.
OpenFiles(open) == {o.file : o \in Range(open)}
LeftIn(open) == UNION {Range(o.left) : o \in Range(open)}
Due(w) == w.visited \cup Range(w.left) \cup LeftIn(w.open)
Read(w) == {f \in w.visited : Files[f].readable} \ OpenFiles(w.open)

\* A walk that is under way.
OnlyReached(w) ==
  /\ Range(w.config) \subseteq Due(w) /\ Due(w) \subseteq Reached(w.config)
  /\ \A f \in w.visited : Files[f].readable => Range(Files[f].imports) \subseteq Due(w)
OpenOnce(open, visited) ==
  /\ \A o \in Range(open) : o.file \in visited /\ Files[o.file].readable
  /\ \A j, k \in DOMAIN open : open[j].file = open[k].file => j = k
HasRead(read, globals, templates) ==
  /\ Range(globals) = UNION {Range(Files[f].globals) : f \in read}
  /\ Range(templates) = UNION {Range(Files[f].matches) : f \in read}
  /\ \A j, k \in DOMAIN templates : templates[j] = templates[k] => j = k
Walked(w) ==
  /\ OnlyReached(w) /\ OpenOnce(w.open, w.visited) /\ HasRead(Read(w), w.globals, w.templates)
WalkOver(w) == w.left = << >> /\ w.open = << >>

\* What is reached is closed under imports, and the least that is.
LEMMA ReachedIsLeast ==
  ASSUME NEW config \in Configs
  PROVE  /\ Reached(config) \subseteq DOMAIN Files /\ Range(config) \subseteq Reached(config)
         /\ \A f \in Reached(config) :
              Files[f].readable => Range(Files[f].imports) \subseteq Reached(config)
         /\ \A s \in SUBSET DOMAIN Files :
              /\ Range(config) \subseteq s
              /\ \A f \in s : Files[f].readable => Range(Files[f].imports) \subseteq s
              => Reached(config) \subseteq s
<1>1. Range(config) \subseteq DOMAIN Files
  <2>1. config \in Seq(DOMAIN Files)
    BY RenderingConstants
  <2> QED BY <2>1 DEF Range
<1>2. \A f \in DOMAIN Files : Range(Files[f].imports) \subseteq DOMAIN Files
  <2> TAKE f \in DOMAIN Files
  <2>1. Files[f].imports \in Seq(DOMAIN Files)
    BY RenderingConstants
  <2> QED BY <2>1 DEF Range
<1> QED BY <1>1, <1>2 DEF Reached, Least

\* A walk begins.
LEMMA WalkBegins ==
  ASSUME NEW t \in Templates, NEW config \in Configs, NEW style \in {"none", "capital"},
         NEW w, w = [of |-> t, config |-> config, style |-> style, left |-> config,
                     visited |-> {}, open |-> << >>, globals |-> << >>, templates |-> << >>]
  PROVE  w \in Contexts /\ Walked(w)
<1>1. config \in Seq(DOMAIN Files)
  BY RenderingConstants
<1>2. w \in Contexts
  BY <1>1 DEF Contexts
<1>3. Range(<< >>) = {} /\ DOMAIN << >> = {}
  BY DEF Range
<1>4. OpenFiles(w.open) = {} /\ LeftIn(w.open) = {}
  BY <1>3 DEF OpenFiles, LeftIn
<1>5. Due(w) = Range(config) /\ Read(w) = {}
  BY <1>4 DEF Due, Read
<1>6. OnlyReached(w)
  BY <1>5, ReachedIsLeast DEF OnlyReached
<1>7. OpenOnce(w.open, w.visited) /\ HasRead(Read(w), w.globals, w.templates)
  BY <1>3, <1>5 DEF OpenOnce, HasRead
<1> QED BY <1>2, <1>6, <1>7 DEF Walked

\* The next path is opened.
LEMMA WalkOpens ==
  ASSUME NEW w \in Contexts, Walked(w), w.left # << >>,
         Head(w.left) \notin w.visited, Files[Head(w.left)].readable,
         NEW x, x = [w EXCEPT !.left = Files[Head(w.left)].imports, !.visited = @ \cup {Head(w.left)},
                              !.open = Append(@, [file |-> Head(w.left), left |-> Tail(w.left)])]
  PROVE  x \in Contexts /\ Walked(x)
<1> DEFINE f == Head(w.left)
           o == [file |-> f, left |-> Tail(w.left)]
<1>1. w.left \in Seq(DOMAIN Files) /\ w.open \in Seq(Opening) /\ w.visited \subseteq DOMAIN Files
      /\ w.config \in Configs
  BY DEF Contexts
<1>2. Range(w.left) = {f} \cup Range(Tail(w.left)) /\ f \in DOMAIN Files
      /\ Tail(w.left) \in Seq(DOMAIN Files)
  BY <1>1, RangeOfTail
<1>3. o \in Opening /\ o.file = f /\ o.left = Tail(w.left)
  BY <1>2 DEF Opening
<1>4. Files[f].imports \in Seq(DOMAIN Files)
  BY <1>2, RenderingConstants
<1>5. Range(Append(w.open, o)) = Range(w.open) \cup {o} /\ Append(w.open, o) \in Seq(Opening)
      /\ Len(Append(w.open, o)) = Len(w.open) + 1
      /\ (\A k \in 1..Len(w.open) : Append(w.open, o)[k] = w.open[k])
      /\ Append(w.open, o)[Len(w.open) + 1] = o
  <2> DEFINE s == w.open
  <2>1. s \in Seq(Opening) /\ o \in Opening
    BY <1>1, <1>3
  <2> HIDE DEF o, s
  <2>2. /\ Range(Append(s, o)) = Range(s) \cup {o} /\ Append(s, o) \in Seq(Opening)
        /\ Len(Append(s, o)) = Len(s) + 1 /\ (\A k \in 1..Len(s) : Append(s, o)[k] = s[k])
        /\ Append(s, o)[Len(s) + 1] = o
    BY <2>1, RangeOfAppend, AppendIs
  <2> QED BY <2>2 DEF s
<1> DEFINE open == Append(w.open, o)
<1>6. /\ x.left = Files[f].imports /\ x.visited = w.visited \cup {f} /\ x.open = open
      /\ x.config = w.config /\ x.globals = w.globals /\ x.templates = w.templates /\ x \in Contexts
  <2>1. x = [w EXCEPT !.left = Files[f].imports, !.visited = @ \cup {f}, !.open = open]
    OBVIOUS
  <2>2. open \in Seq(Opening) /\ w.visited \cup {f} \in SUBSET DOMAIN Files
    BY <1>1, <1>2, <1>5
  <2> HIDE DEF o, f, open
  <2> QED BY <1>4, <2>1, <2>2 DEF Contexts
<1> HIDE DEF open
<1>7. OpenFiles(open) = OpenFiles(w.open) \cup {f}
      /\ LeftIn(open) = LeftIn(w.open) \cup Range(Tail(w.left))
  <2> HIDE DEF o, f
  <2> QED BY <1>3, <1>5 DEF OpenFiles, LeftIn, open
<1>8. Due(x) = Due(w) \cup Range(Files[f].imports)
  BY <1>2, <1>6, <1>7 DEF Due
<1>9. Read(x) = Read(w)
  BY <1>6, <1>7 DEF Read, f
<1>10. OnlyReached(x)
  <2>1. f \in Due(w) /\ OnlyReached(w) /\ Files[f].readable
    BY <1>2 DEF Due, Walked, f
  <2> HIDE DEF f
  <2>2. Range(Files[f].imports) \subseteq Reached(w.config)
    BY <1>1, <2>1, ReachedIsLeast DEF OnlyReached
  <2> QED BY <1>6, <1>8, <2>1, <2>2 DEF OnlyReached
<1>11. OpenOnce(x.open, x.visited)
  <2>1. OpenOnce(w.open, w.visited) /\ f \notin w.visited /\ Files[f].readable
    BY DEF Walked, f
  <2> HIDE DEF f, o
  <2>2. \A p \in Range(open) : p.file \in x.visited /\ Files[p.file].readable
    BY <1>3, <1>5, <1>6, <2>1 DEF OpenOnce, open
  <2>3. DOMAIN open = 1..Len(w.open) \cup {Len(w.open) + 1} /\ DOMAIN w.open = 1..Len(w.open)
        /\ (\A k \in DOMAIN w.open : open[k] = w.open[k]) /\ open[Len(w.open) + 1] = o
    <3> DEFINE s == w.open
    <3>1. open \in Seq(Opening) /\ Len(open) = Len(s) + 1 /\ s \in Seq(Opening)
          /\ (\A k \in 1..Len(s) : open[k] = s[k]) /\ open[Len(s) + 1] = o
      BY <1>1, <1>5 DEF open
    <3> HIDE DEF s
    <3>2. DOMAIN open = 1..Len(s) \cup {Len(s) + 1} /\ DOMAIN s = 1..Len(s)
      BY <3>1
    <3> QED BY <3>1, <3>2 DEF s
  <2>4. \A k \in DOMAIN w.open : w.open[k].file \in w.visited
    BY <2>1 DEF OpenOnce, Range
  <2>5. \A j, k \in DOMAIN open : open[j].file = open[k].file => j = k
    BY <1>3, <2>1, <2>3, <2>4 DEF OpenOnce
  <2>6. OpenOnce(open, x.visited)
    BY <2>2, <2>5 DEF OpenOnce
  <2> QED BY <1>6, <2>6
<1>12. HasRead(Read(x), x.globals, x.templates)
  BY <1>6, <1>9 DEF Walked, HasRead
<1> QED BY <1>6, <1>10, <1>11, <1>12 DEF Walked

\* The next path has been visited or cannot be read.
LEMMA WalkSkips ==
  ASSUME NEW w \in Contexts, Walked(w), w.left # << >>,
         ~(Head(w.left) \notin w.visited /\ Files[Head(w.left)].readable),
         NEW x, x = [w EXCEPT !.left = Tail(w.left), !.visited = @ \cup {Head(w.left)}]
  PROVE  x \in Contexts /\ Walked(x)
<1> DEFINE f == Head(w.left)
<1>1. w.left \in Seq(DOMAIN Files) /\ w.open \in Seq(Opening) /\ w.visited \subseteq DOMAIN Files
      /\ w.config \in Configs
  BY DEF Contexts
<1>2. Range(w.left) = {f} \cup Range(Tail(w.left)) /\ f \in DOMAIN Files
      /\ Tail(w.left) \in Seq(DOMAIN Files)
  BY <1>1, RangeOfTail
<1>3. /\ x.left = Tail(w.left) /\ x.visited = w.visited \cup {f} /\ x.open = w.open
      /\ x.config = w.config /\ x.globals = w.globals /\ x.templates = w.templates /\ x \in Contexts
  <2> DEFINE r == Tail(w.left)
  <2>1. x = [w EXCEPT !.left = r, !.visited = @ \cup {f}]
    OBVIOUS
  <2>2. r \in Seq(DOMAIN Files) /\ w.visited \cup {f} \in SUBSET DOMAIN Files
    BY <1>1, <1>2
  <2>3. r = Tail(w.left)
    OBVIOUS
  <2> HIDE DEF f, r
  <2> QED BY <2>1, <2>2, <2>3 DEF Contexts
<1>4. f \in w.visited \/ ~Files[f].readable
  BY DEF f
<1> HIDE DEF f
<1>5. Due(x) = Due(w)
  BY <1>2, <1>3 DEF Due
<1>6. Read(x) = Read(w)
  BY <1>3, <1>4 DEF Read
<1>7. OnlyReached(w) /\ OpenOnce(w.open, w.visited) /\ HasRead(Read(w), w.globals, w.templates)
  BY DEF Walked
<1>8. OnlyReached(x)
  BY <1>3, <1>4, <1>5, <1>7 DEF OnlyReached
<1>9. OpenOnce(x.open, x.visited)
  BY <1>3, <1>7 DEF OpenOnce
<1>10. HasRead(Read(x), x.globals, x.templates)
  BY <1>3, <1>6, <1>7 DEF HasRead
<1> QED BY <1>3, <1>8, <1>9, <1>10 DEF Walked

\* The last file that is open is through.
LEMMA WalkCloses ==
  ASSUME NEW w \in Contexts, Walked(w), w.left = << >>, w.open # << >>,
         NEW x, x = [w EXCEPT !.left = Last(w.open).left, !.open = Front(@),
                              !.globals = @ \o Files[Last(w.open).file].globals,
                              !.templates = @ \o Files[Last(w.open).file].matches]
  PROVE  x \in Contexts /\ Walked(x)
<1> DEFINE o == Last(w.open)
           f == o.file
           rest == Front(w.open)
           gs == w.globals \o Files[f].globals
           ts == w.templates \o Files[f].matches
<1>1. w.open \in Seq(Opening) /\ w.visited \subseteq DOMAIN Files /\ w.config \in Configs
      /\ w.globals \in Seq(Variables) /\ w.templates \in Seq(Templates)
  BY DEF Contexts
<1>2. /\ o \in Opening /\ rest \in Seq(Opening) /\ Range(w.open) = Range(rest) \cup {o}
      /\ Len(rest) = Len(w.open) - 1 /\ Len(w.open) \in Nat /\ Len(w.open) > 0
      /\ (\A k \in 1..Len(rest) : rest[k] = w.open[k]) /\ w.open[Len(w.open)] = o
  <2>1. w.open[Len(w.open)] = o
    BY DEF Last
  <2> HIDE DEF o, rest
  <2> QED BY <1>1, <2>1, FrontIs, RangeOfFront DEF o, rest
<1>3. f \in DOMAIN Files /\ o.left \in Seq(DOMAIN Files)
  BY <1>2 DEF Opening
<1>4. Files[f].globals \in Seq(Variables) /\ Files[f].matches \in Seq(Templates)
  BY <1>3, RenderingConstants
<1>5. gs \in Seq(Variables) /\ ts \in Seq(Templates)
  BY <1>1, <1>4, ConcatProperties
<1>6. /\ x.left = o.left /\ x.visited = w.visited /\ x.open = rest /\ x.config = w.config
      /\ x.globals = gs /\ x.templates = ts /\ x \in Contexts
  <2>1. x = [w EXCEPT !.left = o.left, !.open = rest, !.globals = gs, !.templates = ts]
    OBVIOUS
  <2> HIDE DEF o, f, rest, gs, ts
  <2> QED BY <1>2, <1>3, <1>5, <2>1 DEF Contexts
<1>7. OnlyReached(w) /\ OpenOnce(w.open, w.visited) /\ HasRead(Read(w), w.globals, w.templates)
  BY DEF Walked
<1>8. \A p \in Range(rest) : p.file # f
  <2> SUFFICES ASSUME NEW k \in 1..Len(rest), rest[k].file = f PROVE FALSE
    <3>1. DOMAIN rest = 1..Len(rest)
      BY <1>2
    <3> HIDE DEF rest, f
    <3> QED BY <3>1 DEF Range
  <2>1. k \in DOMAIN w.open /\ Len(w.open) \in DOMAIN w.open /\ k # Len(w.open)
    BY <1>1, <1>2
  <2>2. w.open[k].file = w.open[Len(w.open)].file
    BY <1>2
  <2> QED BY <1>7, <2>1, <2>2 DEF OpenOnce
<1>9. OpenFiles(w.open) = OpenFiles(rest) \cup {f} /\ f \notin OpenFiles(rest)
      /\ LeftIn(w.open) = LeftIn(rest) \cup Range(o.left)
  <2> HIDE DEF o, rest
  <2> QED BY <1>2, <1>8 DEF OpenFiles, LeftIn
<1>10. f \in w.visited /\ Files[f].readable
  BY <1>2, <1>7 DEF OpenOnce
<1>11. Due(x) = Due(w)
  <2>1. Range(<< >>) = {}
    BY DEF Range
  <2> HIDE DEF o, rest
  <2> QED BY <1>6, <1>9, <2>1 DEF Due
<1>12. Read(x) = Read(w) \cup {f} /\ f \notin Read(w)
  <2> HIDE DEF f, rest
  <2> QED BY <1>6, <1>9, <1>10 DEF Read
<1>13. OnlyReached(x)
  BY <1>6, <1>7, <1>11 DEF OnlyReached
<1>14. OpenOnce(x.open, x.visited)
  <2>1. DOMAIN rest \subseteq DOMAIN w.open /\ \A k \in DOMAIN rest : rest[k] = w.open[k]
    <3> DEFINE s == w.open
    <3>1. /\ rest \in Seq(Opening) /\ s \in Seq(Opening) /\ Len(rest) = Len(s) - 1
          /\ \A k \in 1..Len(rest) : rest[k] = s[k]
      BY <1>1, <1>2
    <3> HIDE DEF s, rest
    <3> QED BY <3>1 DEF s
  <2> HIDE DEF o, rest
  <2>2. \A p \in Range(rest) : p.file \in w.visited /\ Files[p.file].readable
    BY <1>2, <1>7 DEF OpenOnce
  <2>3. \A j, k \in DOMAIN rest : rest[j].file = rest[k].file => j = k
    BY <1>7, <2>1 DEF OpenOnce
  <2>4. OpenOnce(rest, w.visited)
    BY <2>2, <2>3 DEF OpenOnce
  <2> QED BY <1>6, <2>4
<1>15. Range(gs) = Range(w.globals) \cup Range(Files[f].globals)
       /\ Range(ts) = Range(w.templates) \cup Range(Files[f].matches)
  <2> HIDE DEF f
  <2> QED BY <1>1, <1>4, RangeOfBoth
<1>16. \A j, k \in DOMAIN ts : ts[j] = ts[k] => j = k
  <2> DEFINE s == w.templates
             m == Files[f].matches
  <2>1. s \in Seq(Templates) /\ m \in Seq(Templates) /\ ts = s \o m
    BY <1>1, <1>4
  <2>2. \A j, k \in DOMAIN s : s[j] = s[k] => j = k
    BY <1>7 DEF HasRead
  <2>3. \A j, k \in DOMAIN m : m[j] = m[k] => j = k
    BY <1>3, RenderingConstants
  <2>4. \A j \in DOMAIN s, k \in DOMAIN m : s[j] # m[k]
    <3> SUFFICES ASSUME NEW j \in DOMAIN s, NEW k \in DOMAIN m, s[j] = m[k] PROVE FALSE
      OBVIOUS
    <3>1. s[j] \in Range(w.templates)
      BY DEF Range
    <3>2. PICK g \in Read(w) : s[j] \in Range(Files[g].matches)
      BY <1>7, <3>1 DEF HasRead
    <3>3. PICK i \in DOMAIN Files[g].matches : Files[g].matches[i] = m[k]
      BY <3>2 DEF Range
    <3>4. g \in DOMAIN Files /\ g # f
      BY <1>1, <1>12 DEF Read
    <3> QED BY <1>3, <3>3, <3>4, RenderingConstants
  <2> HIDE DEF s, m, ts
  <2> QED BY <2>1, <2>2, <2>3, <2>4, NoneTwice
<1>17. HasRead(Read(x), x.globals, x.templates)
  <2> HIDE DEF f, gs, ts
  <2>1. Range(gs) = UNION {Range(Files[g].globals) : g \in Read(w) \cup {f}}
        /\ Range(ts) = UNION {Range(Files[g].matches) : g \in Read(w) \cup {f}}
    BY <1>7, <1>15 DEF HasRead
  <2>2. HasRead(Read(w) \cup {f}, gs, ts)
    BY <1>16, <2>1 DEF HasRead
  <2> QED BY <1>6, <1>12, <2>2
<1> QED BY <1>6, <1>13, <1>14, <1>17 DEF Walked

\* A walk that is over has been to all files that are reached, and has read each of them.
LEMMA WalkEnds ==
  ASSUME NEW w \in Contexts, Walked(w), WalkOver(w)
  PROVE  /\ Range(w.templates) = UNION {Range(Files[f].matches) : f \in FilesOf[w.config]}
         /\ Len(w.templates) = Cardinality(Range(w.templates))
         /\ Range(w.globals) = UNION {Range(Files[f].globals) : f \in FilesOf[w.config]}
<1>1. w.config \in Configs /\ w.visited \subseteq DOMAIN Files /\ w.templates \in Seq(Templates)
  BY DEF Contexts
<1>2. Range(<< >>) = {}
  BY DEF Range
<1>3. LeftIn(w.open) = {} /\ OpenFiles(w.open) = {}
  BY <1>2 DEF LeftIn, OpenFiles, WalkOver
<1>4. Due(w) = w.visited /\ Read(w) = {f \in w.visited : Files[f].readable}
  BY <1>2, <1>3 DEF Due, Read, WalkOver
<1>5. w.visited = Reached(w.config)
  <2>1. OnlyReached(w)
    BY DEF Walked
  <2>2. Range(w.config) \subseteq w.visited /\ w.visited \subseteq Reached(w.config)
        /\ \A f \in w.visited : Files[f].readable => Range(Files[f].imports) \subseteq w.visited
    BY <1>4, <2>1 DEF OnlyReached
  <2> QED BY <1>1, <2>2, ReachedIsLeast
<1>6. Read(w) = FilesOf[w.config]
  BY <1>1, <1>4, <1>5 DEF FilesOf, Readable
<1>7. HasRead(Read(w), w.globals, w.templates)
  BY DEF Walked
<1>8. Len(w.templates) = Cardinality(Range(w.templates))
  BY <1>1, <1>7, NoRepetitions DEF HasRead
<1> QED BY <1>6, <1>7, <1>8 DEF HasRead

-----------------------------------------------------------------------------
(***************************************************************************)
(* Rendering: the graph of a template.                                     *)
(***************************************************************************)
Nodes == Names \cup {MatchBody}

\* Of several variables of a name the last one is found.
LEMMA PlaceIs ==
  ASSUME NEW s \in Seq(Variables), NEW n, Holds(s, n)
  PROVE  /\ Place(s, n) \in DOMAIN s /\ s[Place(s, n)].name = n
         /\ \A j \in DOMAIN s : s[j].name = n => j <= Place(s, n)
<1> DEFINE T == {k \in Nat : \E j \in DOMAIN s : s[j].name = n /\ k = Len(s) - j}
<1>1. DOMAIN s = 1..Len(s) /\ Len(s) \in Nat
  OBVIOUS
<1>2. T \subseteq Nat /\ T # {}
  <2>1. PICK j \in DOMAIN s : s[j].name = n
    BY DEF Holds
  <2>2. Len(s) - j \in Nat
    BY <1>1
  <2> QED BY <2>1, <2>2
<1>3. PICK x \in T : \A y \in T : x <= y
  <2> HIDE DEF T
  <2> QED BY <1>2, Smallest
<1>4. PICK k \in DOMAIN s : s[k].name = n /\ x = Len(s) - k
  OBVIOUS
<1>5. \A j \in DOMAIN s : s[j].name = n => j <= k
  <2> TAKE j \in DOMAIN s
  <2> HAVE s[j].name = n
  <2>1. Len(s) - j \in T
    BY <1>1
  <2>2. x <= Len(s) - j
    BY <1>3, <2>1
  <2> QED BY <1>1, <1>4, <2>2
<1> HIDE DEF T
<1> QED BY <1>4, <1>5 DEF Place

\* The local variables that stand for something are variables.
LEMMA LocalsAre ==
  ASSUME NEW w \in Contexts, NEW t \in Templates PROVE Locals(w, t) \in Seq(Variables)
<1> DEFINE s == Library[t].vars
           known == {k \in DOMAIN s : s[k].kind = "global" => Holds(w.globals, s[k].name)}
           Meant(v) == IF v.kind = "global" THEN w.globals[Place(w.globals, v.name)] ELSE v
           C == Cardinality(known)
           At(i) == CHOOSE k \in known : Cardinality({j \in known : j <= k}) = i
<1>1. s \in Seq(Variables) /\ w.globals \in Seq(Variables)
  BY RenderingConstants DEF Contexts
<1>2. IsFiniteSet(known) /\ C \in Nat /\ known \in SUBSET Nat
  <2>1. DOMAIN s = 1..Len(s) /\ Len(s) \in Nat
    BY <1>1
  <2>2. IsFiniteSet(1..Len(s))
    BY <2>1, FS_Interval
  <2>3. known \subseteq 1..Len(s)
    BY <2>1
  <2>4. known \in SUBSET Nat
    BY <2>1, <2>3
  <2> HIDE DEF known
  <2> QED BY <2>2, <2>3, <2>4, FS_Subset, FS_CardinalityType
<1>3. \A k \in known : Meant(s[k]) \in Variables
  <2> TAKE k \in known
  <2>1. s[k] \in Variables /\ (s[k].kind = "global" => Holds(w.globals, s[k].name))
    BY <1>1
  <2>2. CASE s[k].kind = "global"
    <3>1. Place(w.globals, s[k].name) \in DOMAIN w.globals
      BY <1>1, <2>1, <2>2, PlaceIs
    <3>2. w.globals[Place(w.globals, s[k].name)] \in Variables
      BY <1>1, <3>1
    <3> QED BY <2>2, <3>2
  <2> QED BY <2>1, <2>2
<1>4. \A i \in 1..C : At(i) \in known
  <2> TAKE i \in 1..C
  <2>1. \E k \in known : RankIn(known, k) = i
    <3> HIDE DEF known
    <3> QED BY <1>2, RanksAreAll
  <2>2. \E k \in known : Cardinality({j \in known : j <= k}) = i
    <3> HIDE DEF known
    <3> QED BY <2>1 DEF RankIn
  <2> HIDE DEF known
  <2> QED BY <2>2
<1>5. Locals(w, t) = [i \in 1..C |-> Meant(s[At(i)])]
  BY DEF Locals
<1>6. \A i \in 1..C : Meant(s[At(i)]) \in Variables
  <2> HIDE DEF Meant, At, known, s
  <2> QED BY <1>3, <1>4
<1> DEFINE E(i) == Meant(s[At(i)])
<1>7. [i \in 1..C |-> E(i)] \in [1..C -> Variables]
  <2>1. \A i \in 1..C : E(i) \in Variables
    BY <1>6
  <2> HIDE DEF E, C
  <2> QED BY <2>1
<1>8. Locals(w, t) \in [1..C -> Variables]
  BY <1>5, <1>7
<1> HIDE DEF C
<1> QED BY <1>2, <1>8

\* What the search takes from the graph.
LEMMA GraphIs ==
  ASSUME NEW w \in Contexts, NEW t \in Templates
  PROVE  /\ \A n \in Names : IsNode(w, t, n) =>
              /\ Variable(w, t, n) \in Variables /\ Variable(w, t, n).name = n
              /\ Variable(w, t, n).needs \subseteq Deps(w, t, n) /\ Deps(w, t, n) \subseteq Names
         /\ Library[t].uses \subseteq Deps(w, t, MatchBody) /\ Deps(w, t, MatchBody) \subseteq Names
         /\ \A v : Nested(w, v) => Inner(w, v) \in Templates
<1> DEFINE local == Locals(w, t)
<1>1. local \in Seq(Variables) /\ w.globals \in Seq(Variables) /\ w.templates \in Seq(Templates)
  BY LocalsAre DEF Contexts
<1>2. \A v \in Variables : v.name \in Names /\ v.needs \subseteq Names
  BY DEF Variables
<1>3. ASSUME NEW n \in Names, IsNode(w, t, n)
      PROVE  Variable(w, t, n) \in Variables /\ Variable(w, t, n).name = n
  <2>1. CASE Holds(local, n)
    <3>1. Place(local, n) \in DOMAIN local /\ local[Place(local, n)].name = n
      BY <1>1, <2>1, PlaceIs
    <3>2. local[Place(local, n)] \in Variables
      BY <1>1, <3>1
    <3> QED BY <2>1, <3>1, <3>2 DEF Variable
  <2>2. CASE ~Holds(local, n)
    <3>1. Holds(w.globals, n)
      BY <1>3, <2>2 DEF IsNode
    <3>2. Place(w.globals, n) \in DOMAIN w.globals /\ w.globals[Place(w.globals, n)].name = n
      BY <1>1, <3>1, PlaceIs
    <3>3. w.globals[Place(w.globals, n)] \in Variables
      BY <1>1, <3>2
    <3> QED BY <2>2, <3>2, <3>3 DEF Variable
  <2> QED BY <2>1, <2>2
<1>4. ASSUME NEW n \in Names, IsNode(w, t, n)
      PROVE  Variable(w, t, n).needs \subseteq Deps(w, t, n) /\ Deps(w, t, n) \subseteq Names
  <2>1. n # MatchBody
    BY RenderingConstants
  <2>2. Variable(w, t, n).needs \subseteq Names
    BY <1>2, <1>3, <1>4
  <2>3. CASE Holds(local, n) /\ Place(local, n) > 1
    <3>1. Place(local, n) \in DOMAIN local
      BY <1>1, <2>3, PlaceIs
    <3>2. Place(local, n) - 1 \in DOMAIN local
      <4> HIDE DEF local
      <4> QED BY <1>1, <2>3, <3>1
    <3>3. local[Place(local, n) - 1] \in Variables
      <4> HIDE DEF local
      <4> QED BY <1>1, <3>2
    <3>4. Deps(w, t, n) = Variable(w, t, n).needs \cup {local[Place(local, n) - 1].name}
      BY <2>1, <2>3 DEF Deps
    <3> QED BY <1>2, <2>2, <3>3, <3>4
  <2>4. CASE ~(Holds(local, n) /\ Place(local, n) > 1)
    <3>1. Deps(w, t, n) = Variable(w, t, n).needs
      BY <2>1, <2>4 DEF Deps
    <3> QED BY <2>2, <3>1
  <2> QED BY <2>3, <2>4
<1>5. Library[t].uses \subseteq Deps(w, t, MatchBody) /\ Deps(w, t, MatchBody) \subseteq Names
  <2>1. Library[t].uses \subseteq Names
    BY RenderingConstants
  <2>2. \A v \in Range(local) : v.name \in Names
    BY <1>1, <1>2 DEF Range
  <2> QED BY <2>1, <2>2 DEF Deps, BodyNeeds
<1>6. ASSUME NEW v, Nested(w, v) PROVE Inner(w, v) \in Templates
  <2> DEFINE ts == w.templates
             K == Named(w, v)
  <2>1. K # {} /\ K \subseteq DOMAIN ts /\ DOMAIN ts \subseteq Nat
    BY <1>1, <1>6 DEF Nested, Named
  <2>2. PICK k \in K : \A j \in K : k <= j
    <3> HIDE DEF K, ts
    <3> QED BY <2>1, Smallest
  <2>3. (CHOOSE i \in K : \A j \in K : i <= j) \in K
    <3> HIDE DEF K
    <3> QED BY <2>2
  <2> QED BY <1>1, <2>1, <2>3 DEF Inner
<1> QED BY <1>3, <1>4, <1>5, <1>6

\* A local variable comes after the one that is written before it.
LEMMA LocalDeps ==
  ASSUME NEW w \in Contexts, NEW t \in Templates, NEW k \in DOMAIN Locals(w, t), k > 1,
         Place(Locals(w, t), Locals(w, t)[k].name) = k
  PROVE  Locals(w, t)[k - 1].name \in Deps(w, t, Locals(w, t)[k].name)
<1> DEFINE local == Locals(w, t)
           n == local[k].name
<1>1. local \in Seq(Variables)
  BY LocalsAre
<1>2. local[k] \in Variables
  BY <1>1
<1>3. n \in Names /\ Holds(local, n)
  BY <1>2 DEF Variables, Holds
<1>4. n # MatchBody
  BY <1>3, RenderingConstants
<1> QED BY <1>3, <1>4 DEF Deps

-----------------------------------------------------------------------------
(***************************************************************************)
(* Rendering: the search for dependencies.                                 *)
(***************************************************************************)
Stops == [name : Nodes, left : SUBSET Names]
Calls ==
  [of : Templates, next : Nat \ {0}, scope : SUBSET Names, empty : SUBSET Names,
   seen : SUBSET Nodes, path : Seq(Stops), order : Seq(Nodes)]
OnPath(path) == {path[k].name : k \in DOMAIN path}

\* What a node on the path depends on is left to be looked at, is resolved, or is next on it.
Descending(w, t, path, order) ==
  /\ \A k \in DOMAIN path :
       /\ path[k].left \subseteq Deps(w, t, path[k].name)
       /\ \A n \in Deps(w, t, path[k].name) :
            n \in path[k].left \/ n \in Range(order) \/ (k + 1 \in DOMAIN path /\ path[k + 1].name = n)
       /\ k + 1 \in DOMAIN path => path[k + 1].name \in Deps(w, t, path[k].name)
       /\ path[k].name \notin Range(order)
  /\ \A j, k \in DOMAIN path : path[j].name = path[k].name => j = k
  /\ path # << >> => path[1].name = MatchBody

\* What is resolved depends on what was resolved before it.
Resolved(w, t, order) ==
  /\ \A j, k \in DOMAIN order : order[j] = order[k] => j = k
  /\ \A k \in DOMAIN order : \A n \in Deps(w, t, order[k]) :
       \E j \in DOMAIN order : j < k /\ order[j] = n

\* What is seen is needed and there is a variable for it.
Known(w, t, found) ==
  \A n \in found : n = MatchBody \/ (n \in Needed(w, t) /\ IsNode(w, t, n))

Searched(w, c) ==
  IF Library[c.of].uses = {}
    THEN c.path = << >> /\ c.order = <<MatchBody>> /\ c.next = 1 /\ c.scope = {} /\ c.empty = {}
    ELSE /\ Descending(w, c.of, c.path, c.order) /\ Resolved(w, c.of, c.order)
         /\ Known(w, c.of, c.seen) /\ c.seen = OnPath(c.path) \cup Range(c.order)
         /\ c.path = << >> => c.order # << >> /\ Last(c.order) = MatchBody

\* What a body needs is closed under dependencies, and the least that is.
LEMMA NeededIsLeast ==
  ASSUME NEW w \in Contexts, NEW t \in Templates
  PROVE  /\ Needed(w, t) \subseteq Names
         /\ Library[t].uses = {} => Needed(w, t) = {}
         /\ Library[t].uses # {} =>
              /\ Deps(w, t, MatchBody) \subseteq Needed(w, t)
              /\ \A n \in Needed(w, t) : IsNode(w, t, n) => Deps(w, t, n) \subseteq Needed(w, t)
              /\ \A s \in SUBSET Names :
                   /\ Deps(w, t, MatchBody) \subseteq s
                   /\ \A n \in s : IsNode(w, t, n) => Deps(w, t, n) \subseteq s
                   => Needed(w, t) \subseteq s
<1>1. Deps(w, t, MatchBody) \subseteq Names /\ \A n \in Names : IsNode(w, t, n) => Deps(w, t, n) \subseteq Names
  BY GraphIs
<1> QED BY <1>1 DEF Needed, Least

\* A rendering begins.
LEMMA SearchBegins ==
  ASSUME NEW w \in Contexts, NEW t \in Templates
  PROVE  Begun(w, t) \in Calls /\ Searched(w, Begun(w, t)) /\ Begun(w, t).of = t
<1> DEFINE c == Begun(w, t)
           s == [name |-> MatchBody, left |-> Deps(w, t, MatchBody)]
<1>1. s \in Stops /\ MatchBody \in Nodes
  BY GraphIs DEF Stops, Nodes
<1>2. c.of = t /\ c.next = 1 /\ c.scope = {} /\ c.empty = {} /\ c.seen = {MatchBody}
  BY DEF Begun
<1>3. CASE Library[t].uses = {}
  <2>1. c.path = << >> /\ c.order = <<MatchBody>>
    BY <1>3 DEF Begun
  <2>2. c \in Calls
    BY <1>1, <1>3 DEF Begun, Calls
  <2> QED BY <1>2, <1>3, <2>1, <2>2 DEF Searched
<1>4. CASE Library[t].uses # {}
  <2>1. c.path = <<s>> /\ c.order = << >>
    BY <1>4 DEF Begun
  <2>2. c \in Calls
    <3>1. <<s>> \in Seq(Stops) /\ << >> \in Seq(Nodes)
      BY <1>1
    <3>2. c = [of |-> t, next |-> 1, scope |-> {}, empty |-> {}, seen |-> {MatchBody},
               path |-> <<s>>, order |-> << >>]
      BY <1>4 DEF Begun
    <3> HIDE DEF s, c
    <3> QED BY <1>1, <3>1, <3>2 DEF Calls
  <2>3. DOMAIN <<s>> = {1} /\ <<s>>[1] = s /\ s.name = MatchBody /\ s.left = Deps(w, t, MatchBody)
        /\ Range(<< >>) = {} /\ DOMAIN << >> = {}
    BY DEF Range
  <2> HIDE DEF s
  <2>4. Descending(w, t, <<s>>, << >>)
    BY <2>3 DEF Descending
  <2>5. Resolved(w, t, << >>)
    BY <2>3 DEF Resolved
  <2>6. Known(w, t, {MatchBody})
    BY DEF Known
  <2>7. OnPath(<<s>>) = {MatchBody}
    BY <2>3 DEF OnPath
  <2>8. <<s>> # << >>
    BY <2>3
  <2> HIDE DEF c
  <2>9. Searched(w, c)
    BY <1>2, <1>4, <2>1, <2>3, <2>4, <2>5, <2>6, <2>7, <2>8 DEF Searched
  <2> QED BY <1>2, <2>2, <2>9 DEF c
<1> QED BY <1>3, <1>4

\* A dependency is taken from what is left at the end of the path.
Took(path, n) == [path EXCEPT ![Len(path)].left = @ \ {n}]

\* What the path is then.
LEMMA TookIs ==
  ASSUME NEW path \in Seq(Stops), path # << >>, NEW n
  PROVE  /\ Took(path, n) \in Seq(Stops) /\ Len(Took(path, n)) = Len(path)
         /\ DOMAIN Took(path, n) = DOMAIN path
         /\ \A k \in DOMAIN path : Took(path, n)[k].name = path[k].name
         /\ \A k \in DOMAIN path : k # Len(path) => Took(path, n)[k] = path[k]
         /\ Took(path, n)[Len(path)].left = path[Len(path)].left \ {n}
         /\ Len(path) \in DOMAIN path /\ Last(path) = path[Len(path)]
<1> DEFINE L == Len(path)
<1>1. L \in Nat /\ L > 0 /\ DOMAIN path = 1..L /\ L \in DOMAIN path
  BY EmptySeq
<1>2. path[L] \in Stops
  BY <1>1
<1> DEFINE s == [path[L] EXCEPT !.left = @ \ {n}]
<1>3. s \in Stops /\ s.name = path[L].name /\ s.left = path[L].left \ {n}
  BY <1>2 DEF Stops
<1>4. Took(path, n) = [path EXCEPT ![L] = s]
  BY DEF Took
<1> HIDE DEF s
<1>5. [path EXCEPT ![L] = s] \in Seq(Stops) /\ Len([path EXCEPT ![L] = s]) = L
      /\ DOMAIN [path EXCEPT ![L] = s] = DOMAIN path
  BY <1>1, <1>3
<1>6. \A k \in DOMAIN path : [path EXCEPT ![L] = s][k] = IF k = L THEN s ELSE path[k]
  BY <1>1
<1>7. Last(path) = path[L]
  BY DEF Last
<1> QED BY <1>1, <1>3, <1>4, <1>5, <1>6, <1>7

\* It is resolved already.
LEMMA SearchPasses ==
  ASSUME NEW w \in Contexts, NEW c \in Calls, Searched(w, c), c.path # << >>,
         NEW n \in Last(c.path).left, n \in Range(c.order),
         NEW d, d = [c EXCEPT !.path = Took(c.path, n)]
  PROVE  d \in Calls /\ Searched(w, d)
<1> DEFINE p == c.path
           q == Took(p, n)
<1>1. p \in Seq(Stops) /\ p # << >>
  BY DEF Calls
<1>2. /\ q \in Seq(Stops) /\ DOMAIN q = DOMAIN p /\ \A k \in DOMAIN p : q[k].name = p[k].name
      /\ \A k \in DOMAIN p : k # Len(p) => q[k] = p[k]
      /\ q[Len(p)].left = p[Len(p)].left \ {n} /\ Len(p) \in DOMAIN p /\ Last(p) = p[Len(p)]
  BY <1>1, TookIs
<1>3. d \in Calls /\ d.path = q /\ d.of = c.of /\ d.order = c.order /\ d.seen = c.seen
  BY <1>2 DEF Calls
<1>4. Library[c.of].uses # {} /\ Descending(w, c.of, p, c.order) /\ Resolved(w, c.of, c.order)
      /\ Known(w, c.of, c.seen) /\ c.seen = OnPath(p) \cup Range(c.order)
  BY <1>1 DEF Searched
<1>5. q # << >>
  BY <1>2
<1> HIDE DEF p, q
<1>6. \A k \in DOMAIN p : q[k].left \subseteq p[k].left /\ p[k].left \subseteq q[k].left \cup {n}
  BY <1>2
<1>7. Descending(w, c.of, q, c.order)
  <2>1. ASSUME NEW k \in DOMAIN p
        PROVE  /\ q[k].left \subseteq Deps(w, c.of, p[k].name)
               /\ \A m \in Deps(w, c.of, p[k].name) :
                    m \in q[k].left \/ m \in Range(c.order) \/ (k + 1 \in DOMAIN p /\ p[k + 1].name = m)
    BY <1>4, <1>6 DEF Descending
  <2>2. \A k \in DOMAIN q : q[k].name = p[k].name /\ k \in DOMAIN p
    BY <1>2
  <2>3. q[1].name = MatchBody
    <3>1. 1 \in DOMAIN p /\ p # << >>
      BY <1>1, <1>2 DEF p
    <3> QED BY <1>2, <1>4, <3>1 DEF Descending
  <2> QED BY <1>2, <1>4, <2>1, <2>2, <2>3 DEF Descending
<1>8. OnPath(q) = OnPath(p)
  BY <1>2 DEF OnPath
<1> QED BY <1>3, <1>4, <1>5, <1>7, <1>8 DEF Searched

\* It is new, and there is a variable for it.
LEMMA SearchDescends ==
  ASSUME NEW w \in Contexts, NEW c \in Calls, Searched(w, c), c.path # << >>,
         NEW n \in Last(c.path).left, n \in Names, n \notin c.seen, IsNode(w, c.of, n),
         NEW d, d = [c EXCEPT !.path = Append(Took(c.path, n), [name |-> n, left |-> Deps(w, c.of, n)]),
                              !.seen = @ \cup {n}]
  PROVE  d \in Calls /\ Searched(w, d)
<1> DEFINE p == c.path
           q == Took(p, n)
           t == c.of
           s == [name |-> n, left |-> Deps(w, t, n)]
           r == Append(q, s)
           L == Len(p)
<1>1. p \in Seq(Stops) /\ p # << >> /\ t \in Templates /\ L \in Nat
  BY DEF Calls
<1>2. /\ q \in Seq(Stops) /\ Len(q) = L /\ DOMAIN q = DOMAIN p
      /\ \A k \in DOMAIN p : q[k].name = p[k].name
      /\ \A k \in DOMAIN p : k # L => q[k] = p[k]
      /\ q[L].left = p[L].left \ {n} /\ L \in DOMAIN p /\ Last(p) = p[L]
  BY <1>1, TookIs
<1>3. Deps(w, t, n) \subseteq Names /\ n \in Nodes /\ n # MatchBody
  BY <1>1, GraphIs, RenderingConstants DEF Nodes
<1>4. s \in Stops /\ s.name = n /\ s.left = Deps(w, t, n)
  BY <1>3 DEF Stops
<1>5. /\ r \in Seq(Stops) /\ Len(r) = L + 1 /\ \A k \in 1..L : r[k] = q[k]
      /\ r[L + 1] = s /\ r # << >>
  <2> HIDE DEF q, s, L, p
  <2> QED BY <1>2, <1>4, AppendIs
<1>6. d \in Calls /\ d.path = r /\ d.of = t /\ d.order = c.order /\ d.seen = c.seen \cup {n}
  <2> DEFINE e == c.seen \cup {n}
  <2>1. d = [c EXCEPT !.path = r, !.seen = e]
    OBVIOUS
  <2>2. e \in SUBSET Nodes /\ r \in Seq(Stops)
    BY <1>3, <1>5 DEF Calls
  <2> HIDE DEF r, p, q, s, e
  <2>3. d \in Calls /\ d.path = r /\ d.of = c.of /\ d.order = c.order /\ d.seen = e
    BY <2>1, <2>2 DEF Calls
  <2> QED BY <2>3 DEF e
<1>7. Library[t].uses # {} /\ Descending(w, t, p, c.order) /\ Resolved(w, t, c.order)
      /\ Known(w, t, c.seen) /\ c.seen = OnPath(p) \cup Range(c.order)
  BY <1>1 DEF Searched
<1> HIDE DEF q, s, r, p, t
<1>8. DOMAIN p = 1..L /\ DOMAIN r = 1..L + 1 /\ L > 0
  <2>1. DOMAIN p = 1..L
    BY <1>1 DEF L
  <2> QED BY <1>1, <1>2, <1>5, <2>1
<1>9. (\A k \in 1..L : r[k].name = p[k].name /\ (k # L => r[k] = p[k])) /\ r[L + 1].name = n
      /\ r[L].left = p[L].left \ {n} /\ r[L + 1].left = Deps(w, t, n)
  BY <1>2, <1>4, <1>5, <1>8
<1>10. n \in p[L].left
  BY <1>2 DEF p
<1> HIDE DEF L
<1>11. \A k \in 1..L : k \in DOMAIN r /\ k \in DOMAIN p /\ k + 1 \in DOMAIN r
       /\ (k + 1 \in DOMAIN p => k # L) /\ (k # L => k + 1 \in DOMAIN p /\ k + 1 \in 1..L)
  BY <1>1, <1>8
<1>12. ASSUME NEW k \in 1..L
       PROVE  /\ r[k].left \subseteq Deps(w, t, r[k].name)
              /\ \A m \in Deps(w, t, r[k].name) :
                   m \in r[k].left \/ m \in Range(c.order) \/ (k + 1 \in DOMAIN r /\ r[k + 1].name = m)
              /\ r[k + 1].name \in Deps(w, t, r[k].name)
              /\ r[k].name \notin Range(c.order)
  <2>1. /\ p[k].left \subseteq Deps(w, t, p[k].name)
        /\ \A m \in Deps(w, t, p[k].name) :
             m \in p[k].left \/ m \in Range(c.order) \/ (k + 1 \in DOMAIN p /\ p[k + 1].name = m)
        /\ k + 1 \in DOMAIN p => p[k + 1].name \in Deps(w, t, p[k].name)
        /\ p[k].name \notin Range(c.order)
    BY <1>7, <1>11 DEF Descending
  <2>2. CASE k # L
    <3>1. r[k] = p[k] /\ k + 1 \in DOMAIN p /\ k + 1 \in DOMAIN r /\ r[k + 1].name = p[k + 1].name
      BY <1>9, <1>11, <2>2
    <3> QED BY <2>1, <3>1
  <2>3. CASE k = L
    <3>1. k + 1 \in DOMAIN r /\ k + 1 \notin DOMAIN p
      BY <1>11, <2>3
    <3>2. r[k].name = p[k].name /\ r[k].left = p[k].left \ {n} /\ r[k + 1].name = n /\ n \in p[k].left
      BY <1>9, <1>10, <2>3
    <3> QED BY <2>1, <3>1, <3>2
  <2> QED BY <2>2, <2>3
<1>13. n \notin OnPath(p) /\ n \notin Range(c.order)
  BY <1>7
<1>14. \A k \in DOMAIN r : k \in 1..L \/ (k = L + 1 /\ k + 1 \notin DOMAIN r)
  BY <1>1, <1>8
<1>15. Descending(w, t, r, c.order)
  <2>1. \A k \in DOMAIN r :
          /\ r[k].left \subseteq Deps(w, t, r[k].name)
          /\ \A m \in Deps(w, t, r[k].name) :
               m \in r[k].left \/ m \in Range(c.order) \/ (k + 1 \in DOMAIN r /\ r[k + 1].name = m)
          /\ k + 1 \in DOMAIN r => r[k + 1].name \in Deps(w, t, r[k].name)
          /\ r[k].name \notin Range(c.order)
    <3> TAKE k \in DOMAIN r
    <3>1. CASE k \in 1..L
      BY <1>12, <3>1
    <3>2. CASE k = L + 1 /\ k + 1 \notin DOMAIN r
      BY <1>9, <1>13, <3>2
    <3> QED BY <1>14, <3>1, <3>2
  <2>2. \A j, k \in DOMAIN r : r[j].name = r[k].name => j = k
    <3>1. \A k \in 1..L : r[k].name = p[k].name /\ p[k].name # n
      BY <1>9, <1>11, <1>13 DEF OnPath
    <3>2. \A j, k \in 1..L : p[j].name = p[k].name => j = k
      BY <1>7, <1>11 DEF Descending
    <3> QED BY <1>9, <1>14, <3>1, <3>2
  <2>3. r[1].name = MatchBody
    <3>1. 1 \in 1..L /\ p # << >>
      BY <1>1, <1>8
    <3> QED BY <1>7, <1>9, <3>1 DEF Descending
  <2> QED BY <2>1, <2>2, <2>3 DEF Descending
<1>16. OnPath(r) = OnPath(p) \cup {n}
  <2>1. \A k \in DOMAIN r : r[k].name \in OnPath(p) \cup {n}
    BY <1>9, <1>11, <1>14 DEF OnPath
  <2>2. \A k \in DOMAIN p : k \in DOMAIN r /\ r[k].name = p[k].name
    BY <1>8, <1>9, <1>11
  <2>3. L + 1 \in DOMAIN r
    BY <1>1, <1>8
  <2> QED BY <1>9, <2>1, <2>2, <2>3 DEF OnPath
<1>17. Known(w, t, c.seen \cup {n})
  <2>1. p[L].name \in c.seen /\ n \in Deps(w, t, p[L].name) /\ n \in Names
    BY <1>2, <1>7, <1>10 DEF OnPath, Descending
  <2>2. n \in Needed(w, t)
    BY <1>1, <1>7, <2>1, NeededIsLeast DEF Known
  <2>3. IsNode(w, t, n)
    BY DEF t
  <2> QED BY <1>7, <2>2, <2>3 DEF Known
<1> QED BY <1>5, <1>6, <1>7, <1>15, <1>16, <1>17 DEF Searched

\* All that it depends on is resolved.
LEMMA SearchResolves ==
  ASSUME NEW w \in Contexts, NEW c \in Calls, Searched(w, c), c.path # << >>, Last(c.path).left = {},
         NEW d, d = [c EXCEPT !.path = Front(@), !.order = Append(@, Last(c.path).name)]
  PROVE  d \in Calls /\ Searched(w, d)
<1> DEFINE p == c.path
           t == c.of
           r == Front(p)
           o == c.order
           n == p[Len(p)].name
           u == Append(o, n)
           L == Len(p)
           M == Len(o)
<1>1. p \in Seq(Stops) /\ p # << >> /\ t \in Templates /\ L \in Nat /\ o \in Seq(Nodes) /\ M \in Nat
  BY DEF Calls
<1>2. /\ r \in Seq(Stops) /\ Len(r) = L - 1 /\ (\A k \in 1..Len(r) : r[k] = p[k])
      /\ Last(p) = p[L] /\ L > 0
  BY <1>1, FrontIs DEF Last
<1>3. DOMAIN p = 1..L /\ L \in DOMAIN p /\ n \in Nodes
  <2>1. DOMAIN p = 1..L /\ L \in DOMAIN p
    BY <1>1, <1>2
  <2>2. p[L] \in Stops
    BY <1>1, <2>1
  <2> QED BY <2>1, <2>2 DEF Stops
<1>4. /\ u \in Seq(Nodes) /\ Len(u) = M + 1 /\ (\A k \in 1..M : u[k] = o[k])
      /\ u[M + 1] = n /\ Last(u) = n /\ u # << >> /\ Range(u) = Range(o) \cup {n}
  <2> HIDE DEF n, o, M
  <2>1. M = Len(o)
    BY DEF M
  <2> QED BY <1>1, <1>3, <2>1, AppendIs, RangeOfAppend
<1>5. d \in Calls /\ d.path = r /\ d.of = t /\ d.order = u /\ d.seen = c.seen
  <2>1. d = [c EXCEPT !.path = r, !.order = u]
    BY <1>2
  <2> HIDE DEF r, p, u, o, n
  <2> QED BY <1>2, <1>4, <2>1 DEF Calls
<1>6. Library[t].uses # {} /\ Descending(w, t, p, o) /\ Resolved(w, t, o)
      /\ Known(w, t, c.seen) /\ c.seen = OnPath(p) \cup Range(o)
  BY <1>1 DEF Searched
<1>7. p[L].left = {}
  BY <1>2
<1> HIDE DEF r, o, u, p, t
<1>8. DOMAIN r = 1..L - 1 /\ DOMAIN o = 1..M /\ DOMAIN u = 1..M + 1
  BY <1>1, <1>2, <1>4
<1>9. p[L].name = n
  OBVIOUS
<1> HIDE DEF L, M, n
<1>10. \A k \in DOMAIN r : k \in DOMAIN p /\ r[k] = p[k] /\ k # L /\ k + 1 \in DOMAIN p
       /\ (k + 1 \in DOMAIN r \/ k + 1 = L)
  BY <1>1, <1>2, <1>3, <1>8
<1>11. n \notin Range(o) /\ \A m \in Deps(w, t, n) : m \in Range(o)
  <2>1. L + 1 \notin DOMAIN p
    BY <1>1, <1>3
  <2> QED BY <1>3, <1>6, <1>7, <1>9, <2>1 DEF Descending
<1>12. Descending(w, t, r, u)
  <2>1. \A k \in DOMAIN r :
          /\ r[k].left \subseteq Deps(w, t, r[k].name)
          /\ \A m \in Deps(w, t, r[k].name) :
               m \in r[k].left \/ m \in Range(u) \/ (k + 1 \in DOMAIN r /\ r[k + 1].name = m)
          /\ k + 1 \in DOMAIN r => r[k + 1].name \in Deps(w, t, r[k].name)
          /\ r[k].name \notin Range(u)
    <3> TAKE k \in DOMAIN r
    <3>1. /\ p[k].left \subseteq Deps(w, t, p[k].name)
          /\ \A m \in Deps(w, t, p[k].name) :
               m \in p[k].left \/ m \in Range(o) \/ (k + 1 \in DOMAIN p /\ p[k + 1].name = m)
          /\ k + 1 \in DOMAIN p => p[k + 1].name \in Deps(w, t, p[k].name)
          /\ p[k].name \notin Range(o)
      BY <1>6, <1>10 DEF Descending
    <3>2. p[k].name # n
      BY <1>3, <1>6, <1>9, <1>10 DEF Descending
    <3>3. k + 1 \in DOMAIN r => r[k + 1] = p[k + 1]
      BY <1>10
    <3>4. k + 1 \notin DOMAIN r => p[k + 1].name = n
      BY <1>9, <1>10
    <3> QED BY <1>4, <1>10, <3>1, <3>2, <3>3, <3>4
  <2>2. \A j, k \in DOMAIN r : r[j].name = r[k].name => j = k
    BY <1>6, <1>10 DEF Descending
  <2>3. r # << >> => r[1].name = MatchBody
    <3> HAVE r # << >>
    <3>1. Len(r) # 0
      BY <1>2, EmptySeq
    <3>2. 1 \in DOMAIN r
      BY <1>1, <1>2, <1>8, <3>1
    <3> QED BY <1>1, <1>6, <1>10, <3>2 DEF Descending
  <2> QED BY <2>1, <2>2, <2>3 DEF Descending
<1>13. Resolved(w, t, u)
  <2>1. \A k \in DOMAIN u : (k \in DOMAIN o /\ u[k] = o[k]) \/ (k = M + 1 /\ u[k] = n)
    BY <1>1, <1>4, <1>8
  <2>2. \A k \in DOMAIN o : k \in DOMAIN u /\ u[k] = o[k] /\ k < M + 1
    BY <1>1, <1>4, <1>8
  <2>3. \A k \in DOMAIN o : o[k] # n
    BY <1>11 DEF Range
  <2>4. \A j, k \in DOMAIN u : u[j] = u[k] => j = k
    BY <1>6, <2>1, <2>3 DEF Resolved
  <2>5. ASSUME NEW k \in DOMAIN u, NEW m \in Deps(w, t, u[k])
        PROVE  \E j \in DOMAIN u : j < k /\ u[j] = m
    <3>1. CASE k \in DOMAIN o /\ u[k] = o[k]
      <4>1. PICK j \in DOMAIN o : j < k /\ o[j] = m
        BY <1>6, <3>1 DEF Resolved
      <4> QED BY <2>2, <4>1
    <3>2. CASE k = M + 1 /\ u[k] = n
      <4>1. PICK j \in DOMAIN o : o[j] = m
        BY <1>11, <3>2 DEF Range
      <4> QED BY <2>2, <3>2, <4>1
    <3> QED BY <2>1, <3>1, <3>2
  <2> QED BY <2>4, <2>5 DEF Resolved
<1>14. OnPath(p) = OnPath(r) \cup {n}
  <2>1. \A k \in DOMAIN p : k = L \/ k \in DOMAIN r
    BY <1>1, <1>3, <1>8
  <2> QED BY <1>3, <1>9, <1>10, <2>1 DEF OnPath
<1>15. r = << >> => n = MatchBody
  <2> HAVE r = << >>
  <2>1. Len(r) = 0
    OBVIOUS
  <2>2. L = 1
    BY <1>1, <1>2, <2>1
  <2> QED BY <1>1, <1>6, <1>9, <2>2 DEF Descending
<1> QED BY <1>4, <1>5, <1>6, <1>12, <1>13, <1>14, <1>15 DEF Searched

\* The search is over: all that is needed is in the order, there is a variable for each, and
\* the body comes last.
LEMMA SearchEnds ==
  ASSUME NEW w \in Contexts, NEW c \in Calls, Searched(w, c), c.path = << >>,
         Library[c.of].uses # {}
  PROVE  /\ Range(c.order) = Needed(w, c.of) \cup {MatchBody}
         /\ \A n \in Needed(w, c.of) : IsNode(w, c.of, n)
         /\ \A k \in DOMAIN c.order : c.order[k] = MatchBody <=> k = Len(c.order)
         /\ Len(c.order) \in DOMAIN c.order
<1> DEFINE o == c.order
           t == c.of
           L == Len(o)
           s == Range(o) \ {MatchBody}
<1>1. o \in Seq(Nodes) /\ t \in Templates /\ L \in Nat
  BY DEF Calls
<1>2. Resolved(w, t, o) /\ Known(w, t, c.seen) /\ c.seen = OnPath(c.path) \cup Range(o)
      /\ o # << >> /\ Last(o) = MatchBody
  BY DEF Searched
<1>3. c.seen = Range(o)
  <2>1. OnPath(<< >>) = {}
    BY DEF OnPath
  <2> QED BY <1>2, <2>1
<1> HIDE DEF o, t
<1>4. DOMAIN o = 1..L /\ L \in DOMAIN o /\ o[L] = MatchBody
  <2>1. L > 0 /\ DOMAIN o = 1..L
    BY <1>1, <1>2, EmptySeq
  <2> QED BY <1>1, <1>2, <2>1 DEF Last
<1>5. \A k \in DOMAIN o : o[k] = MatchBody <=> k = L
  BY <1>2, <1>4 DEF Resolved
<1>6. s \subseteq Names
  BY <1>1 DEF Range, Nodes
<1>7. \A n \in s : n \in Needed(w, t) /\ IsNode(w, t, n)
  BY <1>2, <1>3 DEF Known
<1>8. Deps(w, t, MatchBody) \subseteq Names /\ MatchBody \notin Names
      /\ \A n \in Names : IsNode(w, t, n) => Deps(w, t, n) \subseteq Names
  BY <1>1, GraphIs, RenderingConstants
<1>9. \A n \in Range(o) : Deps(w, t, n) \subseteq Range(o)
  <2> SUFFICES ASSUME NEW k \in DOMAIN o PROVE Deps(w, t, o[k]) \subseteq Range(o)
    BY DEF Range
  <2> QED BY <1>2 DEF Resolved, Range
<1>10. MatchBody \in Range(o)
  BY <1>4 DEF Range
<1>11. Deps(w, t, MatchBody) \subseteq s /\ \A n \in s : IsNode(w, t, n) => Deps(w, t, n) \subseteq s
  BY <1>6, <1>8, <1>9, <1>10
<1> HIDE DEF s
<1>12. Needed(w, t) \subseteq s
  <2>1. Library[t].uses # {}
    BY DEF t
  <2> QED BY <1>1, <1>6, <1>11, <2>1, NeededIsLeast
<1>13. Needed(w, t) = s
  BY <1>7, <1>12
<1>14. Range(o) = s \cup {MatchBody}
  BY <1>10 DEF s
<1> QED BY <1>4, <1>5, <1>7, <1>13, <1>14 DEF o, t

\* There is an order then; but not if the search comes to a circle, or to a name without a variable.
LEMMA ThereIsAnOrder ==
  ASSUME NEW w \in Contexts, NEW c \in Calls, Searched(w, c), c.path = << >>
  PROVE  Orderable(w, c.of)
<1> DEFINE o == c.order
           t == c.of
<1>1. o \in Seq(Nodes) /\ t \in Templates
  BY DEF Calls
<1>2. CASE Library[t].uses = {}
  <2>1. Needed(w, t) = {}
    BY <1>1, <1>2, NeededIsLeast
  <2>2. (SUBSET Needed(w, t)) \ {{}} = {}
    BY <2>1
  <2> QED BY <2>1, <2>2 DEF Orderable
<1>3. CASE Library[t].uses # {}
  <2>1. /\ Range(o) = Needed(w, t) \cup {MatchBody} /\ \A n \in Needed(w, t) : IsNode(w, t, n)
    BY <1>3, SearchEnds
  <2>2. Resolved(w, t, o)
    BY <1>3 DEF Searched
  <2>3. ASSUME NEW s \in (SUBSET Needed(w, t)) \ {{}} PROVE \E n \in s : Deps(w, t, n) \cap s = {}
    <3> DEFINE T == {k \in DOMAIN o : o[k] \in s}
    <3>1. T # {} /\ T \subseteq Nat
      <4>1. PICK n \in s : n \in Range(o)
        BY <2>1, <2>3
      <4>2. DOMAIN o \subseteq Nat
        BY <1>1
      <4> QED BY <4>1, <4>2 DEF Range
    <3>2. PICK k \in T : \A j \in T : k <= j
      <4> HIDE DEF T
      <4> QED BY <3>1, Smallest
    <3>3. \A j \in T : ~(j < k)
      BY <3>1, <3>2
    <3>4. ASSUME NEW m \in Deps(w, t, o[k]), m \in s PROVE FALSE
      <4>1. PICK j \in DOMAIN o : j < k /\ o[j] = m
        BY <2>2, <3>4 DEF Resolved
      <4> QED BY <3>3, <3>4, <4>1
    <3> QED BY <3>4
  <2> QED BY <2>1, <2>3 DEF Orderable
<1> QED BY <1>2, <1>3

\* What is on the path already closes a circle, of which everything needs something.
LEMMA CircleHasNoOrder ==
  ASSUME NEW w \in Contexts, NEW c \in Calls, Searched(w, c), c.path # << >>,
         NEW n \in Last(c.path).left, n \in c.seen, n \notin Range(c.order)
  PROVE  ~Orderable(w, c.of)
<1> DEFINE p == c.path
           t == c.of
           L == Len(p)
<1>1. p \in Seq(Stops) /\ p # << >> /\ t \in Templates /\ L \in Nat
  BY DEF Calls
<1>2. DOMAIN p = 1..L /\ L > 0 /\ L \in DOMAIN p /\ Last(p) = p[L] /\ p[L] \in Stops
  <2>1. DOMAIN p = 1..L /\ L > 0
    BY <1>1, EmptySeq
  <2>2. L \in DOMAIN p
    BY <1>1, <2>1
  <2> QED BY <1>1, <2>1, <2>2 DEF Last
<1>3. Descending(w, t, p, c.order) /\ Known(w, t, c.seen) /\ c.seen = OnPath(p) \cup Range(c.order)
  BY <1>1 DEF Searched
<1>4. n \in p[L].left /\ n # MatchBody
  <2>1. p[L].left \subseteq Names
    BY <1>2 DEF Stops
  <2> QED BY <1>2, <2>1, RenderingConstants
<1> HIDE DEF p, t, L
<1>5. PICK i \in DOMAIN p : p[i].name = n
  BY <1>3 DEF OnPath
<1> DEFINE s == {p[k].name : k \in i..L}
<1>6. \A k \in i..L : k \in DOMAIN p /\ (k = L \/ k + 1 \in i..L)
  BY <1>1, <1>2, <1>5
<1>7. n \in s
  BY <1>1, <1>2, <1>5
<1>8. s \subseteq Needed(w, t)
  <2> SUFFICES ASSUME NEW k \in i..L PROVE p[k].name \in Needed(w, t)
    OBVIOUS
  <2>1. p[k].name \in c.seen /\ k \in DOMAIN p
    BY <1>3, <1>6 DEF OnPath
  <2>2. p[k].name # MatchBody
    <3> SUFFICES ASSUME p[k].name = MatchBody PROVE FALSE
      OBVIOUS
    <3>1. 1 \in DOMAIN p /\ p[1].name = MatchBody
      BY <1>1, <1>2, <1>3 DEF Descending
    <3>2. k = 1
      BY <1>3, <2>1, <3>1 DEF Descending
    <3>3. i = 1
      BY <1>1, <1>2, <1>5, <3>2
    <3> QED BY <1>4, <1>5, <3>1, <3>3
  <2> QED BY <1>3, <2>1, <2>2 DEF Known
<1>9. \A m \in s : Deps(w, t, m) \cap s # {}
  <2> SUFFICES ASSUME NEW k \in i..L PROVE Deps(w, t, p[k].name) \cap s # {}
    OBVIOUS
  <2>1. CASE k = L
    <3>1. n \in Deps(w, t, p[k].name)
      BY <1>2, <1>3, <1>4, <2>1 DEF Descending
    <3> HIDE DEF s
    <3> QED BY <1>7, <3>1
  <2>2. CASE k # L
    <3>1. k + 1 \in i..L /\ k + 1 \in DOMAIN p /\ k \in DOMAIN p
      BY <1>6, <2>2
    <3>2. p[k + 1].name \in Deps(w, t, p[k].name) /\ p[k + 1].name \in s
      BY <1>3, <3>1 DEF Descending
    <3> QED BY <3>2
  <2> QED BY <2>1, <2>2
<1> HIDE DEF s
<1>10. s \in (SUBSET Needed(w, t)) \ {{}}
  BY <1>7, <1>8
<1> QED BY <1>9, <1>10 DEF Orderable, t

\* What there is no variable for leaves the body without an order.
LEMMA MissingHasNoOrder ==
  ASSUME NEW w \in Contexts, NEW c \in Calls, Searched(w, c), c.path # << >>,
         NEW n \in Last(c.path).left, ~IsNode(w, c.of, n)
  PROVE  ~Orderable(w, c.of)
<1> DEFINE p == c.path
           t == c.of
           L == Len(p)
<1>1. p \in Seq(Stops) /\ p # << >> /\ t \in Templates /\ L \in Nat
  BY DEF Calls
<1>2. L \in DOMAIN p /\ Last(p) = p[L] /\ p[L] \in Stops
  <2>1. DOMAIN p = 1..L /\ L > 0
    BY <1>1, EmptySeq
  <2>2. L \in DOMAIN p
    BY <1>1, <2>1
  <2> QED BY <1>1, <2>1, <2>2 DEF Last
<1>3. Descending(w, t, p, c.order) /\ Known(w, t, c.seen) /\ c.seen = OnPath(p) \cup Range(c.order)
      /\ Library[t].uses # {}
  BY <1>1 DEF Searched
<1>4. n \in Deps(w, t, p[L].name) /\ p[L].name \in c.seen
  BY <1>2, <1>3 DEF Descending, OnPath
<1> HIDE DEF p, t, L
<1>5. n \in Needed(w, t)
  BY <1>1, <1>3, <1>4, NeededIsLeast DEF Known
<1> QED BY <1>5 DEF Orderable, t

\* Local variables come in the order they are written.  The last one that is resolved, at Q,
\* comes after the one before it, and so on down; one that had the name of a later one would
\* have to come after itself.
LEMMA LocalsInOrder ==
  ASSUME NEW w \in Contexts, NEW t \in Templates, NEW o \in Seq(Nodes), Resolved(w, t, o),
         NEW j \in DOMAIN Locals(w, t), NEW k \in DOMAIN Locals(w, t), j < k,
         Locals(w, t)[k].name \in Range(o)
  PROVE  \E a, b \in DOMAIN o : a < b /\ o[a] = Locals(w, t)[j].name /\ o[b] = Locals(w, t)[k].name
<1> DEFINE local == Locals(w, t)
           Before(m, n) == \E a, b \in DOMAIN o : a < b /\ o[a] = m /\ o[b] = n
           In(i) == local[i].name \in Range(o)
           C == Len(local)
           T == {x \in Nat : \E i \in DOMAIN local : In(i) /\ x = C - i}
<1>1. local \in Seq(Variables) /\ C \in Nat /\ DOMAIN local = 1..C /\ DOMAIN o \subseteq Nat
  BY LocalsAre
<1>2. PICK Q \in 1..C : In(Q) /\ \A i \in 1..C : In(i) => i <= Q
  <2>1. T # {} /\ T \subseteq Nat
    <3>1. C - k \in Nat /\ In(k)
      BY <1>1
    <3> QED BY <3>1
  <2>2. PICK x \in T : \A y \in T : x <= y
    <3> HIDE DEF T
    <3> QED BY <2>1, Smallest
  <2>3. PICK i \in 1..C : In(i) /\ x = C - i
    BY <1>1
  <2>4. \A h \in 1..C : In(h) => h <= i
    <3> TAKE h \in 1..C
    <3> HAVE In(h)
    <3>1. h \in DOMAIN local /\ C - h \in Nat
      BY <1>1
    <3>2. C - h \in T
      BY <3>1
    <3>3. x <= C - h
      BY <2>2, <3>2
    <3> HIDE DEF T, C
    <3> QED BY <1>1, <2>3, <3>3
  <2> QED BY <2>3, <2>4
<1>3. \A n : ~Before(n, n)
  <2> SUFFICES ASSUME NEW n, NEW a \in DOMAIN o, NEW b \in DOMAIN o, a < b, o[a] = n, o[b] = n
               PROVE  FALSE
    OBVIOUS
  <2>1. a = b
    BY DEF Resolved
  <2> QED BY <1>1, <2>1
<1>4. ASSUME NEW l, NEW m, NEW n, Before(l, m), Before(m, n) PROVE Before(l, n)
  <2>1. PICK a, b \in DOMAIN o : a < b /\ o[a] = l /\ o[b] = m
    BY <1>4
  <2>2. PICK c, d \in DOMAIN o : c < d /\ o[c] = m /\ o[d] = n
    BY <1>4
  <2>3. b = c
    BY <2>1, <2>2 DEF Resolved
  <2>4. a < d
    BY <1>1, <2>1, <2>2, <2>3
  <2> QED BY <2>1, <2>2, <2>4
<1> DEFINE H(i) == In(i) /\ \A a, b \in i..Q : a < b => Before(local[a].name, local[b].name)
           S == {i \in 1..Q : H(i)}
<1>5. Q \in S
  <2>1. \A a, b \in Q..Q : ~(a < b)
    BY <1>1
  <2> HIDE DEF In, Before, C
  <2> QED BY <1>1, <1>2, <2>1
<1>6. PICK i \in S : \A h \in S : i <= h
  <2>1. S \subseteq Nat /\ S # {}
    BY <1>5
  <2> HIDE DEF S
  <2> QED BY <2>1, Smallest
<1>7. i = 1
  <2> SUFFICES ASSUME i # 1 PROVE FALSE
    OBVIOUS
  <2>1. i \in 1..Q /\ Q \in 1..C /\ H(i) /\ i > 1
    BY <1>2, <1>6
  <2> DEFINE n == local[i].name
             m == local[i - 1].name
  <2>2. i \in DOMAIN local /\ i - 1 \in DOMAIN local /\ i - 1 \in 1..Q
    <3> HIDE DEF C, H, local
    <3> QED BY <1>1, <2>1
  <2>3. Place(local, n) = i
    <3>1. Holds(local, n)
      BY <2>2 DEF Holds
    <3>2. Place(local, n) \in DOMAIN local /\ local[Place(local, n)].name = n /\ i <= Place(local, n)
      BY <1>1, <2>2, <3>1, PlaceIs
    <3> DEFINE p == Place(local, n)
    <3>3. In(p)
      BY <2>1, <3>2
    <3>4. p <= Q /\ p \in 1..C
      BY <1>1, <1>2, <3>2, <3>3
    <3>5. i \in i..Q /\ p \in i..Q
      <4> HIDE DEF p, C, H
      <4> QED BY <1>1, <2>1, <3>2, <3>4 DEF p
    <3>6. i < p => Before(n, n)
      BY <2>1, <3>2, <3>5
    <3>7. ~(i < p)
      BY <1>3, <3>6
    <3> HIDE DEF p, C, H, Before
    <3> QED BY <1>1, <2>1, <3>2, <3>4, <3>7 DEF p
  <2>4. m \in Deps(w, t, n)
    <3>1. i > 1 /\ i \in DOMAIN Locals(w, t) /\ Place(Locals(w, t), Locals(w, t)[i].name) = i
      BY <2>1, <2>2, <2>3
    <3> QED BY <3>1, LocalDeps
  <2>5. Before(m, n) /\ In(i - 1)
    <3>1. PICK b \in DOMAIN o : o[b] = n
      BY <2>1 DEF Range
    <3>2. PICK a \in DOMAIN o : a < b /\ o[a] = m
      BY <2>4, <3>1 DEF Resolved
    <3> QED BY <3>1, <3>2 DEF Range
  <2>6. ASSUME NEW a \in i - 1..Q, NEW b \in i - 1..Q, a < b
        PROVE  Before(local[a].name, local[b].name)
    <3>1. b \in i..Q /\ (a = i - 1 \/ a \in i..Q) /\ (b = i \/ i < b) /\ i \in i..Q
      <4> HIDE DEF C, H
      <4> QED BY <1>1, <2>1, <2>6
    <3>2. CASE a \in i..Q
      BY <2>1, <2>6, <3>1, <3>2
    <3>3. CASE a = i - 1
      <4>1. CASE b = i
        BY <2>5, <3>3, <4>1
      <4>2. CASE i < b
        <5>1. Before(n, local[b].name)
          BY <2>1, <3>1, <4>2
        <5>2. Before(m, local[b].name)
          <6> HIDE DEF Before
          <6> QED BY <1>4, <2>5, <5>1
        <5> QED BY <3>3, <5>2
      <4> QED BY <3>1, <4>1, <4>2
    <3> QED BY <3>1, <3>2, <3>3
  <2>7. i - 1 \in S
    <3> HIDE DEF Before, In
    <3> QED BY <2>2, <2>5, <2>6
  <2> HIDE DEF S, H
  <2> QED BY <1>6, <2>1, <2>7
<1>8. k <= Q /\ k \in 1..C /\ j \in 1..C
  BY <1>1, <1>2
<1>9. j \in 1..Q /\ k \in 1..Q
  <2> HIDE DEF C
  <2> QED BY <1>1, <1>2, <1>8
<1>10. H(1)
  BY <1>6, <1>7
<1>11. Before(local[j].name, local[k].name)
  BY <1>9, <1>10
<1> QED BY <1>11

-----------------------------------------------------------------------------
(***************************************************************************)
(* Rendering: the reference.                                               *)
(***************************************************************************)
\* A pair of a match and a name that it needs.
LEMMA FoundIs ==
  ASSUME NEW w \in Contexts, NEW t \in Templates, NEW n
  PROVE  /\ <<t, n>> \in Found(w) <=> n \in Needed(w, t) /\ IsNode(w, t, n)
         /\ <<t, n>> \in Given(w) <=>
              /\ n \in Needed(w, t) /\ IsNode(w, t, n)
              /\ Variable(w, t, n).kind \notin {"unknown", "global"}
<1> QED BY DEF Found, Given, Of

\* What is found are matches with names that they need and that there is a variable for.
LEMMA FoundAre ==
  ASSUME NEW w \in Contexts, NEW p \in Found(w)
  PROVE  /\ p = <<p[1], p[2]>> /\ p[1] \in Templates /\ p[2] \in Names
         /\ p[2] \in Needed(w, p[1]) /\ IsNode(w, p[1], p[2])
<1>1. PICK t \in Templates : \E n \in Needed(w, t) : IsNode(w, t, n) /\ p = <<t, n>>
  BY DEF Found
<1>2. PICK n \in Needed(w, t) : IsNode(w, t, n) /\ p = <<t, n>>
  BY <1>1
<1> QED BY <1>1, <1>2, NeededIsLeast

\* A match that stands for a variable of a match is a part of it.
LEMMA PartsAre ==
  ASSUME NEW w \in Contexts
  PROVE  /\ Parts(w) \subseteq Templates \X Templates
         /\ \A t, u \in Templates : <<t, u>> \in Parts(w) <=>
              \E n \in Needed(w, t) : /\ IsNode(w, t, n) /\ Nested(w, Variable(w, t, n))
                                      /\ u = Inner(w, Variable(w, t, n))
<1>1. Parts(w) \subseteq Templates \X Templates
  <2> SUFFICES ASSUME NEW p \in Found(w), Nested(w, Of(w, p))
               PROVE  <<p[1], Inner(w, Of(w, p))>> \in Templates \X Templates
    BY DEF Parts
  <2>1. p[1] \in Templates
    BY FoundAre
  <2>2. Inner(w, Of(w, p)) \in Templates
    BY <2>1, GraphIs
  <2> QED BY <2>1, <2>2
<1>2. ASSUME NEW t \in Templates, NEW u \in Templates, <<t, u>> \in Parts(w)
      PROVE  \E n \in Needed(w, t) : /\ IsNode(w, t, n) /\ Nested(w, Variable(w, t, n))
                                     /\ u = Inner(w, Variable(w, t, n))
  <2>1. PICK p \in Found(w) : Nested(w, Of(w, p)) /\ <<t, u>> = <<p[1], Inner(w, Of(w, p))>>
    BY <1>2 DEF Parts
  <2>2. t = p[1] /\ u = Inner(w, Of(w, p)) /\ p[2] \in Needed(w, p[1]) /\ IsNode(w, p[1], p[2])
    BY <2>1, FoundAre
  <2> QED BY <2>1, <2>2 DEF Of
<1>3. ASSUME NEW t \in Templates, NEW u \in Templates, NEW n \in Needed(w, t), IsNode(w, t, n),
             Nested(w, Variable(w, t, n)), u = Inner(w, Variable(w, t, n))
      PROVE  <<t, u>> \in Parts(w)
  <2>1. <<t, n>> \in Found(w)
    BY <1>3, FoundIs
  <2>2. Of(w, <<t, n>>) = Variable(w, t, n) /\ <<t, n>>[1] = t
    BY DEF Of
  <2> QED BY <1>3, <2>1, <2>2 DEF Parts
<1> QED BY <1>1, <1>2, <1>3

\* What is inside of a match: its parts and what is inside of them.
LEMMA InsideIs ==
  ASSUME NEW parts \in SUBSET (Templates \X Templates)
  PROVE  /\ \A t \in Templates : Inside(parts, t) \subseteq Templates
         /\ \A t, u \in Templates : <<t, u>> \in parts => u \in Inside(parts, t)
         /\ \A t, u, v \in Templates :
              u \in Inside(parts, t) /\ v \in Inside(parts, u) => v \in Inside(parts, t)
         /\ \A t, v \in Templates : v \in Inside(parts, t) =>
              \E u \in Templates : <<t, u>> \in parts /\ (v = u \/ v \in Inside(parts, u))
<1> DEFINE Closed(t) == {s \in SUBSET Templates : \A q \in parts : q[1] \in s \cup {t} => q[2] \in s}
<1>1. \A t : Inside(parts, t) = {x \in Templates : \A s \in Closed(t) : x \in s}
  BY DEF Inside, Least
<1>2. \A q \in parts : q = <<q[1], q[2]>> /\ q[1] \in Templates /\ q[2] \in Templates
  OBVIOUS
<1>3. ASSUME NEW t \in Templates PROVE Inside(parts, t) \in Closed(t)
  BY <1>1, <1>2
<1>4. ASSUME NEW t \in Templates, NEW s \in Closed(t) PROVE Inside(parts, t) \subseteq s
  BY <1>1
<1>5. \A t \in Templates : Inside(parts, t) \subseteq Templates
  BY <1>1
<1>6. ASSUME NEW t \in Templates, NEW u \in Templates, <<t, u>> \in parts PROVE u \in Inside(parts, t)
  <2>1. \A q \in parts : q[1] = t => q[2] \in Inside(parts, t)
    BY <1>3
  <2>2. <<t, u>>[1] = t /\ <<t, u>>[2] = u
    OBVIOUS
  <2> QED BY <1>6, <2>1, <2>2
<1>7. ASSUME NEW t \in Templates, NEW u \in Templates, u \in Inside(parts, t)
      PROVE  Inside(parts, u) \subseteq Inside(parts, t)
  <2>1. Inside(parts, t) \in Closed(u)
    BY <1>3, <1>5, <1>7
  <2> HIDE DEF Closed
  <2> QED BY <1>4, <2>1
<1>8. ASSUME NEW t \in Templates
      PROVE  \A v \in Inside(parts, t) :
               \E u \in Templates : <<t, u>> \in parts /\ (v = u \/ v \in Inside(parts, u))
  <2> DEFINE s == {v \in Templates : \E u \in Templates :
                     <<t, u>> \in parts /\ (v = u \/ v \in Inside(parts, u))}
  <2>1. ASSUME NEW q \in parts, q[1] \in s \cup {t} PROVE q[2] \in s
    <3>1. q = <<q[1], q[2]>> /\ q[1] \in Templates /\ q[2] \in Templates
      BY <1>2
    <3>2. CASE q[1] = t
      <4>1. <<t, q[2]>> \in parts
        BY <3>1, <3>2
      <4> QED BY <3>1, <4>1
    <3>3. CASE q[1] \in s
      <4>1. PICK u \in Templates : <<t, u>> \in parts /\ (q[1] = u \/ q[1] \in Inside(parts, u))
        BY <3>3
      <4>2. \A p \in parts : p[1] \in Inside(parts, u) \cup {u} => p[2] \in Inside(parts, u)
        BY <1>3
      <4>3. q[2] \in Inside(parts, u)
        BY <4>1, <4>2
      <4> QED BY <3>1, <4>1, <4>3
    <3> QED BY <2>1, <3>2, <3>3
  <2>2. s \in Closed(t)
    <3>1. s \in SUBSET Templates
      OBVIOUS
    <3> HIDE DEF s
    <3> QED BY <2>1, <3>1
  <2>3. Inside(parts, t) \subseteq s
    <3> HIDE DEF s, Closed
    <3> QED BY <1>4, <2>2
  <2> QED BY <2>3
<1> HIDE DEF Closed
<1> QED BY <1>5, <1>6, <1>7, <1>8

\* A body is not empty if there is text in it, or a value that is not empty.
LEMMA InkedIs ==
  ASSUME NEW w \in Contexts, NEW t \in Templates
  PROVE  t \in Inked(w) <=>
           \/ Library[t].text
           \/ \E n \in Library[t].uses :
                /\ <<t, n>> \in Found(w)
                /\ \/ Variable(w, t, n).kind = "plain"
                   \/ Nested(w, Variable(w, t, n)) /\ Inner(w, Variable(w, t, n)) \in Inked(w)
<1> DEFINE used == {p \in Found(w) : p[2] \in Library[p[1]].uses}
           lettered == {u \in Templates : Library[u].text}
                       \cup {p[1] : p \in {p \in used : Of(w, p).kind = "plain"}}
           nested == {<<p[1], Inner(w, Of(w, p))>> : p \in {p \in used : Nested(w, Of(w, p))}}
           Closed == {s \in SUBSET Templates :
                        lettered \subseteq s /\ \A q \in nested : q[2] \in s => q[1] \in s}
           I == Inked(w)
           s2 == lettered \cup {q[1] : q \in {q \in nested : q[2] \in I}}
<1>1. I = {x \in Templates : \A s \in Closed : x \in s}
  BY DEF Inked, Spread, Lettered, Fillings, Used, Least
<1>2. \A p \in used : p \in Found(w) /\ p[1] \in Templates /\ p[2] \in Library[p[1]].uses
  BY FoundAre
<1>3. lettered \subseteq Templates
  BY <1>2
<1>4. \A q \in nested : q[1] \in Templates
  <2> SUFFICES ASSUME NEW p \in used PROVE <<p[1], Inner(w, Of(w, p))>>[1] \in Templates
    OBVIOUS
  <2> QED BY <1>2
<1>5. I \in Closed
  <2> HIDE DEF lettered, nested
  <2> QED BY <1>1, <1>3, <1>4
<1>6. \A s \in Closed : I \subseteq s
  <2> HIDE DEF Closed
  <2> QED BY <1>1
<1>7. s2 \subseteq I
  <2>1. lettered \subseteq I /\ \A q \in nested : q[2] \in I => q[1] \in I
    <3> HIDE DEF lettered, nested, I
    <3> QED BY <1>5
  <2> HIDE DEF lettered, nested, I
  <2> QED BY <2>1
<1>8. s2 \in Closed
  <2>1. s2 \in SUBSET Templates
    <3> HIDE DEF lettered, nested, I
    <3> QED BY <1>3, <1>4
  <2>2. \A q \in nested : q[2] \in s2 => q[1] \in s2
    <3> TAKE q \in nested
    <3> HAVE q[2] \in s2
    <3>1. q[2] \in I
      <4> HIDE DEF s2, I
      <4> QED BY <1>7
    <3> HIDE DEF lettered, nested, I
    <3> QED BY <3>1
  <2>3. lettered \subseteq s2
    OBVIOUS
  <2> HIDE DEF lettered, nested, s2
  <2> QED BY <2>1, <2>2, <2>3
<1>9. I = s2
  <2> HIDE DEF Closed, s2, I
  <2> QED BY <1>6, <1>7, <1>8
<1>10. t \in lettered <=>
         Library[t].text \/ \E n \in Library[t].uses : <<t, n>> \in Found(w) /\ Variable(w, t, n).kind = "plain"
  <2>1. ASSUME NEW p \in used, Of(w, p).kind = "plain", p[1] = t
        PROVE  \E n \in Library[t].uses : <<t, n>> \in Found(w) /\ Variable(w, t, n).kind = "plain"
    <3>1. p = <<t, p[2]>> /\ p \in Found(w) /\ p[2] \in Library[t].uses
      BY <2>1, FoundAre
    <3> QED BY <2>1, <3>1 DEF Of
  <2>2. ASSUME NEW n \in Library[t].uses, <<t, n>> \in Found(w), Variable(w, t, n).kind = "plain"
        PROVE  t \in lettered
    <3>1. <<t, n>>[1] = t /\ <<t, n>>[2] = n
      OBVIOUS
    <3>2. <<t, n>> \in used /\ Of(w, <<t, n>>).kind = "plain"
      BY <2>2, <3>1 DEF Of
    <3> HIDE DEF used
    <3> QED BY <3>1, <3>2
  <2> HIDE DEF used
  <2> QED BY <2>1, <2>2
<1>11. t \in {q[1] : q \in {q \in nested : q[2] \in I}} <=>
         \E n \in Library[t].uses :
           /\ <<t, n>> \in Found(w)
           /\ Nested(w, Variable(w, t, n)) /\ Inner(w, Variable(w, t, n)) \in I
  <2>1. ASSUME NEW q \in nested, q[2] \in I, q[1] = t
        PROVE  \E n \in Library[t].uses :
                 /\ <<t, n>> \in Found(w)
                 /\ Nested(w, Variable(w, t, n)) /\ Inner(w, Variable(w, t, n)) \in I
    <3>1. PICK p \in used : Nested(w, Of(w, p)) /\ q = <<p[1], Inner(w, Of(w, p))>>
      BY <2>1
    <3>2. p[1] = t /\ q[2] = Inner(w, Of(w, p))
      BY <2>1, <3>1
    <3>3. p = <<t, p[2]>> /\ p \in Found(w) /\ p[2] \in Library[t].uses
      BY <3>2, FoundAre
    <3>4. Of(w, p) = Variable(w, t, p[2])
      BY <3>2 DEF Of
    <3> HIDE DEF I, nested, used
    <3> QED BY <2>1, <3>1, <3>2, <3>3, <3>4
  <2>2. ASSUME NEW n \in Library[t].uses, <<t, n>> \in Found(w),
               Nested(w, Variable(w, t, n)), Inner(w, Variable(w, t, n)) \in I
        PROVE  \E q \in nested : q[2] \in I /\ q[1] = t
    <3>1. <<t, n>>[1] = t /\ <<t, n>>[2] = n /\ Of(w, <<t, n>>) = Variable(w, t, n)
      BY DEF Of
    <3>2. <<t, n>> \in used /\ Nested(w, Of(w, <<t, n>>))
      BY <2>2, <3>1
    <3> DEFINE r == <<t, Inner(w, Variable(w, t, n))>>
    <3>3. r \in nested
      <4> HIDE DEF used
      <4> QED BY <3>1, <3>2
    <3>4. r[1] = t /\ r[2] \in I
      BY <2>2
    <3> HIDE DEF r, nested, I
    <3> QED BY <3>3, <3>4
  <2> HIDE DEF nested, I
  <2> QED BY <2>1, <2>2
<1> HIDE DEF lettered, nested, I
<1>12. t \in I <=> t \in lettered \/ t \in {q[1] : q \in {q \in nested : q[2] \in I}}
  BY <1>9
<1> QED BY <1>10, <1>11, <1>12 DEF I

-----------------------------------------------------------------------------
(***************************************************************************)
(* Rendering: one variable after the other gets its value.                 *)
(***************************************************************************)
\* Nothing is wrong with a match nor with anything inside of it, and nothing is inside of itself.
Good(w, t) ==
  \A u \in {t} \cup Inside(Parts(w), t) : u \in Fit(w) /\ u \notin Inside(Parts(w), u)

\* What is done has a value unless there is no extension for it.  A value was made of what had
\* one before, or of a match that can be made.
Done(c) == {c.order[j] : j \in 1..c.next - 1}
Valueless == {"unknown", "global"}
Unlettered(w, v) == v.kind = "empty" \/ (Nested(w, v) /\ Inner(w, v) \notin Inked(w))
Evaluated(w, c) ==
  /\ c.path # << >> => c.next = 1
  /\ c.path = << >> => c.next \in DOMAIN c.order
  /\ c.scope = {n \in Done(c) : Variable(w, c.of, n).kind \notin Valueless}
  /\ c.empty = {n \in c.scope : Unlettered(w, Variable(w, c.of, n))}
  /\ \A n \in c.scope :
       LET v == Variable(w, c.of, n)
       IN IF Nested(w, v) THEN Good(w, Inner(w, v))
          ELSE v.kind \in {"plain", "empty"} /\ v.reads \subseteq c.scope

\* Before the search is over nothing is done.
LEMMA NothingDone ==
  ASSUME NEW w, NEW c \in Calls, c.next = 1, c.scope = {}, c.empty = {},
         c.path = << >> => c.order # << >>
  PROVE  Evaluated(w, c)
<1>1. Done(c) = {}
  BY DEF Done
<1>2. c.path = << >> => 1 \in DOMAIN c.order
  <2>1. c.order \in Seq(Nodes)
    BY DEF Calls
  <2> QED BY <2>1, EmptySeq
<1> QED BY <1>1, <1>2 DEF Evaluated

\* While the search is under way nothing has been evaluated.
LEMMA StillSearching ==
  ASSUME NEW w, NEW c \in Calls, Evaluated(w, c), c.path # << >>
  PROVE  c.next = 1 /\ c.scope = {} /\ c.empty = {}
<1>1. Done(c) = {}
  BY DEF Evaluated, Done
<1> QED BY <1>1 DEF Evaluated

\* The variable whose turn it is.
LEMMA PendingIs ==
  ASSUME NEW w \in Contexts, NEW c \in Calls, Searched(w, c), Evaluated(w, c), c.path = << >>,
         c.order[c.next] # MatchBody,
         NEW n, n = c.order[c.next]
  PROVE  /\ Library[c.of].uses # {} /\ n \in Needed(w, c.of) /\ IsNode(w, c.of, n) /\ n \in Names
         /\ c.next + 1 \in DOMAIN c.order /\ Done(c) \subseteq Names
         /\ {c.order[j] : j \in 1..(c.next + 1) - 1} = Done(c) \cup {n} /\ n \notin Done(c)
         /\ Variable(w, c.of, n) \in Variables /\ Variable(w, c.of, n).reads \subseteq Done(c)
<1> DEFINE o == c.order
           t == c.of
           x == c.next
           L == Len(o)
<1>1. o \in Seq(Nodes) /\ t \in Templates /\ x \in DOMAIN o /\ L \in Nat /\ x \in Nat
  BY DEF Calls, Evaluated
<1>2. Library[t].uses # {}
  <2> SUFFICES ASSUME Library[t].uses = {} PROVE FALSE
    OBVIOUS
  <2>1. o = <<MatchBody>> /\ x = 1
    BY DEF Searched
  <2>2. <<MatchBody>>[1] = MatchBody
    OBVIOUS
  <2> QED BY <2>1, <2>2
<1>3. Resolved(w, t, o)
  BY <1>2 DEF Searched
<1>4. /\ Range(o) = Needed(w, t) \cup {MatchBody} /\ \A m \in Needed(w, t) : IsNode(w, t, m)
      /\ \A k \in DOMAIN o : o[k] = MatchBody <=> k = L
      /\ L \in DOMAIN o
  BY <1>2, SearchEnds
<1> HIDE DEF o, t, x
<1>5. o[x] # MatchBody /\ n = o[x]
  BY DEF o, x
<1>6. n \in Needed(w, t) /\ IsNode(w, t, n) /\ n \in Names
  <2>1. n \in Range(o)
    BY <1>1, <1>5 DEF Range
  <2> QED BY <1>1, <1>4, <1>5, <2>1, NeededIsLeast
<1>7. DOMAIN o = 1..L /\ x # L /\ x + 1 \in DOMAIN o
  <2>1. DOMAIN o = 1..L /\ x # L
    BY <1>1, <1>4, <1>5
  <2> HIDE DEF L
  <2> QED BY <1>1, <2>1
<1>8. \A j : j \in 1..x - 1 <=> j \in DOMAIN o /\ j < x
  <2> HIDE DEF L
  <2> QED BY <1>1, <1>7
<1>9. Done(c) = {o[j] : j \in 1..x - 1}
  BY DEF Done, o, x
<1>10. Done(c) \subseteq Names
  <2> SUFFICES ASSUME NEW j \in 1..x - 1 PROVE o[j] \in Names
    BY <1>9
  <2>1. j \in DOMAIN o /\ j # L
    <3> HIDE DEF L
    <3> QED BY <1>1, <1>7, <1>8
  <2>2. o[j] # MatchBody /\ o[j] \in Nodes
    BY <1>1, <1>4, <2>1
  <2> QED BY <2>2 DEF Nodes
<1>11. {o[j] : j \in 1..(x + 1) - 1} = Done(c) \cup {n}
  <2>1. \A j : j \in 1..(x + 1) - 1 <=> j \in 1..x - 1 \/ j = x
    BY <1>1, <1>7
  <2> QED BY <1>5, <1>9, <2>1
<1>12. n \notin Done(c)
  <2> SUFFICES ASSUME NEW j \in 1..x - 1, o[j] = n PROVE FALSE
    BY <1>9
  <2>1. j \in DOMAIN o /\ j < x
    BY <1>8
  <2>2. j = x
    BY <1>1, <1>3, <1>5, <2>1 DEF Resolved
  <2> QED BY <1>1, <2>1, <2>2
<1>13. Variable(w, t, n) \in Variables /\ Variable(w, t, n).needs \subseteq Deps(w, t, n)
  BY <1>1, <1>6, GraphIs
<1>14. Variable(w, t, n).reads \subseteq Done(c)
  <2> SUFFICES ASSUME NEW m \in Variable(w, t, n).reads PROVE m \in Done(c)
    OBVIOUS
  <2>1. m \in Deps(w, t, n)
    BY <1>13 DEF Variables
  <2>2. PICK j \in DOMAIN o : j < x /\ o[j] = m
    BY <1>1, <1>3, <1>5, <2>1 DEF Resolved
  <2> QED BY <1>8, <1>9, <2>2
<1> QED BY <1>2, <1>6, <1>7, <1>10, <1>11, <1>12, <1>13, <1>14 DEF o, t, x

\* It has no extension.
LEMMA SkipEvaluated ==
  ASSUME NEW w \in Contexts, NEW c \in Calls, Searched(w, c), Evaluated(w, c), c.path = << >>,
         c.order[c.next] # MatchBody, Variable(w, c.of, c.order[c.next]).kind \in Valueless,
         NEW d, d = [c EXCEPT !.next = @ + 1]
  PROVE  d \in Calls /\ Searched(w, d) /\ Evaluated(w, d)
<1> DEFINE n == c.order[c.next]
<1>1. /\ Library[c.of].uses # {} /\ c.next + 1 \in DOMAIN c.order /\ n \notin Done(c)
      /\ {c.order[j] : j \in 1..(c.next + 1) - 1} = Done(c) \cup {n}
  BY PendingIs
<1>2. /\ d \in Calls /\ d.of = c.of /\ d.path = c.path /\ d.order = c.order /\ d.seen = c.seen
      /\ d.next = c.next + 1 /\ d.scope = c.scope /\ d.empty = c.empty
  BY DEF Calls
<1>3. Searched(w, d)
  BY <1>1, <1>2 DEF Searched
<1>4. Done(d) = Done(c) \cup {n}
  <2>1. Done(d) = {c.order[j] : j \in 1..(c.next + 1) - 1}
    BY <1>2 DEF Done
  <2> QED BY <1>1, <2>1
<1> HIDE DEF n
<1>5. Variable(w, c.of, n).kind \in Valueless
  BY DEF n
<1>6. c.scope = {m \in Done(d) : Variable(w, d.of, m).kind \notin Valueless}
  BY <1>2, <1>4, <1>5 DEF Evaluated
<1> QED BY <1>1, <1>2, <1>3, <1>6 DEF Evaluated

\* It gets a value.
LEMMA ValueEvaluated ==
  ASSUME NEW w \in Contexts, NEW c \in Calls, Searched(w, c), Evaluated(w, c), c.path = << >>,
         c.order[c.next] # MatchBody,
         NEW v, v = Variable(w, c.of, c.order[c.next]), v.kind \notin Valueless,
         IF Nested(w, v) THEN Good(w, Inner(w, v))
         ELSE v.kind \in {"plain", "empty"} /\ v.reads \subseteq c.scope,
         NEW e, e <=> Unlettered(w, v)
  PROVE  Valued(c, e) \in Calls /\ Searched(w, Valued(c, e)) /\ Evaluated(w, Valued(c, e))
<1> DEFINE n == c.order[c.next]
           d == Valued(c, e)
           em == IF e THEN c.empty \cup {n} ELSE c.empty
<1>1. /\ Library[c.of].uses # {} /\ c.next + 1 \in DOMAIN c.order /\ n \notin Done(c) /\ n \in Names
      /\ {c.order[j] : j \in 1..(c.next + 1) - 1} = Done(c) \cup {n}
  BY PendingIs
<1>2. /\ d \in Calls /\ d.of = c.of /\ d.path = c.path /\ d.order = c.order /\ d.seen = c.seen
      /\ d.next = c.next + 1 /\ d.scope = c.scope \cup {n} /\ d.empty = em
  <2> DEFINE sc == c.scope \cup {n}
             y == c.next + 1
  <2>1. d = [c EXCEPT !.scope = sc, !.empty = em, !.next = y]
    BY DEF Valued
  <2>2. em \in SUBSET Names /\ sc \in SUBSET Names /\ y \in Nat \ {0}
    BY <1>1 DEF Calls
  <2> HIDE DEF d, em, n, sc, y
  <2>3. /\ d \in Calls /\ d.of = c.of /\ d.path = c.path /\ d.order = c.order /\ d.seen = c.seen
        /\ d.next = y /\ d.scope = sc /\ d.empty = em
    BY <2>1, <2>2 DEF Calls
  <2> QED BY <2>3 DEF sc, y
<1> HIDE DEF d
<1>3. Searched(w, d)
  BY <1>1, <1>2 DEF Searched
<1>4. Done(d) = Done(c) \cup {n}
  <2>1. Done(d) = {c.order[j] : j \in 1..(c.next + 1) - 1}
    BY <1>2 DEF Done
  <2> QED BY <1>1, <2>1
<1> HIDE DEF n
<1>5. Variable(w, c.of, n) = v
  BY DEF n
<1>6. d.scope = {m \in Done(d) : Variable(w, d.of, m).kind \notin Valueless}
  BY <1>2, <1>4, <1>5 DEF Evaluated
<1>7. d.empty = {m \in d.scope : Unlettered(w, Variable(w, d.of, m))}
  <2>1. c.empty = {m \in c.scope : Unlettered(w, Variable(w, c.of, m))}
    BY DEF Evaluated
  <2> QED BY <1>2, <1>5, <2>1
<1>8. ASSUME NEW m \in d.scope
      PROVE  LET u == Variable(w, d.of, m)
             IN IF Nested(w, u) THEN Good(w, Inner(w, u))
                ELSE u.kind \in {"plain", "empty"} /\ u.reads \subseteq d.scope
  <2>1. CASE m = n
    BY <1>2, <1>5, <2>1
  <2>2. CASE m \in c.scope
    BY <1>2, <2>2 DEF Evaluated
  <2> QED BY <1>2, <2>1, <2>2
<1> QED BY <1>1, <1>2, <1>3, <1>6, <1>7, <1>8 DEF Evaluated, d

\* A variable that nothing can be made of: its match has something wrong with it.
LEMMA WrongVariable ==
  ASSUME NEW w \in Contexts, NEW c \in Calls, Searched(w, c), Evaluated(w, c), c.path = << >>,
         c.order[c.next] # MatchBody,
         NEW v, v = Variable(w, c.of, c.order[c.next]), v.kind \notin Valueless, ~Nested(w, v),
         v.kind \notin {"plain", "empty"} \/ ~(v.reads \subseteq c.scope)
  PROVE  c.of \notin Fit(w)
<1> DEFINE n == c.order[c.next]
           t == c.of
<1>1. /\ n \in Needed(w, t) /\ IsNode(w, t, n) /\ v.reads \subseteq Done(c) /\ t \in Templates
  BY PendingIs DEF Calls
<1>2. <<t, n>> \in Given(w) /\ Of(w, <<t, n>>) = v /\ <<t, n>>[1] = t
  BY <1>1, FoundIs DEF Of, Valueless
<1>3. ASSUME NEW m \in v.reads, m \notin c.scope PROVE <<t, m>> \notin Given(w)
  <2>1. Variable(w, t, m).kind \in Valueless
    BY <1>1, <1>3 DEF Evaluated
  <2> QED BY <1>1, <2>1, FoundIs DEF Valueless
<1>4. ~(Nested(w, v) \/ (v.kind \in {"plain", "empty"} /\ \A m \in v.reads : <<t, m>> \in Given(w)))
  BY <1>3
<1> HIDE DEF n, t
<1>5. t \notin Fit(w)
  BY <1>2, <1>4 DEF Fit
<1> QED BY <1>5 DEF t

\* All variables have had their turn.
LEMMA ScopeIsGiven ==
  ASSUME NEW w \in Contexts, NEW c \in Calls, Searched(w, c), Evaluated(w, c), c.path = << >>,
         c.order[c.next] = MatchBody
  PROVE  \A n : n \in c.scope <=> <<c.of, n>> \in Given(w)
<1> DEFINE o == c.order
           t == c.of
           L == Len(o)
<1>1. o \in Seq(Nodes) /\ t \in Templates /\ c.next \in DOMAIN o /\ L \in Nat
  BY DEF Calls, Evaluated
<1>2. CASE Library[t].uses = {}
  <2>1. Needed(w, t) = {} /\ c.scope = {}
    BY <1>1, <1>2, NeededIsLeast DEF Searched
  <2> QED BY <1>1, <2>1, FoundIs
<1>3. CASE Library[t].uses # {}
  <2>1. /\ Range(o) = Needed(w, t) \cup {MatchBody} /\ \A m \in Needed(w, t) : IsNode(w, t, m)
        /\ \A k \in DOMAIN o : o[k] = MatchBody <=> k = L
    BY <1>3, SearchEnds
  <2>2. c.next = L
    BY <1>1, <2>1
  <2>3. Done(c) = {o[j] : j \in 1..L - 1}
    BY <2>2 DEF Done
  <2>4. \A j : j \in 1..L - 1 <=> j \in DOMAIN o /\ j # L
    BY <1>1
  <2> HIDE DEF o, L
  <2>5. MatchBody \notin Needed(w, t)
    BY <1>1, NeededIsLeast, RenderingConstants
  <2>6. Done(c) = Needed(w, t)
    <3>1. \A j \in 1..L - 1 : o[j] \in Needed(w, t)
      BY <2>1, <2>4 DEF Range
    <3>2. ASSUME NEW m \in Needed(w, t) PROVE m \in Done(c)
      <4>1. PICK j \in DOMAIN o : o[j] = m
        BY <2>1 DEF Range
      <4> QED BY <2>1, <2>3, <2>4, <2>5, <4>1
    <3> QED BY <2>3, <3>1, <3>2
  <2>7. c.scope = {m \in Needed(w, t) : Variable(w, t, m).kind \notin Valueless}
    BY <2>6 DEF Evaluated
  <2> QED BY <1>1, <2>1, <2>7, FoundIs DEF Valueless
<1> QED BY <1>2, <1>3

\* The body can be filled in: whether it is empty, and that nothing is wrong with it.
LEMMA BodyIsEmpty ==
  ASSUME NEW w \in Contexts, NEW c \in Calls, Searched(w, c), Evaluated(w, c), c.path = << >>,
         c.order[c.next] = MatchBody, Library[c.of].uses \subseteq c.scope
  PROVE  ~Library[c.of].text /\ Library[c.of].uses \subseteq c.empty <=> c.of \notin Inked(w)
<1> DEFINE t == c.of
<1>1. t \in Templates
  BY DEF Calls
<1>2. \A n \in Library[t].uses : <<t, n>> \in Given(w) /\ <<t, n>> \in Found(w)
  BY <1>1, ScopeIsGiven, FoundIs
<1>3. ASSUME NEW n \in Library[t].uses
      PROVE  n \notin c.empty <=>
               \/ Variable(w, t, n).kind = "plain"
               \/ Nested(w, Variable(w, t, n)) /\ Inner(w, Variable(w, t, n)) \in Inked(w)
  <2> DEFINE v == Variable(w, t, n)
  <2>1. n \in c.scope
    OBVIOUS
  <2>2. Nested(w, v) \/ v.kind \in {"plain", "empty"}
    BY <2>1 DEF Evaluated
  <2>3. n \in c.empty <=> Unlettered(w, v)
    BY <2>1 DEF Evaluated
  <2>4. Nested(w, v) => v.kind = "match"
    BY DEF Nested
  <2> HIDE DEF v
  <2>5. n \notin c.empty <=> v.kind = "plain" \/ (Nested(w, v) /\ Inner(w, v) \in Inked(w))
    BY <2>2, <2>3, <2>4 DEF Unlettered
  <2> QED BY <2>5 DEF v
<1>4. t \in Inked(w) <=>
        \/ Library[t].text
        \/ \E n \in Library[t].uses :
             /\ <<t, n>> \in Found(w)
             /\ \/ Variable(w, t, n).kind = "plain"
                \/ Nested(w, Variable(w, t, n)) /\ Inner(w, Variable(w, t, n)) \in Inked(w)
  BY <1>1, InkedIs
<1> QED BY <1>2, <1>3, <1>4

\* A body with all of its names in it, all of them in order and with a value, can be made.
LEMMA BodyIsGood ==
  ASSUME NEW w \in Contexts, NEW c \in Calls, Searched(w, c), Evaluated(w, c), c.path = << >>,
         c.order[c.next] = MatchBody, Library[c.of].uses \subseteq c.scope,
         w.style = "capital" => c.of \in Inked(w)
  PROVE  Good(w, c.of)
<1> DEFINE t == c.of
           parts == Parts(w)
<1>1. t \in Templates /\ Orderable(w, t)
  BY ThereIsAnOrder DEF Calls
<1>2. \A n : n \in c.scope <=> <<t, n>> \in Given(w)
  BY ScopeIsGiven
<1>3. t \in Fit(w)
  <2>1. \A n \in Library[t].uses : <<t, n>> \in Given(w)
    BY <1>2
  <2>2. ASSUME NEW p \in Given(w), p[1] = t
        PROVE  LET v == Of(w, p)
               IN Nested(w, v) \/ (v.kind \in {"plain", "empty"} /\ \A n \in v.reads : <<t, n>> \in Given(w))
    <3>1. p = <<t, p[2]>>
      BY <2>2, FoundAre DEF Given
    <3>2. p[2] \in c.scope /\ Of(w, p) = Variable(w, t, p[2])
      BY <1>2, <2>2, <3>1 DEF Of
    <3> QED BY <1>2, <3>2 DEF Evaluated
  <2> QED BY <1>1, <2>1, <2>2 DEF Fit
<1>4. parts \in SUBSET (Templates \X Templates)
  BY PartsAre
<1>5. ASSUME NEW u \in Templates, <<t, u>> \in parts PROVE Good(w, u)
  <2>1. PICK n \in Needed(w, t) : /\ IsNode(w, t, n) /\ Nested(w, Variable(w, t, n))
                                  /\ u = Inner(w, Variable(w, t, n))
    BY <1>1, <1>5, PartsAre
  <2>2. Variable(w, t, n).kind = "match"
    BY <2>1 DEF Nested
  <2>3. n \in c.scope
    BY <1>1, <1>2, <2>1, <2>2, FoundIs
  <2> QED BY <2>1, <2>3 DEF Evaluated
<1>6. \A v \in Inside(parts, t) : \E u \in Templates : <<t, u>> \in parts /\ (v = u \/ v \in Inside(parts, u))
  BY <1>1, <1>4, InsideIs
<1>7. ASSUME NEW v \in Inside(parts, t) PROVE v \in Fit(w) /\ v \notin Inside(parts, v)
  BY <1>5, <1>6 DEF Good
<1>8. t \notin Inside(parts, t)
  BY <1>7
<1> QED BY <1>3, <1>7, <1>8 DEF Good

-----------------------------------------------------------------------------
(***************************************************************************)
(* Rendering: the stack of renderings, and what comes of it.               *)
(***************************************************************************)
Turn(w, c) == Variable(w, c.of, c.order[c.next])
Waits(w, c, t) ==
  c.path = << >> /\ c.order[c.next] # MatchBody /\ Nested(w, Turn(w, c)) /\ Inner(w, Turn(w, c)) = t

\* Each rendering is for a variable of the one before it.
Stacked(w, s) ==
  /\ s # << >> => s[1].of = w.of
  /\ \A d \in DOMAIN s : s[d].of \in All(w) /\ Searched(w, s[d]) /\ Evaluated(w, s[d])
  /\ \A d, e \in DOMAIN s : d < e => s[e].of \in Inside(Parts(w), s[d].of)
  /\ \A d \in DOMAIN s : d + 1 \in DOMAIN s => Waits(w, s[d], s[d + 1].of)

\* All that is in what was asked for are matches, and whatever is in one of them is too.
LEMMA AllIs ==
  ASSUME NEW w \in Contexts
  PROVE  /\ All(w) \subseteq Templates /\ w.of \in All(w)
         /\ \A t \in All(w), u \in Templates :
              <<t, u>> \in Parts(w) => u \in All(w) /\ u \in Inside(Parts(w), t)
<1>1. w.of \in Templates /\ Parts(w) \in SUBSET (Templates \X Templates)
  BY PartsAre DEF Contexts
<1>2. All(w) \subseteq Templates
  BY <1>1, InsideIs DEF All
<1>3. ASSUME NEW t \in All(w), NEW u \in Templates, <<t, u>> \in Parts(w)
      PROVE  u \in All(w) /\ u \in Inside(Parts(w), t)
  <2>1. u \in Inside(Parts(w), t) /\ t \in Templates
    BY <1>1, <1>2, <1>3, InsideIs
  <2> QED BY <1>1, <1>2, <2>1, InsideIs DEF All
<1> QED BY <1>2, <1>3 DEF All

\* What a rendering waits for is a part of its match.
LEMMA WaitsForPart ==
  ASSUME NEW w \in Contexts, NEW c \in Calls, Searched(w, c), Evaluated(w, c),
         NEW t, Waits(w, c, t)
  PROVE  t \in Templates /\ <<c.of, t>> \in Parts(w)
<1>1. c.of \in Templates
  BY DEF Calls
<1>2. c.order[c.next] \in Needed(w, c.of) /\ IsNode(w, c.of, c.order[c.next])
  BY PendingIs DEF Waits
<1>3. t \in Templates
  BY <1>1, GraphIs DEF Waits
<1> QED BY <1>1, <1>2, <1>3, PartsAre DEF Waits, Turn

\* The last rendering goes on, or the one before it does.
LEMMA StackGoesOn ==
  ASSUME NEW w \in Contexts, NEW s \in Seq(Calls), Stacked(w, s),
         NEW r \in Seq(Calls), NEW m \in DOMAIN s, Len(r) = m,
         \A k \in 1..m : k # m => r[k] = s[k],
         r[m].of = s[m].of, Searched(w, r[m]), Evaluated(w, r[m])
  PROVE  Stacked(w, r)
<1>1. DOMAIN r = 1..m /\ DOMAIN r \subseteq DOMAIN s /\ m \in Nat /\ m \in DOMAIN r /\ 1 \in DOMAIN r
  OBVIOUS
<1>2. \A k \in DOMAIN r : r[k].of = s[k].of
  BY <1>1
<1>3. r # << >> => r[1].of = w.of
  <2>1. s # << >>
    BY <1>1
  <2> QED BY <1>1, <1>2, <2>1 DEF Stacked
<1>4. ASSUME NEW d \in DOMAIN r
      PROVE  r[d].of \in All(w) /\ Searched(w, r[d]) /\ Evaluated(w, r[d])
  BY <1>1, <1>2 DEF Stacked
<1>5. ASSUME NEW d \in DOMAIN r, NEW e \in DOMAIN r, d < e
      PROVE  r[e].of \in Inside(Parts(w), r[d].of)
  BY <1>1, <1>2, <1>5 DEF Stacked
<1>6. ASSUME NEW d \in DOMAIN r, d + 1 \in DOMAIN r PROVE Waits(w, r[d], r[d + 1].of)
  <2>1. d # m
    BY <1>1, <1>6
  <2>2. r[d] = s[d] /\ r[d + 1].of = s[d + 1].of /\ d \in DOMAIN s /\ d + 1 \in DOMAIN s
    BY <1>1, <1>2, <1>6, <2>1
  <2> QED BY <2>2 DEF Stacked
<1> QED BY <1>3, <1>4, <1>5, <1>6 DEF Stacked

\* A rendering is begun for a variable of the last one.
LEMMA StackGrows ==
  ASSUME NEW w \in Contexts, NEW s \in Seq(Calls), Stacked(w, s), s # << >>,
         NEW t, Waits(w, Last(s), t)
  PROVE  Append(s, Begun(w, t)) \in Seq(Calls) /\ Stacked(w, Append(s, Begun(w, t)))
<1> DEFINE L == Len(s)
           b == Begun(w, t)
           r == Append(s, b)
           P == Parts(w)
<1>1. L \in Nat /\ L > 0 /\ DOMAIN s = 1..L /\ L \in DOMAIN s /\ Last(s) = s[L] /\ s[L] \in Calls
  <2>1. L \in Nat /\ L > 0 /\ DOMAIN s = 1..L
    BY EmptySeq
  <2>2. L \in DOMAIN s
    BY <2>1
  <2> QED BY <2>1, <2>2 DEF Last
<1>2. s[L].of \in All(w) /\ Searched(w, s[L]) /\ Evaluated(w, s[L])
  BY <1>1 DEF Stacked
<1>3. t \in Templates /\ <<s[L].of, t>> \in P
  BY <1>1, <1>2, WaitsForPart
<1>4. t \in All(w) /\ t \in Inside(P, s[L].of)
  BY <1>2, <1>3, AllIs
<1>5. b \in Calls /\ Searched(w, b) /\ b.of = t
  BY <1>3, SearchBegins
<1>6. Evaluated(w, b)
  <2>1. b.next = 1 /\ b.scope = {} /\ b.empty = {} /\ (b.path = << >> => b.order # << >>)
    BY DEF Begun
  <2> HIDE DEF b
  <2> QED BY <1>5, <2>1, NothingDone
<1> HIDE DEF b, P
<1>7. /\ r \in Seq(Calls) /\ Len(r) = L + 1 /\ (\A k \in 1..L : r[k] = s[k]) /\ r[L + 1] = b
  BY <1>5, AppendIs
<1> HIDE DEF r, L
<1>8. DOMAIN r = 1..L + 1
  BY <1>7
<1>9. \A k \in DOMAIN r : (k \in DOMAIN s /\ r[k] = s[k]) \/ (k = L + 1 /\ r[k] = b)
  BY <1>1, <1>7, <1>8
<1>10. r # << >> => r[1].of = w.of
  <2>1. r[1] = s[1]
    BY <1>1, <1>7
  <2> QED BY <2>1 DEF Stacked
<1>11. \A d \in DOMAIN r : r[d].of \in All(w) /\ Searched(w, r[d]) /\ Evaluated(w, r[d])
  BY <1>4, <1>5, <1>6, <1>9 DEF Stacked
<1>12. ASSUME NEW d \in DOMAIN r, NEW e \in DOMAIN r, d < e
       PROVE  r[e].of \in Inside(Parts(w), r[d].of)
  <2>1. d \in DOMAIN s /\ r[d] = s[d]
    BY <1>1, <1>8, <1>9, <1>12
  <2>2. CASE e \in DOMAIN s /\ r[e] = s[e]
    BY <1>12, <2>1, <2>2 DEF Stacked
  <2>3. CASE e = L + 1 /\ r[e] = b
    <3>1. d = L \/ d < L
      BY <1>1, <2>1
    <3>2. d < L => s[L].of \in Inside(P, s[d].of)
      BY <1>1, <2>1 DEF Stacked, P
    <3>3. s[d].of \in Templates /\ s[L].of \in Templates
      BY <1>1, <2>1, AllIs DEF Stacked
    <3>4. P \in SUBSET (Templates \X Templates)
      BY PartsAre DEF P
    <3>5. t \in Inside(P, s[d].of)
      BY <1>3, <1>4, <3>1, <3>2, <3>3, <3>4, InsideIs
    <3> QED BY <1>5, <2>1, <2>3, <3>5 DEF P
  <2> QED BY <1>9, <2>2, <2>3
<1>13. ASSUME NEW d \in DOMAIN r, d + 1 \in DOMAIN r PROVE Waits(w, r[d], r[d + 1].of)
  <2>1. d \in DOMAIN s /\ r[d] = s[d] /\ (d + 1 \in DOMAIN s \/ d = L)
    BY <1>1, <1>8, <1>9, <1>13
  <2>2. CASE d = L
    <3>1. r[d + 1] = b /\ Waits(w, s[d], t)
      BY <1>1, <1>7, <2>2
    <3> QED BY <1>5, <2>1, <3>1
  <2>3. CASE d + 1 \in DOMAIN s
    <3>1. r[d + 1] = s[d + 1]
      BY <1>1, <1>7, <2>3
    <3> QED BY <2>1, <2>3, <3>1 DEF Stacked
  <2> QED BY <2>1, <2>2, <2>3
<1> QED BY <1>7, <1>10, <1>11, <1>12, <1>13 DEF Stacked, r, b

\* A stack that is deeper than there are matches holds one twice, so one that is inside of itself.
LEMMA DeepIsSelfish ==
  ASSUME NEW w \in Contexts, NEW s \in Seq(Calls), Stacked(w, s), Len(s) = MaxDepth
  PROVE  \E u \in All(w) : u \in Inside(Parts(w), u)
<1> SUFFICES ASSUME \A u \in All(w) : u \notin Inside(Parts(w), u) PROVE FALSE
  OBVIOUS
<1> DEFINE L == Len(s)
           N == 1..L
           f == [k \in N |-> s[k].of]
<1>1. L \in Nat /\ DOMAIN s = N /\ 1 \in Int /\ L \in Int
  OBVIOUS
<1>2. IsFiniteSet(N) /\ Cardinality(N) = L
  <2>1. IsFiniteSet(N) /\ Cardinality(N) = IF 1 > L THEN 0 ELSE L - 1 + 1
    BY <1>1, FS_Interval
  <2> QED BY <1>1, <2>1
<1>3. f \in [N -> Templates]
  <2>1. \A k \in N : s[k].of \in Templates
    BY <1>1, AllIs DEF Stacked
  <2> HIDE DEF N
  <2> QED BY <2>1
<1>4. ASSUME NEW j \in N, NEW k \in N, f[j] = f[k] PROVE j = k
  <2>1. j \in DOMAIN s /\ k \in DOMAIN s /\ s[j].of = s[k].of /\ s[j].of \in All(w)
    BY <1>1, <1>4 DEF Stacked
  <2>2. ~(j < k) /\ ~(k < j)
    BY <2>1 DEF Stacked
  <2> HIDE DEF f
  <2> QED BY <1>1, <2>2
<1>5. IsFiniteSet(Templates) /\ MaxDepth > Cardinality(Templates) /\ Cardinality(Templates) \in Nat
  BY RenderingConstants, FS_CardinalityType
<1>6. Cardinality(N) > Cardinality(Templates)
  BY <1>2, <1>5
<1> HIDE DEF N, f
<1> QED BY <1>2, <1>3, <1>4, <1>5, <1>6, FS_PigeonHole

\* The verdicts: each has its reason.
LEMMA ErrorIsExact ==
  ASSUME NEW w \in Contexts, NEW t \in All(w), t \notin Fit(w) PROVE Exact("error", w)
BY DEF Exact, Justified, Selfish, All

\* What is aborted has a variable that aborts.
LEMMA AbortIsExact ==
  ASSUME NEW w \in Contexts, NEW t \in All(w), t \notin Fit(w), NEW n, <<t, n>> \in Found(w),
         Variable(w, t, n).kind = "aborts"
  PROVE  Exact("aborted", w)
<1>1. \E p \in Found(w) : p[1] \in All(w) /\ Of(w, p).kind = "aborts"
  <2>1. <<t, n>>[1] = t /\ Of(w, <<t, n>>) = Variable(w, t, n)
    BY DEF Of
  <2> QED BY <2>1
<1> QED BY <1>1 DEF Exact, Justified, Selfish, All

\* The stack overflows for a match that is inside itself.
LEMMA OverflowIsExact ==
  ASSUME NEW w \in Contexts, NEW u \in All(w), u \in Inside(Parts(w), u) PROVE Exact("overflow", w)
BY DEF Exact, Justified, Selfish, All

\* What stops the engine is empty and is to begin with a capital.
LEMMA PanicIsExact ==
  ASSUME NEW w \in Contexts, NEW t \in All(w), w.style = "capital", t \notin Inked(w)
  PROVE  Exact("panic", w)
<1>1. t \notin Fit(w)
  BY DEF Fit
<1> QED BY <1>1 DEF Exact, Justified, Selfish, All

\* What succeeds has nothing wrong with it, however deep.
LEMMA SuccessIsExact ==
  ASSUME NEW w \in Contexts, Good(w, w.of) PROVE Exact("success", w)
BY DEF Exact, Justified, Selfish, All, Good

-----------------------------------------------------------------------------
(***************************************************************************)
(* Rendering: the invariant, and every step keeps it.                      *)
(***************************************************************************)
Verdicts == {"success", "aborted", "error", "overflow", "panic"}
RenderOK(wk, cs, rs) ==
  /\ cs \in Seq(Calls) /\ Len(cs) <= MaxDepth
  /\ wk = << >> => cs = << >>
  /\ wk # << >> =>
       /\ wk = <<wk[1]>> /\ wk[1] \in Contexts /\ Walked(wk[1]) /\ rs = NoResult
       /\ Stacked(wk[1], cs) /\ (cs # << >> => WalkOver(wk[1]))
  /\ rs # NoResult =>
       \E v \in Verdicts, w \in Contexts : rs = [verdict |-> v, of |-> w] /\ Exact(v, w)
RenderInd == RenderOK(walk, calls, result)

\* No rendering under way is in order.
LEMMA NoCalls ==
  ASSUME NEW w
  PROVE  << >> \in Seq(Calls) /\ Len(<< >>) <= MaxDepth /\ Stacked(w, << >>)
<1>1. MaxDepth \in Nat
  BY RenderingConstants
<1> QED BY <1>1 DEF Stacked

\* The invariant holds at first.
LEMMA RenderStarts == ASSUME RenderInit PROVE RenderInd
BY NoCalls DEF RenderInit, RenderInd, RenderOK

\* A walk that goes on.
LEMMA WalkGoesOn ==
  ASSUME RenderInd, NEW w \in Contexts, Walked(w), walk' = <<w>>, calls = << >>, result = NoResult,
         UNCHANGED <<calls, result>>
  PROVE  RenderInd'
<1>1. RenderOK(<<w>>, << >>, NoResult)
  <2>1. <<w>>[1] = w /\ <<w>> # << >>
    OBVIOUS
  <2> QED BY <2>1, NoCalls DEF RenderOK
<1> QED BY <1>1 DEF RenderInd

\* Every step keeps it: a rendering is asked for, ...
LEMMA RequestStep ==
  ASSUME RenderInd, NEW t \in Templates, NEW c \in Configs, NEW s \in {"none", "capital"},
         Request(t, c, s)
  PROVE  RenderInd'
<1> DEFINE w == [of |-> t, config |-> c, style |-> s, left |-> c, visited |-> {},
                 open |-> << >>, globals |-> << >>, templates |-> << >>]
<1>1. w \in Contexts /\ Walked(w)
  BY WalkBegins
<1>2. walk' = <<w>> /\ calls = << >> /\ result = NoResult /\ UNCHANGED <<calls, result>>
  BY DEF Request
<1> HIDE DEF w
<1> QED BY <1>1, <1>2, WalkGoesOn

\* While paths are left to visit, or files are open, nothing is rendered.
LEMMA Walking ==
  ASSUME RenderInd, walk # << >>, ~WalkOver(Walk)
  PROVE  Walk \in Contexts /\ Walked(Walk) /\ calls = << >> /\ result = NoResult
BY DEF RenderInd, RenderOK, Walk

\* ... a path is visited, ...
LEMMA VisitStep == ASSUME RenderInd, VisitPath PROVE RenderInd'
<1> DEFINE w == Walk
           f == Head(w.left)
<1>1. w \in Contexts /\ Walked(w) /\ calls = << >> /\ result = NoResult /\ w.left # << >>
  BY Walking DEF VisitPath, WalkOver
<1>2. UNCHANGED <<calls, result>>
  BY DEF VisitPath
<1>3. CASE f \notin w.visited /\ Files[f].readable
  <2> DEFINE x == [w EXCEPT !.left = Files[f].imports, !.visited = @ \cup {f},
                            !.open = Append(@, [file |-> f, left |-> Tail(w.left)])]
  <2>1. walk' = <<x>>
    BY <1>3 DEF VisitPath
  <2>2. x \in Contexts /\ Walked(x)
    <3> HIDE DEF w
    <3> QED BY <1>1, <1>3, WalkOpens
  <2> HIDE DEF x
  <2> QED BY <1>1, <1>2, <2>1, <2>2, WalkGoesOn
<1>4. CASE ~(f \notin w.visited /\ Files[f].readable)
  <2> DEFINE x == [w EXCEPT !.left = Tail(w.left), !.visited = @ \cup {f}]
  <2>1. walk' = <<x>>
    BY <1>4 DEF VisitPath
  <2>2. x \in Contexts /\ Walked(x)
    <3> HIDE DEF w
    <3> QED BY <1>1, <1>4, WalkSkips
  <2> HIDE DEF x
  <2> QED BY <1>1, <1>2, <2>1, <2>2, WalkGoesOn
<1> QED BY <1>3, <1>4

\* ... a file is closed, ...
LEMMA CloseStep == ASSUME RenderInd, CloseFile PROVE RenderInd'
<1> DEFINE w == Walk
           x == [w EXCEPT !.left = Last(w.open).left, !.open = Front(@),
                          !.globals = @ \o Files[Last(w.open).file].globals,
                          !.templates = @ \o Files[Last(w.open).file].matches]
<1>1. w \in Contexts /\ Walked(w) /\ calls = << >> /\ result = NoResult /\ w.left = << >>
      /\ w.open # << >>
  BY Walking DEF CloseFile, WalkOver
<1>2. walk' = <<x>> /\ UNCHANGED <<calls, result>>
  BY DEF CloseFile
<1>3. x \in Contexts /\ Walked(x)
  <2> HIDE DEF w
  <2> QED BY <1>1, WalkCloses
<1> HIDE DEF x
<1> QED BY <1>1, <1>2, <1>3, WalkGoesOn

\* ... the rendering starts, ...
LEMMA StartStep == ASSUME RenderInd, StartRendering PROVE RenderInd'
<1> DEFINE w == Walk
           b == Begun(w, w.of)
           s == <<b>>
<1>1. walk = <<w>> /\ w \in Contexts /\ Walked(w) /\ calls = << >> /\ result = NoResult /\ WalkOver(w)
  BY DEF StartRendering, WalkOver, RenderInd, RenderOK, Walk
<1>2. walk' = walk /\ result' = result /\ calls' = s
  BY DEF StartRendering
<1>3. w.of \in Templates
  BY <1>1 DEF Contexts
<1>4. b \in Calls /\ Searched(w, b) /\ b.of = w.of
  BY <1>1, <1>3, SearchBegins
<1>5. Evaluated(w, b)
  <2>1. b.next = 1 /\ b.scope = {} /\ b.empty = {} /\ (b.path = << >> => b.order # << >>)
    BY DEF Begun
  <2> HIDE DEF b, w
  <2> QED BY <1>4, <2>1, NothingDone
<1>6. w.of \in All(w)
  BY DEF All
<1>7. MaxDepth \in Nat /\ MaxDepth >= 1
  <2>1. Cardinality(Templates) \in Nat /\ MaxDepth \in Nat /\ MaxDepth > Cardinality(Templates)
    BY RenderingConstants, FS_CardinalityType
  <2> QED BY <2>1
<1> HIDE DEF b, w
<1>8. s \in Seq(Calls) /\ Len(s) = 1 /\ DOMAIN s = {1} /\ s[1] = b
  BY <1>4
<1>9. Stacked(w, s)
  BY <1>4, <1>5, <1>6, <1>8 DEF Stacked
<1>10. RenderOK(<<w>>, s, NoResult)
  <2>1. <<w>>[1] = w /\ <<w>> # << >>
    OBVIOUS
  <2> HIDE DEF s
  <2> QED BY <1>1, <1>7, <1>8, <1>9, <2>1 DEF RenderOK
<1> QED BY <1>1, <1>2, <1>10 DEF RenderInd

-----------------------------------------------------------------------------
\* What is known of the rendering that is worked on.
LEMMA Working ==
  ASSUME RenderInd, calls # << >>
  PROVE  /\ walk = <<Walk>> /\ Walk \in Contexts /\ result = NoResult
         /\ calls \in Seq(Calls) /\ Stacked(Walk, calls) /\ Len(calls) <= MaxDepth
         /\ Len(calls) \in DOMAIN calls /\ Len(calls) \in Nat /\ Len(calls) > 0
         /\ DOMAIN calls = 1..Len(calls)
         /\ Call = calls[Len(calls)] /\ Call \in Calls /\ Call.of \in All(Walk) /\ Call.of \in Templates
         /\ Searched(Walk, Call) /\ Evaluated(Walk, Call)
<1> DEFINE s == calls
           L == Len(s)
<1>1. walk = <<Walk>> /\ Walk \in Contexts /\ result = NoResult
      /\ s \in Seq(Calls) /\ Stacked(Walk, s) /\ L <= MaxDepth
  BY DEF RenderInd, RenderOK, Walk
<1>2. L \in Nat /\ L > 0 /\ DOMAIN s = 1..L
  BY <1>1, EmptySeq
<1>3. L \in DOMAIN s
  BY <1>2
<1>4. Call = s[L] /\ s[L] \in Calls
  BY <1>1, <1>3 DEF Call, Last
<1>5. Call.of \in All(Walk) /\ Searched(Walk, Call) /\ Evaluated(Walk, Call)
  BY <1>1, <1>3, <1>4 DEF Stacked
<1> QED BY <1>1, <1>2, <1>3, <1>4, <1>5, AllIs

\* The stack changes and the walk stays.
LEMMA StackChanges ==
  ASSUME RenderInd, calls # << >>, NEW s \in Seq(Calls), Len(s) <= MaxDepth, Stacked(Walk, s),
         calls' = s, UNCHANGED <<walk, result>>
  PROVE  RenderInd'
<1>1. RenderOK(walk, s, result)
  BY DEF RenderInd, RenderOK, Walk
<1> QED BY <1>1 DEF RenderInd

\* The rendering goes on.
LEMMA GoStep ==
  ASSUME RenderInd, calls # << >>, NEW d \in Calls, d.of = Call.of,
         Searched(Walk, d), Evaluated(Walk, d), Go(d)
  PROVE  RenderInd'
<1> DEFINE s == calls
           L == Len(s)
           r == Append(Front(s), d)
<1>1. /\ Walk \in Contexts /\ s \in Seq(Calls) /\ Stacked(Walk, s) /\ L \in DOMAIN s /\ L \in Nat
      /\ L <= MaxDepth /\ Call = s[L] /\ s # << >>
  BY Working
<1>2. /\ Front(s) \in Seq(Calls) /\ Len(Front(s)) = L - 1
      /\ \A k \in 1..Len(Front(s)) : Front(s)[k] = s[k]
  BY <1>1, FrontIs
<1>3. /\ r \in Seq(Calls) /\ Len(r) = L - 1 + 1 /\ r[L - 1 + 1] = d
      /\ \A k \in 1..L - 1 : r[k] = Front(s)[k]
  <2> DEFINE g == Front(s)
  <2>1. g \in Seq(Calls) /\ Len(g) = L - 1
    BY <1>2
  <2> HIDE DEF g
  <2>2. /\ Append(g, d) \in Seq(Calls) /\ Len(Append(g, d)) = Len(g) + 1
        /\ (\A k \in 1..Len(g) : Append(g, d)[k] = g[k]) /\ Append(g, d)[Len(g) + 1] = d
    BY <2>1, AppendIs
  <2> QED BY <2>1, <2>2 DEF g
<1> HIDE DEF r, s
<1>4. Len(r) = L /\ r[L] = d /\ \A k \in 1..L : k # L => r[k] = s[k]
  BY <1>1, <1>2, <1>3
<1>5. Stacked(Walk, r)
  BY <1>1, <1>3, <1>4, StackGoesOn
<1>6. calls' = r /\ UNCHANGED <<walk, result>>
  BY DEF Go, r, s
<1> QED BY <1>1, <1>3, <1>4, <1>5, <1>6, StackChanges

\* The rendering is over.
LEMMA ReturnStep ==
  ASSUME RenderInd, calls # << >>, NEW v \in Verdicts, Exact(v, Walk), Return(v)
  PROVE  RenderInd'
<1>1. Walk \in Contexts
  BY Working
<1>2. RenderOK(<< >>, << >>, [verdict |-> v, of |-> Walk])
  BY <1>1, NoCalls DEF RenderOK
<1> QED BY <1>2 DEF Return, RenderInd

\* ... the search follows a dependency, ...
LEMMA FollowStep == ASSUME RenderInd, NEW n \in Names, Follow(n) PROVE RenderInd'
<1> DEFINE w == Walk
           c == Call
           took == Took(c.path, n)
<1>1. /\ w \in Contexts /\ c \in Calls /\ c.of \in All(w) /\ c.of \in Templates
      /\ Searched(w, c) /\ Evaluated(w, c)
  BY Working DEF Follow, Searching
<1>2. c.path # << >> /\ n \in Last(c.path).left /\ calls # << >>
  BY DEF Follow, Searching, Node
<1>3. c.next = 1 /\ c.scope = {} /\ c.empty = {}
  BY <1>1, <1>2, StillSearching
<1>4. c.path \in Seq(Stops)
  BY <1>1 DEF Calls
<1>5. took # << >>
  <2>1. took \in Seq(Stops) /\ DOMAIN took = DOMAIN c.path /\ Len(c.path) \in DOMAIN c.path
    BY <1>2, <1>4, TookIs
  <2> QED BY <2>1
<1>6. CASE Circular(n) /\ Return("error")
  <2>1. n \in c.seen /\ n \notin Range(c.order)
    BY <1>6 DEF Circular
  <2>2. ~Orderable(w, c.of)
    <3> HIDE DEF c, w
    <3> QED BY <1>1, <1>2, <2>1, CircleHasNoOrder
  <2>3. Exact("error", w)
    <3>1. c.of \notin Fit(w)
      BY <2>2 DEF Fit
    <3> HIDE DEF c, w
    <3> QED BY <1>1, <3>1, ErrorIsExact
  <2> QED BY <1>2, <1>6, <2>3, ReturnStep DEF Verdicts
<1>7. CASE ~Circular(n) /\ n \in c.seen /\ Go([c EXCEPT !.path = took])
  <2> DEFINE d == [c EXCEPT !.path = took]
  <2>1. n \in Range(c.order)
    BY <1>7 DEF Circular
  <2>2. d \in Calls /\ Searched(w, d)
    <3> HIDE DEF c, w
    <3> QED BY <1>1, <1>2, <2>1, SearchPasses
  <2>3. d.of = c.of /\ d.next = 1 /\ d.scope = {} /\ d.empty = {} /\ d.path = took
    <3> HIDE DEF c, took
    <3> QED BY <1>1, <1>3 DEF Calls
  <2> HIDE DEF d
  <2>4. Evaluated(w, d)
    BY <1>5, <2>2, <2>3, NothingDone
  <2> QED BY <1>2, <1>7, <2>2, <2>3, <2>4, GoStep DEF d
<1>8. CASE ~IsNode(w, c.of, n) /\ Return("error")
  <2>1. ~Orderable(w, c.of)
    <3> HIDE DEF c, w
    <3> QED BY <1>1, <1>2, <1>8, MissingHasNoOrder
  <2>2. Exact("error", w)
    <3>1. c.of \notin Fit(w)
      BY <2>1 DEF Fit
    <3> HIDE DEF c, w
    <3> QED BY <1>1, <3>1, ErrorIsExact
  <2> QED BY <1>2, <1>8, <2>2, ReturnStep DEF Verdicts
<1>9. CASE /\ n \notin c.seen /\ IsNode(w, c.of, n)
           /\ Go([c EXCEPT !.path = Append(took, [name |-> n, left |-> Deps(w, c.of, n)]),
                           !.seen = @ \cup {n}])
  <2> DEFINE p == Append(took, [name |-> n, left |-> Deps(w, c.of, n)])
             d == [c EXCEPT !.path = p, !.seen = @ \cup {n}]
  <2>1. d \in Calls /\ Searched(w, d)
    <3> HIDE DEF c, w
    <3> QED BY <1>1, <1>2, <1>9, SearchDescends
  <2>2. d.of = c.of /\ d.next = 1 /\ d.scope = {} /\ d.empty = {} /\ d.path = p
    <3> HIDE DEF c, p
    <3> QED BY <1>1, <1>3 DEF Calls
  <2>3. p # << >>
    <3>1. took \in Seq(Stops)
      BY <1>2, <1>4, TookIs
    <3>2. Len(p) = Len(took) + 1 /\ Len(took) \in Nat
      <4> HIDE DEF took
      <4> QED BY <3>1
    <3> HIDE DEF p, took
    <3> QED BY <3>2
  <2> HIDE DEF d, p
  <2>4. Evaluated(w, d)
    BY <2>1, <2>2, <2>3, NothingDone
  <2> QED BY <1>2, <1>9, <2>1, <2>2, <2>4, GoStep DEF d, p
<1>10. \/ Circular(n) /\ Return("error")
       \/ ~Circular(n) /\ n \in c.seen /\ Go([c EXCEPT !.path = took])
       \/ ~IsNode(w, c.of, n) /\ Return("error")
       \/ /\ n \notin c.seen /\ IsNode(w, c.of, n)
          /\ Go([c EXCEPT !.path = Append(took, [name |-> n, left |-> Deps(w, c.of, n)]),
                          !.seen = @ \cup {n}])
  <2>1. took = [Call.path EXCEPT ![Len(Call.path)].left = @ \ {n}]
    BY DEF Took
  <2>2. Circular(n) => n \in c.seen
    BY DEF Circular
  <2> HIDE DEF took
  <2> QED BY <2>1, <2>2 DEF Follow
<1> QED BY <1>6, <1>7, <1>8, <1>9, <1>10

\* ... a node is resolved, ...
LEMMA ResolveStep == ASSUME RenderInd, Resolve PROVE RenderInd'
<1> DEFINE w == Walk
           c == Call
           d == [c EXCEPT !.path = Front(@), !.order = Append(@, Last(c.path).name)]
<1>1. w \in Contexts /\ c \in Calls /\ Searched(w, c) /\ Evaluated(w, c)
  BY Working DEF Resolve, Searching
<1>2. c.path # << >> /\ Last(c.path).left = {} /\ calls # << >>
  BY DEF Resolve, Searching, Node
<1>3. c.next = 1 /\ c.scope = {} /\ c.empty = {}
  BY <1>1, <1>2, StillSearching
<1>4. d \in Calls /\ Searched(w, d)
  <2> HIDE DEF c, w
  <2> QED BY <1>1, <1>2, SearchResolves
<1>5. d.of = c.of /\ d.next = 1 /\ d.scope = {} /\ d.empty = {}
  <2> HIDE DEF c
  <2> QED BY <1>1, <1>3 DEF Calls
<1>6. Go(d)
  BY DEF Resolve, Node
<1> HIDE DEF d
<1>7. d.path = << >> => d.order # << >>
  <2>1. <<MatchBody>> # << >>
    OBVIOUS
  <2> QED BY <1>4, <2>1 DEF Searched
<1>8. Evaluated(w, d)
  BY <1>4, <1>5, <1>7, NothingDone
<1> QED BY <1>2, <1>4, <1>5, <1>6, <1>8, GoStep

\* What is known when the turn of a variable has come.
LEMMA VariableTurn ==
  ASSUME RenderInd, Pending
  PROVE  /\ calls # << >> /\ Walk \in Contexts /\ Call \in Calls /\ Call.of \in All(Walk)
         /\ Searched(Walk, Call) /\ Evaluated(Walk, Call) /\ Call.path = << >>
         /\ Call.order[Call.next] # MatchBody
         /\ Var = Variable(Walk, Call.of, Call.order[Call.next])
BY Working DEF Pending, Ordered, Name, Var

\* ... a nested match is begun, ...
LEMMA DescendStep == ASSUME RenderInd, Descend PROVE RenderInd'
<1> DEFINE w == Walk
           t == Inner(w, Var)
           r == Append(calls, Begun(w, t))
<1>1. /\ calls # << >> /\ Pending /\ Nested(w, Var) /\ w \in Contexts /\ Call.path = << >>
      /\ Call.order[Call.next] # MatchBody /\ Var = Turn(w, Call)
  BY VariableTurn DEF Descend, Turn
<1>2. /\ calls \in Seq(Calls) /\ Stacked(w, calls) /\ Len(calls) <= MaxDepth /\ Len(calls) \in Nat
      /\ Call = Last(calls) /\ MaxDepth \in Nat
  BY <1>1, Working, RenderingConstants DEF Call
<1>3. CASE Len(calls) = MaxDepth /\ Return("overflow")
  <2>1. PICK u \in All(w) : u \in Inside(Parts(w), u)
    <3> HIDE DEF w
    <3> QED BY <1>1, <1>2, <1>3, DeepIsSelfish
  <2>2. Exact("overflow", w)
    <3> HIDE DEF w
    <3> QED BY <1>1, <2>1, OverflowIsExact
  <2> QED BY <1>1, <1>3, <2>2, ReturnStep DEF Verdicts
<1>4. CASE Len(calls) # MaxDepth /\ calls' = r /\ UNCHANGED <<walk, result>>
  <2>1. Waits(w, Last(calls), t)
    BY <1>1, <1>2 DEF Waits
  <2>2. r \in Seq(Calls) /\ Stacked(w, r)
    <3> HIDE DEF w, t
    <3> QED BY <1>1, <1>2, <2>1, StackGrows
  <2>3. Len(r) = Len(calls) + 1
    <3> DEFINE b == Begun(w, t)
    <3> HIDE DEF b
    <3> QED BY <1>2
  <2> HIDE DEF r
  <2>4. Len(r) <= MaxDepth
    BY <1>2, <1>4, <2>3
  <2> QED BY <1>1, <1>4, <2>2, <2>4, StackChanges
<1> QED BY <1>3, <1>4 DEF Descend

\* ... a variable without an extension is passed over, ...
LEMMA SkipStep == ASSUME RenderInd, Skip PROVE RenderInd'
<1> DEFINE w == Walk
           c == Call
           d == [c EXCEPT !.next = @ + 1]
<1>1. /\ calls # << >> /\ w \in Contexts /\ c \in Calls /\ Searched(w, c) /\ Evaluated(w, c)
      /\ c.path = << >> /\ c.order[c.next] # MatchBody
      /\ Variable(w, c.of, c.order[c.next]).kind \in Valueless /\ Go(d)
  BY VariableTurn DEF Skip, Valueless
<1>2. d \in Calls /\ Searched(w, d) /\ Evaluated(w, d)
  <2> HIDE DEF w, c
  <2> QED BY <1>1, SkipEvaluated
<1>3. d.of = c.of
  <2> HIDE DEF c
  <2> QED BY <1>1 DEF Calls
<1> HIDE DEF d
<1> QED BY <1>1, <1>2, <1>3, GoStep

\* ... a variable is evaluated, ...
LEMMA EvaluateStep == ASSUME RenderInd, Evaluate PROVE RenderInd'
<1> DEFINE w == Walk
           c == Call
           v == Var
           n == c.order[c.next]
<1>1. /\ calls # << >> /\ w \in Contexts /\ c \in Calls /\ c.of \in All(w)
      /\ Searched(w, c) /\ Evaluated(w, c) /\ c.path = << >> /\ c.order[c.next] # MatchBody
      /\ v = Variable(w, c.of, c.order[c.next]) /\ v.kind \notin Valueless /\ ~Nested(w, v)
  BY VariableTurn DEF Evaluate, Valueless
<1>2. CASE (v.kind \in {"match", "fails"} \/ ~(v.reads \subseteq c.scope)) /\ Return("error")
  <2>1. v.kind \notin {"plain", "empty"} \/ ~(v.reads \subseteq c.scope)
    BY <1>2
  <2>2. c.of \notin Fit(w)
    <3> HIDE DEF w, c, v
    <3> QED BY <1>1, <2>1, WrongVariable
  <2>3. Exact("error", w)
    <3> HIDE DEF w, c, v
    <3> QED BY <1>1, <2>2, ErrorIsExact
  <2> QED BY <1>1, <1>2, <2>3, ReturnStep DEF Verdicts
<1>3. CASE v.kind = "aborts" /\ Return("aborted")
  <2>1. c.of \notin Fit(w)
    <3>1. v.kind \notin {"plain", "empty"}
      BY <1>3
    <3> HIDE DEF w, c, v
    <3> QED BY <1>1, <3>1, WrongVariable
  <2>2. <<c.of, n>> \in Found(w) /\ Variable(w, c.of, n).kind = "aborts"
    <3>1. n \in Needed(w, c.of) /\ IsNode(w, c.of, n) /\ c.of \in Templates
      <4> HIDE DEF w, c, v
      <4> QED BY <1>1, PendingIs, AllIs DEF n
    <3> HIDE DEF w, c
    <3> QED BY <1>1, <1>3, <3>1, FoundIs
  <2>3. Exact("aborted", w)
    <3> HIDE DEF w, c, v, n
    <3> QED BY <1>1, <2>1, <2>2, AbortIsExact
  <2> QED BY <1>1, <1>3, <2>3, ReturnStep DEF Verdicts
<1>4. CASE v.kind \in {"plain", "empty"} /\ v.reads \subseteq c.scope /\ Go(Valued(c, v.kind = "empty"))
  <2> DEFINE e == v.kind = "empty"
             d == Valued(c, e)
  <2>1. e <=> Unlettered(w, v)
    BY <1>1 DEF Unlettered
  <2>2. d \in Calls /\ Searched(w, d) /\ Evaluated(w, d)
    <3> HIDE DEF w, c, v, e
    <3> QED BY <1>1, <1>4, <2>1, ValueEvaluated
  <2>3. d.of = c.of
    <3> HIDE DEF c, v, e
    <3> QED BY <1>1 DEF Calls, Valued
  <2>4. Go(d)
    BY <1>4
  <2> HIDE DEF d
  <2> QED BY <1>1, <2>2, <2>3, <2>4, GoStep
<1>5. v.kind \in {"plain", "empty", "fails", "aborts", "match"}
  <2>1. v \in Variables
    <3> HIDE DEF w, c, v
    <3> QED BY <1>1, PendingIs DEF n
  <2>2. v.kind \in Kinds
    <3> HIDE DEF v
    <3> QED BY <2>1 DEF Variables
  <2> QED BY <1>1, <2>2 DEF Kinds, Valueless
<1>6. \/ (v.kind \in {"match", "fails"} \/ ~(v.reads \subseteq c.scope)) /\ Return("error")
      \/ v.kind = "aborts" /\ Return("aborted")
      \/ v.kind \in {"plain", "empty"} /\ v.reads \subseteq c.scope /\ Go(Valued(c, v.kind = "empty"))
  BY <1>5 DEF Evaluate
<1> QED BY <1>2, <1>3, <1>4, <1>6

\* ... and a body is filled in.
LEMMA FillStep == ASSUME RenderInd, FillIn PROVE RenderInd'
<1> DEFINE w == Walk
           c == Call
           t == c.of
           uses == Library[t].uses
           L == Len(calls)
<1>1. /\ calls # << >> /\ w \in Contexts /\ calls \in Seq(Calls) /\ Stacked(w, calls)
      /\ L <= MaxDepth /\ L \in DOMAIN calls /\ L \in Nat /\ L > 0 /\ DOMAIN calls = 1..L
      /\ c = calls[L] /\ c \in Calls /\ t \in All(w) /\ t \in Templates
      /\ Searched(w, c) /\ Evaluated(w, c) /\ c.path = << >> /\ c.order[c.next] = MatchBody
  BY Working DEF FillIn, Ordered, Name
<1>2. CASE ~(uses \subseteq c.scope) /\ Return("error")
  <2>1. t \notin Fit(w)
    <3>1. \A n : n \in c.scope <=> <<t, n>> \in Given(w)
      <4> HIDE DEF w, c
      <4> QED BY <1>1, ScopeIsGiven
    <3> HIDE DEF w, c
    <3> QED BY <1>2, <3>1 DEF Fit
  <2>2. Exact("error", w)
    <3> HIDE DEF w, t
    <3> QED BY <1>1, <2>1, ErrorIsExact
  <2> QED BY <1>1, <1>2, <2>2, ReturnStep DEF Verdicts
<1>3. ASSUME uses \subseteq c.scope PROVE Empty <=> t \notin Inked(w)
  <2>1. ~Library[t].text /\ uses \subseteq c.empty <=> t \notin Inked(w)
    <3> HIDE DEF w, c
    <3> QED BY <1>1, <1>3, BodyIsEmpty
  <2> QED BY <2>1 DEF Empty
<1>4. CASE uses \subseteq c.scope /\ w.style = "capital" /\ Empty /\ Return("panic")
  <2>1. Exact("panic", w)
    <3>1. t \notin Inked(w)
      BY <1>3, <1>4
    <3> HIDE DEF w, t
    <3> QED BY <1>1, <1>4, <3>1, PanicIsExact
  <2> QED BY <1>1, <1>4, <2>1, ReturnStep DEF Verdicts
<1>5. ASSUME uses \subseteq c.scope, ~(w.style = "capital" /\ Empty) PROVE Good(w, t)
  <2>1. w.style = "capital" => t \in Inked(w)
    BY <1>3, <1>5
  <2> HIDE DEF w, c
  <2> QED BY <1>1, <1>5, <2>1, BodyIsGood
<1>6. CASE uses \subseteq c.scope /\ ~(w.style = "capital" /\ Empty) /\ L = 1 /\ Return("success")
  <2>1. t = w.of
    BY <1>1, <1>6 DEF Stacked
  <2>2. Exact("success", w)
    <3>1. Good(w, w.of)
      BY <1>5, <1>6, <2>1
    <3> HIDE DEF w
    <3> QED BY <1>1, <3>1, SuccessIsExact
  <2> QED BY <1>1, <1>6, <2>2, ReturnStep DEF Verdicts
<1>7. CASE /\ uses \subseteq c.scope /\ ~(w.style = "capital" /\ Empty) /\ L # 1
           /\ calls' = Append(SubSeq(calls, 1, L - 2), Valued(calls[L - 1], Empty))
           /\ UNCHANGED <<walk, result>>
  <2> DEFINE s == calls
             b == s[L - 1]
             v == Turn(w, b)
             d == Valued(b, Empty)
             g == SubSeq(s, 1, L - 2)
             r == Append(g, d)
  <2>1. L - 1 \in DOMAIN s /\ L - 1 + 1 = L /\ L - 2 \in Nat
    BY <1>1, <1>7
  <2>2. b \in Calls /\ Searched(w, b) /\ Evaluated(w, b) /\ Waits(w, b, t)
    <3> DEFINE m == L - 1
    <3>1. m \in DOMAIN s /\ m + 1 \in DOMAIN s /\ s[m + 1] = c
      BY <1>1, <2>1
    <3>2. s[m] \in Calls
      BY <1>1, <3>1
    <3> HIDE DEF m, c, w, s
    <3>3. Stacked(w, s)
      BY <1>1 DEF s
    <3>4. Searched(w, s[m]) /\ Evaluated(w, s[m]) /\ Waits(w, s[m], s[m + 1].of)
      BY <3>1, <3>3 DEF Stacked
    <3> QED BY <3>1, <3>2, <3>4 DEF m
  <2>3. /\ b.path = << >> /\ b.order[b.next] # MatchBody /\ Nested(w, v) /\ Inner(w, v) = t
        /\ v = Variable(w, b.of, b.order[b.next]) /\ v.kind = "match"
    BY <2>2 DEF Waits, Turn, Nested
  <2>4. Good(w, Inner(w, v)) /\ v.kind \notin Valueless /\ (Empty <=> Unlettered(w, v))
    BY <1>3, <1>5, <1>7, <2>3 DEF Valueless, Unlettered
  <2>5. d \in Calls /\ Searched(w, d) /\ Evaluated(w, d)
    <3> HIDE DEF w, b, v, t
    <3> QED BY <1>1, <2>2, <2>3, <2>4, ValueEvaluated
  <2>6. d.of = b.of
    <3> HIDE DEF b
    <3> QED BY <2>2 DEF Calls, Valued
  <2>7. g \in Seq(Calls) /\ Len(g) = L - 2 /\ \A k \in 1..L - 2 : g[k] = s[k]
    <3>1. \A k \in 1..L - 2 : s[k] \in Calls
      BY <1>1, <2>1
    <3>2. 1 \in Int /\ L - 2 \in Int
      BY <2>1
    <3>3. /\ g \in Seq(Calls) /\ Len(g) = IF 1 <= L - 2 THEN L - 2 - 1 + 1 ELSE 0
          /\ \A k \in 1..L - 2 - 1 + 1 : g[k] = s[1 + k - 1]
      BY <3>1, <3>2, SubSeqProperties
    <3> HIDE DEF g, s, L
    <3>4. Len(g) = L - 2 /\ L - 2 - 1 + 1 = L - 2
      BY <2>1, <3>3
    <3>5. \A k \in 1..L - 2 : 1 + k - 1 = k
      BY <2>1
    <3> QED BY <3>3, <3>4, <3>5
  <2>8. /\ r \in Seq(Calls) /\ Len(r) = L - 1 /\ r[L - 1] = d
        /\ \A k \in 1..L - 1 : k # L - 1 => r[k] = s[k]
    <3> HIDE DEF g, d, s, L
    <3>1. /\ r \in Seq(Calls) /\ Len(r) = Len(g) + 1 /\ r[Len(g) + 1] = d
          /\ \A k \in 1..Len(g) : r[k] = g[k]
      BY <2>5, <2>7, AppendIs
    <3>2. Len(g) + 1 = L - 1
      BY <2>1, <2>7
    <3>3. \A k \in 1..L - 1 : k # L - 1 => k \in 1..L - 2 /\ k \in 1..Len(g)
      BY <2>1, <2>7
    <3> QED BY <2>7, <3>1, <3>2, <3>3
  <2>9. Stacked(w, r)
    <3> DEFINE m == L - 1
    <3>1. /\ m \in DOMAIN s /\ Len(r) = m /\ r[m] = d /\ d.of = s[m].of
          /\ \A k \in 1..m : k # m => r[k] = s[k]
      BY <2>1, <2>6, <2>8
    <3>2. s \in Seq(Calls) /\ Stacked(w, s)
      BY <1>1
    <3> HIDE DEF r, s, d, w, m
    <3> QED BY <1>1, <2>5, <2>8, <3>1, <3>2, StackGoesOn
  <2>10. Len(r) <= MaxDepth
    <3>1. MaxDepth \in Nat
      BY RenderingConstants
    <3>2. Len(r) = L - 1
      BY <2>8
    <3> HIDE DEF r, L
    <3>3. L <= MaxDepth
      BY <1>1 DEF L
    <3>4. L \in Nat
      BY <1>1 DEF L
    <3> QED BY <3>1, <3>2, <3>3, <3>4
  <2>11. calls' = r /\ UNCHANGED <<walk, result>>
    BY <1>7
  <2> HIDE DEF r
  <2> QED BY <1>1, <2>8, <2>9, <2>10, <2>11, StackChanges
<1> QED BY <1>2, <1>4, <1>6, <1>7 DEF FillIn

\* Every step of the renderer.
LEMMA RenderStep == ASSUME RenderInd, RenderNext PROVE RenderInd'
BY VisitStep, CloseStep, StartStep, FollowStep, ResolveStep, DescendStep, SkipStep, EvaluateStep,
   FillStep DEF RenderNext

-----------------------------------------------------------------------------
(***************************************************************************)
(* Rendering: what the invariant gives, and the theorems.                  *)
(***************************************************************************)
\* While something is rendered all files of the configuration have been walked through.
LEMMA AllGathered == ASSUME RenderInd PROVE Gathered
<1> SUFFICES ASSUME calls # << >>
             PROVE  /\ Range(Walk.templates) = UNION {Range(Files[f].matches) : f \in FilesOf[Walk.config]}
                    /\ Len(Walk.templates) = Cardinality(Range(Walk.templates))
                    /\ Range(Walk.globals) = UNION {Range(Files[f].globals) : f \in FilesOf[Walk.config]}
  BY DEF Gathered
<1> DEFINE w == Walk
<1>1. w \in Contexts /\ Walked(w) /\ WalkOver(w)
  BY DEF RenderInd, RenderOK, Walk
<1> HIDE DEF w
<1>2. /\ Range(w.templates) = UNION {Range(Files[f].matches) : f \in FilesOf[w.config]}
      /\ Len(w.templates) = Cardinality(Range(w.templates))
      /\ Range(w.globals) = UNION {Range(Files[f].globals) : f \in FilesOf[w.config]}
  BY <1>1, WalkEnds
<1> QED BY <1>2 DEF w

\* What the search has resolved is in an order that all dependencies allow.
LEMMA AllInOrder == ASSUME RenderInd PROVE InOrder
<1> SUFFICES ASSUME calls # << >>, Library[Call.of].uses # {} PROVE InOrder
  BY DEF InOrder
<1> DEFINE w == Walk
           t == Call.of
           o == Call.order
           local == Locals(w, t)
           Before(m, n) == \E j, k \in DOMAIN o : j < k /\ o[j] = m /\ o[k] = n
<1>1. w \in Contexts /\ t \in Templates /\ o \in Seq(Nodes) /\ Resolved(w, t, o)
  BY Working DEF Calls, Searched
<1> HIDE DEF w, t, o
<1>2. \A n \in Range(o) : \A m \in Deps(w, t, n) : Before(m, n)
  <2> SUFFICES ASSUME NEW k \in DOMAIN o, NEW m \in Deps(w, t, o[k]) PROVE Before(m, o[k])
    BY DEF Range
  <2> QED BY <1>1 DEF Resolved
<1>3. \A j, k \in DOMAIN local :
        j < k /\ local[k].name \in Range(o) => Before(local[j].name, local[k].name)
  BY <1>1, LocalsInOrder
<1>4. Len(o) = Cardinality(Range(o))
  BY <1>1, NoRepetitions DEF Resolved
<1> QED BY <1>2, <1>3, <1>4 DEF InOrder, w, t, o

\* Every rendering under way uses what was resolved; what it searches for is not.
LEMMA StackIsSound ==
  ASSUME RenderInd, NEW d \in DOMAIN calls
  PROVE  /\ calls[d].scope \subseteq Range(calls[d].order)
         /\ \A k \in DOMAIN calls[d].path :
              calls[d].path[k].name \in calls[d].seen \ Range(calls[d].order)
<1> DEFINE w == Walk
           c == calls[d]
<1>1. calls # << >>
  OBVIOUS
<1>2. calls \in Seq(Calls) /\ Stacked(w, calls)
  BY <1>1, Working
<1>3. c \in Calls /\ Searched(w, c) /\ Evaluated(w, c)
  BY <1>2 DEF Stacked
<1> HIDE DEF c, w
<1>4. c.scope \subseteq Range(c.order)
  <2>1. CASE c.path = << >>
    <3> DEFINE x == c.next
               o == c.order
    <3>1. x \in DOMAIN o /\ o \in Seq(Nodes) /\ c.scope \subseteq {o[j] : j \in 1..x - 1}
      BY <1>3, <2>1 DEF Evaluated, Done, Calls
    <3> HIDE DEF x, o
    <3>2. 1..x - 1 \subseteq DOMAIN o
      BY <3>1
    <3>3. {o[j] : j \in 1..x - 1} \subseteq Range(o)
      BY <3>2 DEF Range
    <3> QED BY <3>1, <3>3 DEF o
  <2>2. CASE c.path # << >>
    BY <1>3, <2>2, StillSearching
  <2> QED BY <2>1, <2>2
<1>5. \A k \in DOMAIN c.path : c.path[k].name \in c.seen \ Range(c.order)
  <2>1. CASE Library[c.of].uses = {}
    BY <1>3, <2>1 DEF Searched
  <2>2. CASE Library[c.of].uses # {}
    BY <1>3, <2>2 DEF Searched, Descending, OnPath
  <2> QED BY <2>1, <2>2
<1> QED BY <1>4, <1>5 DEF c

\* The invariant implies the properties.
LEMMA RenderIsSound == ASSUME RenderInd PROVE RenderSound /\ VerdictExact
<1>1. Len(walk) <= 1 /\ (calls # << >> => walk # << >>) /\ Len(calls) <= MaxDepth
  <2>1. CASE walk = << >>
    BY <2>1 DEF RenderInd, RenderOK
  <2>2. CASE walk # << >>
    <3>1. walk = <<walk[1]>>
      BY <2>2 DEF RenderInd, RenderOK
    <3>2. Len(<<walk[1]>>) = 1
      OBVIOUS
    <3>3. Len(walk) = 1
      BY <3>1, <3>2
    <3> QED BY <2>2, <3>3 DEF RenderInd, RenderOK
  <2> QED BY <2>1, <2>2
<1>2. result.verdict \in {"none", "success", "aborted", "error", "overflow", "panic"}
  <2>1. CASE result = NoResult
    BY <2>1 DEF NoResult
  <2>2. CASE result # NoResult
    BY <2>2 DEF RenderInd, RenderOK, Verdicts
  <2> QED BY <2>1, <2>2
<1>3. Gathered /\ InOrder
  BY AllGathered, AllInOrder
<1>4. VerdictExact
  <2> SUFFICES ASSUME result # NoResult PROVE Exact(result.verdict, result.of)
    BY DEF VerdictExact
  <2>1. PICK v \in Verdicts, w \in Contexts : result = [verdict |-> v, of |-> w] /\ Exact(v, w)
    BY DEF RenderInd, RenderOK
  <2>2. result.verdict = v /\ result.of = w
    BY <2>1
  <2> QED BY <2>1, <2>2
<1> QED BY <1>1, <1>2, <1>3, <1>4, StackIsSound DEF RenderSound

-----------------------------------------------------------------------------
\* What a step of the engine and its renderer does to a rendering.
LEMMA RenderingGoesOn == ASSUME RenderInd, job.ids \subseteq Ids, LoopNext PROVE RenderInd'
<1>1. CASE NotRendering
  BY <1>1 DEF NotRendering, RenderInd, renderVars
<1>2. CASE AskRenderer
  <2>1. PICK i \in job.ids, c \in Configs, s \in {"none", "capital"} : Request(i, c, s)
    BY <1>2 DEF AskRenderer
  <2>2. i \in Templates
    BY <2>1, EngineLoopConstants
  <2> QED BY <2>1, <2>2, RequestStep
<1>3. CASE Render
  BY <1>3, RenderStep DEF Render
<1>4. CASE Answer
  <2>1. UNCHANGED <<walk, calls>> /\ result' = NoResult
    BY <1>4 DEF Answer
  <2>2. RenderOK(walk, calls, NoResult)
    BY DEF RenderInd, RenderOK
  <2> QED BY <2>1, <2>2 DEF RenderInd
<1> QED BY <1>1, <1>2, <1>3, <1>4 DEF LoopNext

\* The invariant holds of every run of the engine with its renderer.
LEMMA RenderingKept == LoopSpec => []RenderInd
<1>1. LoopInit => RenderInd
  BY RenderStarts DEF LoopInit
<1>2. RenderInd /\ TypingSound /\ [LoopNext]_loopVars => RenderInd'
  <2>1. TypingSound => job.ids \subseteq Ids
    BY DEF TypingSound
  <2>2. UNCHANGED loopVars => (RenderInd => RenderInd')
    BY DEF RenderInd, loopVars, renderVars
  <2> QED BY <2>1, <2>2, RenderingGoesOn
<1> QED BY <1>1, <1>2, TypingIsSound, PTL DEF LoopSpec

\* The engine and its renderer are sound: besides what holds of the keys and of the text,
\* a rendering has walked through every file that the configuration reaches and taken what
\* is in each once; whatever order the search takes, a variable comes after all that it
\* depends on; and as many renderings are under way as there is room for (renderer/mod.rs,
\* renderer/resolve.rs, matches/store/default.rs).
THEOREM LoopIsSound == LoopSpec => []LoopSound
<1>1. RenderInd => RenderSound
  BY RenderIsSound
<1> QED BY <1>1, RenderingKept, TypingIsSound, PTL DEF LoopSound

\* Whether a body can be made is decided by the match, the configuration and the case: the
\* renderer makes it just when nothing that it needs is missing or goes in a circle and no
\* match is inside itself, whatever order the search takes; what is aborted has a variable
\* that aborts, and the stack overflows only for a match that is inside itself.
THEOREM VerdictIsExact == LoopSpec => []VerdictExact
<1>1. RenderInd => VerdictExact
  BY RenderIsSound
<1> QED BY <1>1, RenderingKept, PTL
=============================================================================
