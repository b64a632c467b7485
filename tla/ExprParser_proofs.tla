-------------------------- MODULE ExprParser_proofs --------------------------
(***************************************************************************)
(* Proofs about ExprParser, for any tokens, variables and functions.       *)
(***************************************************************************)
EXTENDS ExprParser, SequenceLemmas, FiniteSetTheorems

(* Code runs instruction by instruction.                                   *)

Computation(f, m, code) ==
    f = [k \in 0 .. Len(code) |-> IF k = 0 THEN m ELSE Execute(f[k - 1], code[k])]

Reaches(m, code, n) == \E f : Computation(f, m, code) /\ f[Len(code)] = n

LEMMA RunEndsThere ==
    ASSUME NEW stack, NEW code, Len(code) \in Nat, NEW n, Reaches(Machine(stack, << >>), code, n)
    PROVE  Run(stack, code) = n.stack
<1> DEFINE m == Machine(stack, << >>)
           l == Len(code)
           h == CHOOSE h : h = [k \in 0 .. l |-> IF k = 0 THEN m ELSE Execute(h[k - 1], code[k])]
<1>1. PICK f : Computation(f, m, code) /\ f[l] = n
  BY DEF Reaches
<1>2. f = [k \in 0 .. l |-> IF k = 0 THEN m ELSE Execute(f[k - 1], code[k])]
  BY <1>1 DEF Computation
<1>3. h = [k \in 0 .. l |-> IF k = 0 THEN m ELSE Execute(h[k - 1], code[k])]
  BY <1>2
<1>4. Run(stack, code) = h[l].stack
  BY DEF Run
<1> HIDE DEF h, l, m
<1>5. l \in Nat
  BY DEF l
<1> DEFINE S == {k \in Nat : k <= l => h[k] = f[k]}
<1>6. 0 \in S
  <2>1. 0 \in 0 .. l
    BY <1>5
  <2> QED BY <1>2, <1>3, <2>1
<1>7. ASSUME NEW k \in Nat, k \in S PROVE k + 1 \in S
  <2> SUFFICES ASSUME k + 1 <= l PROVE h[k + 1] = f[k + 1]
    OBVIOUS
  <2>1. k + 1 \in 0 .. l /\ k + 1 # 0 /\ (k + 1) - 1 = k /\ h[k] = f[k]
    BY <1>5, <1>7
  <2>2. f[k + 1] = Execute(f[k], code[k + 1])
    BY <1>2, <2>1
  <2>3. h[k + 1] = Execute(h[k], code[k + 1])
    BY <1>3, <2>1
  <2> QED BY <2>1, <2>2, <2>3
<1> HIDE DEF S
<1>8. l \in S
  BY <1>5, <1>6, <1>7, Induction
<1> QED BY <1>1, <1>4, <1>5, <1>8 DEF S

LEMMA ReachesByNothing ==
    ASSUME NEW m
    PROVE  Reaches(m, << >>, m)
<1> DEFINE f == [k \in 0 .. 0 |-> m]
<1>1. Len(<< >>) = 0
  OBVIOUS
<1>2. Computation(f, m, << >>) /\ f[0] = m
  BY <1>1 DEF Computation
<1> QED BY <1>1, <1>2 DEF Reaches

LEMMA ReachesByOne ==
    ASSUME NEW m, NEW i
    PROVE  Reaches(m, <<i>>, Execute(m, i))
<1> DEFINE f == [k \in 0 .. 1 |-> IF k = 0 THEN m ELSE Execute(m, i)]
<1>1. Len(<<i>>) = 1 /\ <<i>>[1] = i
  OBVIOUS
<1>2. f[0] = m /\ f[1] = Execute(m, i)
  OBVIOUS
<1>3. ASSUME NEW k \in 0 .. 1 PROVE f[k] = IF k = 0 THEN m ELSE Execute(f[k - 1], <<i>>[k])
  <2>1. CASE k = 0
    BY <2>1
  <2>2. CASE k = 1
    BY <1>1, <1>2, <2>2
  <2> QED BY <2>1, <2>2
<1> DEFINE g == [k \in 0 .. 1 |-> IF k = 0 THEN m ELSE Execute(f[k - 1], <<i>>[k])]
<1>4. f = g
  BY <1>3
<1>5. Computation(f, m, <<i>>)
  BY <1>1, <1>4 DEF Computation
<1> QED BY <1>1, <1>2, <1>5 DEF Reaches

LEMMA ReachesInTurn ==
    ASSUME NEW S, NEW c \in Seq(S), NEW d \in Seq(S), NEW m, NEW n, NEW o,
           Reaches(m, c, n), Reaches(n, d, o)
    PROVE  Reaches(m, c \o d, o)
<1> DEFINE e == c \o d
           l == Len(c)
<1>1. PICK f : Computation(f, m, c) /\ f[l] = n
  BY DEF Reaches
<1>2. PICK g : Computation(g, n, d) /\ g[Len(d)] = o
  BY DEF Reaches
<1>3. f = [k \in 0 .. l |-> IF k = 0 THEN m ELSE Execute(f[k - 1], c[k])]
  BY <1>1 DEF Computation
<1>4. g = [k \in 0 .. Len(d) |-> IF k = 0 THEN n ELSE Execute(g[k - 1], d[k])]
  BY <1>2 DEF Computation
<1>5. /\ l \in Nat /\ Len(d) \in Nat /\ Len(e) = l + Len(d)
      /\ \A k \in 1 .. l + Len(d) : e[k] = IF k <= l THEN c[k] ELSE d[k - l]
  BY LenProperties, ConcatProperties
<1> HIDE DEF e, l
<1> DEFINE h == [k \in 0 .. Len(e) |-> IF k <= l THEN f[k] ELSE g[k - l]]
<1>6. ASSUME NEW k \in 0 .. Len(e) PROVE h[k] = IF k = 0 THEN m ELSE Execute(h[k - 1], e[k])
  <2>1. CASE k = 0
    <3>1. h[k] = f[0] /\ 0 \in 0 .. l
      BY <1>5, <2>1
    <3> QED BY <1>3, <2>1, <3>1
  <2>2. CASE k # 0 /\ k <= l
    <3>1. k \in 0 .. l /\ k - 1 \in 0 .. Len(e) /\ k - 1 <= l /\ k \in 1 .. l + Len(d)
      BY <1>5, <2>2
    <3>2. h[k] = f[k] /\ h[k - 1] = f[k - 1] /\ e[k] = c[k]
      BY <1>5, <2>2, <3>1
    <3>3. f[k] = Execute(f[k - 1], c[k])
      BY <1>3, <2>2, <3>1
    <3> QED BY <2>2, <3>2, <3>3
  <2>3. CASE ~(k <= l)
    <3>1. /\ k - l \in 0 .. Len(d) /\ k - l # 0 /\ k - 1 \in 0 .. Len(e) /\ k \in 1 .. l + Len(d)
          /\ (k - l) - 1 = (k - 1) - l
      BY <1>5, <2>3
    <3>2. h[k] = g[k - l] /\ e[k] = d[k - l]
      BY <1>5, <2>3, <3>1
    <3>3. g[k - l] = Execute(g[(k - 1) - l], d[k - l])
      BY <1>4, <3>1
    <3>4. h[k - 1] = g[(k - 1) - l]
      <4>1. CASE k - 1 <= l
        <5>1. k - 1 = l /\ (k - 1) - l = 0 /\ 0 \in 0 .. Len(d)
          BY <1>5, <2>3, <4>1
        <5>2. h[k - 1] = f[l]
          BY <3>1, <4>1, <5>1
        <5>3. g[0] = n
          BY <1>4, <5>1
        <5> QED BY <1>1, <5>1, <5>2, <5>3
      <4>2. CASE ~(k - 1 <= l)
        BY <3>1, <4>2
      <4> QED BY <4>1, <4>2
    <3>5. k # 0
      BY <1>5, <2>3
    <3> QED BY <3>2, <3>3, <3>4, <3>5
  <2> QED BY <2>1, <2>2, <2>3
<1>7. h[Len(e)] = o
  <2>1. Len(e) \in 0 .. Len(e)
    BY <1>5
  <2>2. CASE Len(d) = 0
    <3>1. Len(e) = l /\ 0 \in 0 .. Len(d)
      BY <1>5, <2>2
    <3>2. g[0] = n
      BY <1>4, <3>1
    <3> QED BY <1>1, <1>2, <1>5, <2>1, <2>2, <3>1, <3>2
  <2>3. CASE Len(d) # 0
    <3>1. ~(Len(e) <= l) /\ Len(e) - l = Len(d)
      BY <1>5, <2>3
    <3> QED BY <1>2, <2>1, <3>1
  <2> QED BY <2>2, <2>3
<1>8. Computation(h, m, e)
  <2> DEFINE r == [k \in 0 .. Len(e) |-> IF k = 0 THEN m ELSE Execute(h[k - 1], e[k])]
  <2>1. h = r
    BY <1>6
  <2> QED BY <2>1 DEF Computation
<1> QED BY <1>7, <1>8 DEF Reaches, e
-----------------------------------------------------------------------------
(* One instruction, which finds its operands on the top.                   *)

\* With these types on the top, the code leaves those in their place.
Computes(takes, code, leaves) ==
    \A w \in Seq(Types) : \A temps : \E after :
        Reaches(Machine(takes \o w, temps), code, Machine(leaves \o w, after))

\* So does one instruction, and nothing else.
Executes(takes, i, leaves) ==
    \A w \in Seq(Types) : \A temps :
        Execute(Machine(takes \o w, temps), i) = Machine(leaves \o w, temps)

\* The code leaves the temporaries alone.
Works(takes, code, leaves) ==
    \A w \in Seq(Types) : \A temps :
        Reaches(Machine(takes \o w, temps), code, Machine(leaves \o w, temps))

LEMMA RewriteTop ==
    ASSUME NEW takes \in Seq(Types), NEW leaves, NEW w \in Seq(Types), NEW temps
    PROVE  Rewrite(Machine(takes \o w, temps), takes, leaves) = Machine(leaves \o w, temps)
<1> DEFINE m == Machine(takes \o w, temps)
<1>1. m.stack = takes \o w /\ m.temps = temps
  BY DEF Machine
<1> HIDE DEF m
<1>2. Rewrite(m, takes, leaves) = Machine(leaves \o SubSeq(m.stack, Len(takes) + 1, Len(m.stack)), m.temps)
  BY DEF Rewrite
<1>3. SubSeq(takes \o w, Len(takes) + 1, Len(takes \o w)) = w
  BY FrontAndRest
<1>4. Rewrite(m, takes, leaves) = Machine(leaves \o w, temps)
  BY <1>1, <1>2, <1>3
<1> QED BY <1>4 DEF m

\* Which of the signatures is meant, the operands tell.
Means(op, takes, leaves) ==
    /\ op \notin {"PUSHS", "POPS", "CALL"} /\ takes \in Seq(Types)
    /\ <<takes, leaves>> \in Signatures(op)
    /\ \A s \in Signatures(op) : /\ s[1] \in Seq(Types) /\ Len(s[1]) = Len(takes)
                                 /\ s[1] = takes => s[2] = leaves

LEMMA InstructionExecutes ==
    ASSUME NEW op, NEW takes, NEW leaves, Means(op, takes, leaves)
    PROVE  Executes(takes, <<op>>, leaves)
<1> SUFFICES ASSUME NEW w \in Seq(Types), NEW temps
             PROVE  Execute(Machine(takes \o w, temps), <<op>>) = Machine(leaves \o w, temps)
  BY DEF Executes
<1> DEFINE m == Machine(takes \o w, temps)
           Fits(s) == s \in Signatures(op) /\ IsPrefix(s[1], m.stack)
           meant == CHOOSE s \in Signatures(op) : IsPrefix(s[1], m.stack)
<1>1. m.stuck = FALSE /\ m.stack = takes \o w /\ <<op>>[1] = op
  BY DEF Machine
<1>2. takes \in Seq(Types)
  BY DEF Means
<1>3. \A s \in Signatures(op) : IsPrefix(s[1], m.stack) <=> s[1] = takes
  BY <1>1, <1>2, FrontAndRest DEF Means
<1>4. Fits(<<takes, leaves>>)
  <2>1. <<takes, leaves>>[1] = takes /\ <<takes, leaves>> \in Signatures(op)
    BY DEF Means
  <2> QED BY <1>3, <2>1
<1>5. meant \in Signatures(op) /\ meant[1] = takes
  <2>1. Fits(meant)
    BY <1>4
  <2> QED BY <1>3, <2>1
<1>6. meant[2] = leaves
  BY <1>5 DEF Means
<1>7. Execute(m, <<op>>) = Rewrite(m, meant[1], meant[2])
  <2>1. \E s \in Signatures(op) : IsPrefix(s[1], m.stack)
    BY <1>4
  <2>2. op \notin {"PUSHS", "POPS", "CALL"}
    BY DEF Means
  <2> HIDE DEF m
  <2> QED BY <1>1, <2>1, <2>2 DEF Execute
<1> HIDE DEF meant
<1> QED BY <1>2, <1>5, <1>6, <1>7, RewriteTop

LEMMA Instructions ==
    /\ Executes(<<"INTEGER">>, <<"INT2FLOATS">>, <<"DOUBLE">>)
    /\ \A op \in {"FLOAT2INTS", "FLOAT2R2EINTS"} : Executes(<<"DOUBLE">>, <<op>>, <<"INTEGER">>)
    /\ \A op \in {"ADDS", "SUBS", "MULS"} : \A t \in Numeric : Executes(<<t, t>>, <<op>>, <<t>>)
    /\ Executes(<<"DOUBLE", "DOUBLE">>, <<"DIVS">>, <<"DOUBLE">>)
    /\ \A op \in {"LTS", "GTS", "EQS"} : \A t \in Types : Executes(<<t, t>>, <<op>>, <<"BOOLEAN">>)
    /\ \A op \in {"ANDS", "ORS"} : Executes(<<"BOOLEAN", "BOOLEAN">>, <<op>>, <<"BOOLEAN">>)
    /\ Executes(<<"BOOLEAN">>, <<"NOTS">>, <<"BOOLEAN">>)
    /\ Executes(<<"STRING", "STRING">>, <<"CONCAT">>, <<"STRING">>)
<1>0. /\ \A t \in Types : <<t>> \in Seq(Types) /\ Len(<<t>>) = 1
      /\ \A t, u \in Types : <<t, u>> \in Seq(Types) /\ Len(<<t, u>>) = 2
      /\ "INTEGER" \in Types /\ "DOUBLE" \in Types /\ "STRING" \in Types /\ "BOOLEAN" \in Types
      /\ \A t \in Numeric : t \in Types
  BY DEF Types, Numeric
<1>1. Means("INT2FLOATS", <<"INTEGER">>, <<"DOUBLE">>)
  BY <1>0 DEF Means, Signatures
<1>2. \A op \in {"FLOAT2INTS", "FLOAT2R2EINTS"} : Means(op, <<"DOUBLE">>, <<"INTEGER">>)
  BY <1>0 DEF Means, Signatures
<1>3. ASSUME NEW op \in {"ADDS", "SUBS", "MULS"}, NEW t \in Numeric PROVE Means(op, <<t, t>>, <<t>>)
  <2>1. Signatures(op) = {<< <<u, u>>, <<u>> >> : u \in Numeric}
    BY DEF Signatures
  <2>2. << <<t, t>>, <<t>> >> \in Signatures(op)
    BY <2>1
  <2>3. ASSUME NEW s \in Signatures(op)
        PROVE  s[1] \in Seq(Types) /\ Len(s[1]) = 2 /\ (s[1] = <<t, t>> => s[2] = <<t>>)
    <3>1. PICK u \in Numeric : s[1] = <<u, u>> /\ s[2] = <<u>>
      BY <2>1
    <3> QED BY <1>0, <3>1
  <2> QED BY <1>0, <2>2, <2>3 DEF Means
<1>4. Means("DIVS", <<"DOUBLE", "DOUBLE">>, <<"DOUBLE">>)
  <2>1. Signatures("DIVS") = {<< <<"DOUBLE", "DOUBLE">>, <<"DOUBLE">> >>}
    BY DEF Signatures
  <2>2. << <<"DOUBLE", "DOUBLE">>, <<"DOUBLE">> >> \in Signatures("DIVS")
    BY <2>1
  <2>3. \A s \in Signatures("DIVS") : s[1] = <<"DOUBLE", "DOUBLE">> /\ s[2] = <<"DOUBLE">>
    BY <2>1
  <2> QED BY <1>0, <2>2, <2>3 DEF Means
<1>5. ASSUME NEW op \in {"LTS", "GTS", "EQS"}, NEW t \in Types PROVE Means(op, <<t, t>>, <<"BOOLEAN">>)
  <2>1. Signatures(op) = {<< <<u, u>>, <<"BOOLEAN">> >> : u \in Types}
    BY DEF Signatures
  <2>2. << <<t, t>>, <<"BOOLEAN">> >> \in Signatures(op)
    BY <2>1
  <2>3. ASSUME NEW s \in Signatures(op)
        PROVE  s[1] \in Seq(Types) /\ Len(s[1]) = 2 /\ s[2] = <<"BOOLEAN">>
    <3>1. PICK u \in Types : s[1] = <<u, u>> /\ s[2] = <<"BOOLEAN">>
      BY <2>1
    <3> QED BY <1>0, <3>1
  <2> QED BY <1>0, <2>2, <2>3 DEF Means
<1>6. ASSUME NEW op \in {"ANDS", "ORS"} PROVE Means(op, <<"BOOLEAN", "BOOLEAN">>, <<"BOOLEAN">>)
  <2>1. Signatures(op) = {<< <<"BOOLEAN", "BOOLEAN">>, <<"BOOLEAN">> >>}
    BY DEF Signatures
  <2>2. << <<"BOOLEAN", "BOOLEAN">>, <<"BOOLEAN">> >> \in Signatures(op)
    BY <2>1
  <2>3. \A s \in Signatures(op) : s[1] = <<"BOOLEAN", "BOOLEAN">> /\ s[2] = <<"BOOLEAN">>
    BY <2>1
  <2> QED BY <1>0, <2>2, <2>3 DEF Means
<1>7. Means("NOTS", <<"BOOLEAN">>, <<"BOOLEAN">>)
  BY <1>0 DEF Means, Signatures
<1>8. Means("CONCAT", <<"STRING", "STRING">>, <<"STRING">>)
  <2>1. Signatures("CONCAT") = {<< <<"STRING", "STRING">>, <<"STRING">> >>}
    BY DEF Signatures
  <2>2. << <<"STRING", "STRING">>, <<"STRING">> >> \in Signatures("CONCAT")
    BY <2>1
  <2>3. \A s \in Signatures("CONCAT") : s[1] = <<"STRING", "STRING">> /\ s[2] = <<"STRING">>
    BY <2>1
  <2> QED BY <1>0, <2>2, <2>3 DEF Means
<1> QED BY <1>1, <1>2, <1>3, <1>4, <1>5, <1>6, <1>7, <1>8, InstructionExecutes

LEMMA PushingExecutes ==
    ASSUME NEW t \in Types
    PROVE  Executes(<< >>, <<"PUSHS", t>>, <<t>>)
<1> SUFFICES ASSUME NEW w \in Seq(Types), NEW temps
             PROVE  Execute(Machine(<< >> \o w, temps), <<"PUSHS", t>>) = Machine(<<t>> \o w, temps)
  BY DEF Executes
<1> DEFINE m == Machine(<< >> \o w, temps)
           i == <<"PUSHS", t>>
<1>1. m.stuck = FALSE /\ i[1] = "PUSHS" /\ i[2] = t
  BY DEF Machine
<1> HIDE DEF m, i
<1>2. Execute(m, i) = Rewrite(m, << >>, <<t>>)
  BY <1>1 DEF Execute
<1>3. << >> \in Seq(Types)
  OBVIOUS
<1>4. Rewrite(m, << >>, <<t>>) = Machine(<<t>> \o w, temps)
  <2> DEFINE takes == << >>
             leaves == <<t>>
  <2>1. takes \in Seq(Types) /\ m = Machine(takes \o w, temps)
    BY <1>3 DEF m
  <2> HIDE DEF takes, leaves
  <2>2. Rewrite(m, takes, leaves) = Machine(leaves \o w, temps)
    BY <2>1, RewriteTop
  <2> QED BY <2>2 DEF takes, leaves
<1>5. Execute(m, i) = Machine(<<t>> \o w, temps)
  BY <1>2, <1>4
<1> QED BY <1>5 DEF m, i

Put(temps, name, t) == [x \in DOMAIN temps \cup {name} |-> IF x = name THEN t ELSE temps[x]]

Popping(name) == <<"POPS", name>>
Pushing(name) == <<"PUSHS", name>>

LEMMA Temporaries ==
    ASSUME NEW t, NEW w \in Seq(Types), NEW temps, NEW name
    PROVE  /\ t \in Types =>
                Execute(Machine(<<t>> \o w, temps), Popping(name)) = Machine(w, Put(temps, name, t))
           /\ name \in DOMAIN temps \ Types /\ temps[name] = t =>
                Execute(Machine(w, temps), Pushing(name)) = Machine(<<t>> \o w, temps)
<1> DEFINE m == Machine(<<t>> \o w, temps)
           n == Machine(w, temps)
           i == Popping(name)
           j == Pushing(name)
<1>1. t \in Types => <<t>> \o w # << >> /\ Head(<<t>> \o w) = t /\ Tail(<<t>> \o w) = w
  OBVIOUS
<1>2. /\ ~m.stuck /\ m.stack = <<t>> \o w /\ m.temps = temps
      /\ ~n.stuck /\ n.stack = w /\ n.temps = temps
      /\ i[1] = "POPS" /\ i[2] = name /\ j[1] = "PUSHS" /\ j[2] = name
  BY DEF Machine, Popping, Pushing
<1> HIDE DEF m, n, i, j
<1>3. t \in Types => Execute(m, i) = Machine(w, Put(temps, name, t))
  BY <1>1, <1>2 DEF Execute, Put
<1>4. ASSUME name \in DOMAIN temps \ Types, temps[name] = t PROVE Execute(n, j) = Machine(<<t>> \o w, temps)
  <2>1. Execute(n, j) = Rewrite(n, << >>, <<temps[name]>>)
    BY <1>2, <1>4 DEF Execute
  <2>2. SubSeq(w, Len(<< >>) + 1, Len(w)) = w
    BY SubSeqFull
  <2>3. Rewrite(n, << >>, <<temps[name]>>)
        = Machine(<<temps[name]>> \o SubSeq(n.stack, Len(<< >>) + 1, Len(n.stack)), n.temps)
    BY DEF Rewrite
  <2> QED BY <1>2, <1>4, <2>1, <2>2, <2>3
<1> QED BY <1>3, <1>4 DEF m, n, i, j

LEMMA CallExecutes ==
    ASSUME NEW f \in DOMAIN FuncSig, NEW args \in Seq(Types), Len(args) = Len(FuncSig[f].params),
           \A k \in DOMAIN args : are_types_compatible(args[k], FuncSig[f].params[k])
    PROVE  Executes(Reverse(args), <<"CALL", f>>, <<FuncSig[f].ret>>)
<1> SUFFICES ASSUME NEW w \in Seq(Types), NEW temps
             PROVE  Execute(Machine(Reverse(args) \o w, temps), <<"CALL", f>>)
                    = Machine(<<FuncSig[f].ret>> \o w, temps)
  BY DEF Executes
<1> DEFINE m == Machine(Reverse(args) \o w, temps)
           i == <<"CALL", f>>
           n == Len(args)
           params == Reverse(FuncSig[f].params)
           top == Reverse(args)
           r == FuncSig[f].ret
<1>1. /\ ~m.stuck /\ m.stack = top \o w /\ m.temps = temps
      /\ i[1] = "CALL" /\ i[2] = f
  BY DEF Machine
<1>2. FuncSig[f].params \in Seq(Types)
  BY FuncSigAssumption
<1>3. /\ n \in Nat /\ \A k \in 1 .. n : args[k] \in Types /\ FuncSig[f].params[k] \in Types
      /\ DOMAIN args = 1 .. n
  BY <1>2, LenProperties, ElementOfSeq
<1>4. /\ params = [k \in 1 .. n |-> FuncSig[f].params[(n - k) + 1]]
      /\ top = [k \in 1 .. n |-> args[(n - k) + 1]]
  BY DEF Reverse
<1>5. \A k \in 1 .. n : (n - k) + 1 \in 1 .. n
  BY <1>3
<1>6. params \in Seq(Types) /\ top \in Seq(Types) /\ Len(params) = n /\ Len(top) = n
  <2>1. params \in [1 .. n -> Types] /\ top \in [1 .. n -> Types]
    BY <1>3, <1>4, <1>5
  <2>2. \A s \in [1 .. n -> Types] : s \in Seq(Types) /\ Len(s) = n
    BY <1>3
  <2> HIDE DEF params, top
  <2> QED BY <2>1, <2>2
<1>7. \A k \in 1 .. n : are_types_compatible(top[k], params[k])
  BY <1>3, <1>4, <1>5
<1> HIDE DEF m, i, params, top, n
<1>8. DOMAIN params = 1 .. n /\ Len(top \o w) >= n /\ \A k \in 1 .. n : (top \o w)[k] = top[k]
  <2>0. /\ Len(top \o w) = Len(top) + Len(w)
        /\ \A k \in 1 .. Len(top) + Len(w) : (top \o w)[k] = IF k <= Len(top) THEN top[k] ELSE w[k - Len(top)]
    BY <1>6, ConcatProperties
  <2>1. /\ Len(w) \in Nat /\ Len(top \o w) = n + Len(w)
        /\ \A k \in 1 .. n + Len(w) : (top \o w)[k] = IF k <= n THEN top[k] ELSE w[k - n]
    BY <1>6, <2>0, LenProperties
  <2> QED BY <1>3, <1>6, <2>1, LenProperties
<1>9. Call(m, f) = Rewrite(m, params, <<r>>)
  <2>1. Len(params) <= Len(m.stack) /\ \A k \in DOMAIN params : are_types_compatible(m.stack[k], params[k])
    BY <1>1, <1>3, <1>6, <1>7, <1>8
  <2> QED BY <2>1 DEF Call, params
<1>10. Execute(m, i) = Call(m, f)
  BY <1>1 DEF Execute
<1>11. Rewrite(m, params, <<r>>) = Machine(<<r>> \o w, temps)
  <2>1. Rewrite(m, params, <<r>>) = Machine(<<r>> \o SubSeq(m.stack, Len(params) + 1, Len(m.stack)), m.temps)
    BY DEF Rewrite
  <2>2. SubSeq(top \o w, Len(top) + 1, Len(top \o w)) = w
    BY <1>6, FrontAndRest
  <2> QED BY <1>1, <1>6, <2>1, <2>2
<1> QED BY <1>9, <1>10, <1>11 DEF m, i
-----------------------------------------------------------------------------
(* Code in turn, and on a stack with more below                            *)

Operations == {"INT2FLOATS", "FLOAT2INTS", "FLOAT2R2EINTS", "ADDS", "SUBS", "MULS", "DIVS",
               "LTS", "GTS", "EQS", "ANDS", "ORS", "NOTS", "CONCAT"}
Temporary == {"tmp", "tmp1", "tmp2"}
Instruction ==
    {<<op>> : op \in Operations} \cup {Popping(x) : x \in Temporary}
        \cup {Pushing(x) : x \in Temporary \cup Types} \cup {<<"CALL", f>> : f \in DOMAIN FuncSig}

LEMMA OneWorks ==
    ASSUME NEW x, NEW i, NEW y, Executes(x, i, y)
    PROVE  Works(x, <<i>>, y)
<1>1. ASSUME NEW w \in Seq(Types), NEW temps
      PROVE  Reaches(Machine(x \o w, temps), <<i>>, Machine(y \o w, temps))
  <2>1. Execute(Machine(x \o w, temps), i) = Machine(y \o w, temps)
    BY DEF Executes
  <2>2. Reaches(Machine(x \o w, temps), <<i>>, Execute(Machine(x \o w, temps), i))
    BY ReachesByOne
  <2> QED BY <2>1, <2>2
<1> QED BY <1>1 DEF Works

LEMMA WorksComputes ==
    ASSUME NEW x, NEW c, NEW y, Works(x, c, y)
    PROVE  Computes(x, c, y)
BY DEF Works, Computes

LEMMA NothingWorks == \A x : Works(x, << >>, x)
BY ReachesByNothing DEF Works

LEMMA WorksInTurn ==
    ASSUME NEW c \in Seq(Instruction), NEW d \in Seq(Instruction), NEW x, NEW y, NEW z
    PROVE  /\ Works(x, c, y) /\ Works(y, d, z) => Works(x, c \o d, z)
           /\ Computes(x, c, y) /\ Computes(y, d, z) => Computes(x, c \o d, z)
<1>1. ASSUME Works(x, c, y), Works(y, d, z), NEW w \in Seq(Types), NEW temps
      PROVE  Reaches(Machine(x \o w, temps), c \o d, Machine(z \o w, temps))
  <2>1. Reaches(Machine(x \o w, temps), c, Machine(y \o w, temps))
    BY <1>1 DEF Works
  <2>2. Reaches(Machine(y \o w, temps), d, Machine(z \o w, temps))
    BY <1>1 DEF Works
  <2> QED BY <2>1, <2>2, ReachesInTurn
<1>2. ASSUME Computes(x, c, y), Computes(y, d, z), NEW w \in Seq(Types), NEW temps
      PROVE  \E after : Reaches(Machine(x \o w, temps), c \o d, Machine(z \o w, after))
  <2>1. PICK between : Reaches(Machine(x \o w, temps), c, Machine(y \o w, between))
    BY <1>2 DEF Computes
  <2>2. PICK after : Reaches(Machine(y \o w, between), d, Machine(z \o w, after))
    BY <1>2 DEF Computes
  <2>3. Reaches(Machine(x \o w, temps), c \o d, Machine(z \o w, after))
    BY <2>1, <2>2, ReachesInTurn
  <2> QED BY <2>3
<1>3. Works(x, c, y) /\ Works(y, d, z) => Works(x, c \o d, z)
  BY <1>1 DEF Works
<1>4. Computes(x, c, y) /\ Computes(y, d, z) => Computes(x, c \o d, z)
  BY <1>2 DEF Computes
<1> QED BY <1>3, <1>4

LEMMA WorksAbove ==
    ASSUME NEW x \in Seq(Types), NEW y \in Seq(Types), NEW u \in Seq(Types), NEW c, Works(x, c, y)
    PROVE  Works(x \o u, c, y \o u)
<1>1. ASSUME NEW w \in Seq(Types), NEW temps
      PROVE  Reaches(Machine((x \o u) \o w, temps), c, Machine((y \o u) \o w, temps))
  <2>0. u \o w \in Seq(Types)
    BY ConcatProperties
  <2>1. (x \o u) \o w = x \o (u \o w)
    BY ConcatAssociative
  <2>3. (y \o u) \o w = y \o (u \o w)
    BY ConcatAssociative
  <2>2. Reaches(Machine(x \o (u \o w), temps), c, Machine(y \o (u \o w), temps))
    BY <2>0 DEF Works
  <2> QED BY <2>1, <2>2, <2>3
<1> QED BY <1>1 DEF Works

(* What works on the stack works below its top, which waits in a temporary.*)
LEMMA WorksBelowTop ==
    ASSUME NEW t \in Types, NEW x \in Seq(Types), NEW y \in Seq(Types),
           NEW c \in Seq(Instruction), Works(x, c, y)
    PROVE  BelowTop(c) \in Seq(Instruction) /\ Computes(<<t>> \o x, BelowTop(c), <<t>> \o y)
<1> DEFINE pop == <<Popping("tmp")>>
           push == <<Pushing("tmp")>>
<1>1. /\ pop \in Seq(Instruction) /\ push \in Seq(Instruction) /\ "tmp" \notin Types
      /\ BelowTop(c) = (pop \o c) \o push
  <2>1. Popping("tmp") \in Instruction /\ Pushing("tmp") \in Instruction
    BY DEF Instruction, Temporary
  <2>2. "tmp" \notin Types
    BY DEF Types
  <2>3. BelowTop(c) = (pop \o c) \o push
    BY DEF BelowTop, Popping, Pushing
  <2> QED BY <2>1, <2>2, <2>3
<1>2. pop \o c \in Seq(Instruction)
  BY <1>1, ConcatProperties
<1>3. (pop \o c) \o push \in Seq(Instruction)
  BY <1>1, <1>2, ConcatProperties
<1>4. ASSUME NEW w \in Seq(Types), NEW temps
      PROVE  \E after : Reaches(Machine((<<t>> \o x) \o w, temps), BelowTop(c),
                                Machine((<<t>> \o y) \o w, after))
  <2> DEFINE after == Put(temps, "tmp", t)
             s == x \o w
             v == y \o w
  <2>1. s \in Seq(Types) /\ v \in Seq(Types)
    BY ConcatProperties
  <2>2. (<<t>> \o x) \o w = <<t>> \o s
    <3>1. <<t>> \in Seq(Types)
      OBVIOUS
    <3> QED BY <3>1, ConcatAssociative
  <2>3. (<<t>> \o y) \o w = <<t>> \o v
    <3>1. <<t>> \in Seq(Types)
      OBVIOUS
    <3> QED BY <3>1, ConcatAssociative
  <2>4. "tmp" \in DOMAIN after \ Types /\ after["tmp"] = t
    BY <1>1 DEF Put
  <2>5. Reaches(Machine(s, after), c, Machine(v, after))
    BY DEF Works
  <2> HIDE DEF s, v
  <2>6. Reaches(Machine(<<t>> \o s, temps), pop, Machine(s, after))
    <3>1. Execute(Machine(<<t>> \o s, temps), Popping("tmp")) = Machine(s, after)
      BY <2>1, Temporaries
    <3> QED BY <3>1, ReachesByOne
  <2> HIDE DEF after
  <2>7. Reaches(Machine(v, after), push, Machine(<<t>> \o v, after))
    <3>1. Execute(Machine(v, after), Pushing("tmp")) = Machine(<<t>> \o v, after)
      BY <2>1, <2>4, Temporaries
    <3> QED BY <3>1, ReachesByOne
  <2> HIDE DEF pop, push
  <2>8. Reaches(Machine(<<t>> \o s, temps), pop \o c, Machine(v, after))
    BY <1>1, <2>5, <2>6, ReachesInTurn
  <2>9. Reaches(Machine(<<t>> \o s, temps), (pop \o c) \o push, Machine(<<t>> \o v, after))
    BY <1>1, <1>2, <2>7, <2>8, ReachesInTurn
  <2> QED BY <1>1, <2>2, <2>3, <2>9
<1> QED BY <1>1, <1>3, <1>4 DEF Computes

(* <= and >= keep both operands in temporaries and use them twice.         *)
BothKept(temps, t) ==
    /\ "tmp1" \in DOMAIN temps \ Types /\ temps["tmp1"] = t
    /\ "tmp2" \in DOMAIN temps \ Types /\ temps["tmp2"] = t

Pops == <<Popping("tmp1")>> \o <<Popping("tmp2")>>
Pushes == <<Pushing("tmp2")>> \o <<Pushing("tmp1")>>

LEMMA PopsKeepBoth ==
    ASSUME NEW t \in Types, NEW w \in Seq(Types), NEW temps
    PROVE  \E after : BothKept(after, t) /\ Reaches(Machine(<<t>> \o (<<t>> \o w), temps), Pops, Machine(w, after))
<1> DEFINE one == Put(temps, "tmp1", t)
           two == Put(one, "tmp2", t)
           v == <<t>> \o w
<1>1. BothKept(two, t)
  BY DEF BothKept, Put, Types
<1>2. v \in Seq(Types)
  BY ConcatProperties
<1>3. <<Popping("tmp1")>> \in Seq(Instruction) /\ <<Popping("tmp2")>> \in Seq(Instruction)
  BY DEF Instruction, Temporary
<1> HIDE DEF one, two
<1>4. Execute(Machine(v, one), Popping("tmp2")) = Machine(w, two)
  BY Temporaries DEF two
<1> HIDE DEF v
<1>5. Execute(Machine(<<t>> \o v, temps), Popping("tmp1")) = Machine(v, one)
  BY <1>2, Temporaries DEF one
<1>6. Reaches(Machine(<<t>> \o v, temps), <<Popping("tmp1")>>, Machine(v, one))
  BY <1>5, ReachesByOne
<1>7. Reaches(Machine(v, one), <<Popping("tmp2")>>, Machine(w, two))
  BY <1>4, ReachesByOne
<1>8. Reaches(Machine(<<t>> \o v, temps), Pops, Machine(w, two))
  BY <1>3, <1>6, <1>7, ReachesInTurn DEF Pops
<1> QED BY <1>1, <1>8 DEF v

LEMMA PushesUseBoth ==
    ASSUME NEW t \in Types, NEW w \in Seq(Types), NEW temps, BothKept(temps, t)
    PROVE  Reaches(Machine(w, temps), Pushes, Machine(<<t, t>> \o w, temps))
<1> DEFINE v == <<t>> \o w
<1>1. v \in Seq(Types)
  BY ConcatProperties
<1>2. <<Pushing("tmp1")>> \in Seq(Instruction) /\ <<Pushing("tmp2")>> \in Seq(Instruction)
  BY DEF Instruction, Temporary
<1>3. <<t>> \o v = <<t, t>> \o w
  BY OneOnTheOther
<1>4. Execute(Machine(w, temps), Pushing("tmp2")) = Machine(v, temps)
  BY Temporaries DEF BothKept
<1> HIDE DEF v
<1>5. Execute(Machine(v, temps), Pushing("tmp1")) = Machine(<<t>> \o v, temps)
  BY <1>1, Temporaries DEF BothKept
<1>6. Reaches(Machine(w, temps), <<Pushing("tmp2")>>, Machine(v, temps))
  BY <1>4, ReachesByOne
<1>7. Reaches(Machine(v, temps), <<Pushing("tmp1")>>, Machine(<<t>> \o v, temps))
  BY <1>5, ReachesByOne
<1> QED BY <1>2, <1>3, <1>6, <1>7, ReachesInTurn DEF Pushes

LEMMA OrEqualComputes ==
    ASSUME NEW t \in Types, NEW strict \in {"LTS", "GTS"}
    PROVE  OrEqual(strict) \in Seq(Instruction) /\ Computes(<<t, t>>, OrEqual(strict), <<"BOOLEAN">>)
<1> DEFINE compare == << <<strict>> >>
           equal == << <<"EQS">> >>
           either == << <<"ORS">> >>
           code == ((Pops \o (Pushes \o compare)) \o (Pushes \o equal)) \o either
           B == <<"BOOLEAN">>
<1>1. /\ compare \in Seq(Instruction) /\ equal \in Seq(Instruction) /\ either \in Seq(Instruction)
      /\ Pops \in Seq(Instruction) /\ Pushes \in Seq(Instruction)
  <2>1. <<strict>> \in Instruction /\ <<"EQS">> \in Instruction /\ <<"ORS">> \in Instruction
    BY DEF Instruction, Operations
  <2>2. /\ Popping("tmp1") \in Instruction /\ Popping("tmp2") \in Instruction
        /\ Pushing("tmp1") \in Instruction /\ Pushing("tmp2") \in Instruction
    BY DEF Instruction, Temporary
  <2> QED BY <2>1, <2>2, ConcatProperties DEF Pops, Pushes
<1>2. OrEqual(strict) = code
  BY SMTT(30) DEF OrEqual, Pops, Pushes, Popping, Pushing
<1>3. /\ Pushes \o compare \in Seq(Instruction) /\ Pushes \o equal \in Seq(Instruction)
  BY <1>1, ConcatProperties
<1>4. Pops \o (Pushes \o compare) \in Seq(Instruction)
  BY <1>1, <1>3, ConcatProperties
<1>5. (Pops \o (Pushes \o compare)) \o (Pushes \o equal) \in Seq(Instruction)
  BY <1>3, <1>4, ConcatProperties
<1>6. code \in Seq(Instruction)
  BY <1>1, <1>5, ConcatProperties
<1>7. Works(<<t, t>>, compare, B) /\ Works(<<t, t>>, equal, B) /\ Works(<<"BOOLEAN", "BOOLEAN">>, either, B)
  BY Instructions, OneWorks
<1> HIDE DEF compare, equal, either, B
<1>8. ASSUME NEW w \in Seq(Types), NEW temps
      PROVE  \E after : Reaches(Machine(<<t, t>> \o w, temps), code, Machine(B \o w, after))
  <2>1. <<t, t>> \o w = <<t>> \o (<<t>> \o w)
    OBVIOUS
  <2>2. PICK after : BothKept(after, t) /\ Reaches(Machine(<<t>> \o (<<t>> \o w), temps), Pops, Machine(w, after))
    BY PopsKeepBoth
  <2>3. Reaches(Machine(w, after), Pushes \o compare, Machine(B \o w, after))
    <3>1. Reaches(Machine(w, after), Pushes, Machine(<<t, t>> \o w, after))
      BY <2>2, PushesUseBoth
    <3>2. Reaches(Machine(<<t, t>> \o w, after), compare, Machine(B \o w, after))
      BY <1>7 DEF Works
    <3> QED BY <1>1, <3>1, <3>2, ReachesInTurn
  <2> DEFINE v == B \o w
  <2>4. v \in Seq(Types)
    BY ConcatProperties DEF B, Types
  <2>5. B \o v = <<"BOOLEAN", "BOOLEAN">> \o w
    <3>1. "BOOLEAN" \in Types
      BY DEF Types
    <3> QED BY <3>1, OneOnTheOther DEF v, B
  <2> HIDE DEF v
  <2>6. Reaches(Machine(v, after), Pushes \o equal, Machine(B \o v, after))
    <3>1. Reaches(Machine(v, after), Pushes, Machine(<<t, t>> \o v, after))
      BY <2>2, <2>4, PushesUseBoth
    <3>2. Reaches(Machine(<<t, t>> \o v, after), equal, Machine(B \o v, after))
      BY <1>7, <2>4 DEF Works
    <3> QED BY <1>1, <3>1, <3>2, ReachesInTurn
  <2>7. Reaches(Machine(B \o v, after), either, Machine(B \o w, after))
    BY <1>7, <2>5 DEF Works
  <2>8. Reaches(Machine(<<t>> \o (<<t>> \o w), temps), Pops \o (Pushes \o compare), Machine(v, after))
    BY <1>1, <1>3, <2>2, <2>3, ReachesInTurn DEF v
  <2>9. Reaches(Machine(<<t>> \o (<<t>> \o w), temps), (Pops \o (Pushes \o compare)) \o (Pushes \o equal),
                Machine(B \o v, after))
    BY <1>3, <1>4, <2>6, <2>8, ReachesInTurn
  <2>10. Reaches(Machine(<<t>> \o (<<t>> \o w), temps), code, Machine(B \o w, after))
    BY <1>1, <1>5, <2>7, <2>9, ReachesInTurn
  <2> QED BY <2>1, <2>10
<1>9. Computes(<<t, t>>, code, B)
  BY <1>8 DEF Computes
<1> QED BY <1>2, <1>6, <1>9 DEF B
-----------------------------------------------------------------------------
(* What the semantic actions emit, when they succeed                       *)

\* Code for a value of the type the action computed
Delivers(takes, out) ==
    out.ret = "SUCCESS" =>
        out.value \in Types /\ out.code \in Seq(Instruction) /\ Computes(takes, out.code, <<out.value>>)

\* Code for a list, whose last element is on the top
DeliversList(takes, out) ==
    out.ret = "SUCCESS" =>
        out.value \in Seq(Types) /\ out.code \in Seq(Instruction)
        /\ Computes(takes, out.code, Reverse(out.value))

LEMMA Outcomes ==
    /\ \A takes, ret : ret # "SUCCESS" => Delivers(takes, Failure(ret)) /\ DeliversList(takes, Failure(ret))
    /\ \A takes : \A t \in Types : \A code \in Seq(Instruction) :
          Computes(takes, code, <<t>>) => Delivers(takes, Success(t, code))
    /\ \A takes : \A l \in Seq(Types) : \A code \in Seq(Instruction) :
          Computes(takes, code, Reverse(l)) => DeliversList(takes, Success(l, code))
<1>1. \A ret : Failure(ret).ret = ret
  BY DEF Failure
<1>2. \A v, code : Success(v, code).ret = "SUCCESS" /\ Success(v, code).value = v /\ Success(v, code).code = code
  BY DEF Success
<1> QED BY <1>1, <1>2 DEF Delivers, DeliversList

LEMMA Codes ==
    /\ << >> \in Seq(Instruction)
    /\ \A op \in Operations : << <<op>> >> \in Seq(Instruction)
    /\ \A t \in Types : << <<"PUSHS", t>> >> \in Seq(Instruction)
    /\ \A f \in DOMAIN FuncSig : << <<"CALL", f>> >> \in Seq(Instruction)
<1>1. \A op \in Operations : <<op>> \in Instruction
  BY DEF Instruction
<1>2. \A t \in Types : <<"PUSHS", t>> \in Instruction
  BY DEF Instruction, Pushing
<1>3. \A f \in DOMAIN FuncSig : <<"CALL", f>> \in Instruction
  BY DEF Instruction
<1>4. \A i \in Instruction : <<i>> \in Seq(Instruction)
  OBVIOUS
<1> QED BY <1>1, <1>2, <1>3, <1>4

\* An instruction alone, or one above the operand that stays
LEMMA OneComputes ==
    /\ \A takes, i, leaves : Executes(takes, i, leaves) => Computes(takes, <<i>>, leaves)
    /\ \A t, u, v \in Types : \A i : Executes(<<t>>, i, <<v>>) => Computes(<<t, u>>, <<i>>, <<v, u>>)
<1>1. \A takes, i, leaves : Executes(takes, i, leaves) => Computes(takes, <<i>>, leaves)
  BY OneWorks, WorksComputes
<1>2. ASSUME NEW t \in Types, NEW u \in Types, NEW v \in Types, NEW i, Executes(<<t>>, i, <<v>>)
      PROVE  Computes(<<t, u>>, <<i>>, <<v, u>>)
  <2>1. Works(<<t>>, <<i>>, <<v>>)
    BY <1>2, OneWorks
  <2>2. <<t>> \in Seq(Types) /\ <<u>> \in Seq(Types) /\ <<v>> \in Seq(Types)
    OBVIOUS
  <2>3. Works(<<t>> \o <<u>>, <<i>>, <<v>> \o <<u>>)
    BY <2>1, <2>2, WorksAbove
  <2>4. <<t>> \o <<u>> = <<t, u>> /\ <<v>> \o <<u>> = <<v, u>>
    BY OneOnTheOther
  <2> QED BY <2>3, <2>4, WorksComputes
<1> QED BY <1>1, <1>2

\* Code that works on one operand works on the left one, below the right one.
LEMMA WorksOnLeft ==
    ASSUME NEW t \in Types, NEW u \in Types, NEW v \in Types, NEW c \in Seq(Instruction),
           Works(<<u>>, c, <<v>>)
    PROVE  BelowTop(c) \in Seq(Instruction) /\ Computes(<<t, u>>, BelowTop(c), <<t, v>>)
<1>1. <<u>> \in Seq(Types) /\ <<v>> \in Seq(Types)
  OBVIOUS
<1>2. BelowTop(c) \in Seq(Instruction) /\ Computes(<<t>> \o <<u>>, BelowTop(c), <<t>> \o <<v>>)
  BY <1>1, WorksBelowTop
<1>3. <<t>> \o <<u>> = <<t, u>> /\ <<t>> \o <<v>> = <<t, v>>
  BY OneOnTheOther
<1> QED BY <1>2, <1>3

Common(left, right) == IF left = right THEN left ELSE "DOUBLE"

LEMMA PromoteComputes ==
    ASSUME NEW left \in Types, NEW right \in Types, are_types_compatible(left, right)
    PROVE  /\ Promote(left, right) \in Seq(Instruction)
           /\ Common(left, right) \in Types
           /\ Computes(<<right, left>>, Promote(left, right), <<Common(left, right), Common(left, right)>>)
<1>1. CASE left = "DOUBLE" /\ right = "INTEGER"
  <2>1. Promote(left, right) = << <<"INT2FLOATS">> >> /\ Common(left, right) = "DOUBLE" /\ "DOUBLE" \in Types
    BY <1>1 DEF Promote, Common, Types
  <2>2. Computes(<<"INTEGER", left>>, << <<"INT2FLOATS">> >>, <<"DOUBLE", left>>)
    BY <1>1, Instructions, OneComputes
  <2>3. << <<"INT2FLOATS">> >> \in Seq(Instruction)
    BY Codes DEF Operations
  <2> QED BY <1>1, <2>1, <2>2, <2>3
<1>2. CASE left = "INTEGER" /\ right = "DOUBLE"
  <2> DEFINE c == << <<"INT2FLOATS">> >>
  <2>1. Promote(left, right) = BelowTop(c) /\ Common(left, right) = "DOUBLE" /\ "DOUBLE" \in Types
    BY <1>2 DEF Promote, Common, Types, cast_second_operand
  <2>2. c \in Seq(Instruction)
    BY Codes DEF Operations
  <2>3. Works(<<left>>, c, <<"DOUBLE">>)
    BY <1>2, Instructions, OneWorks
  <2> HIDE DEF c
  <2>4. BelowTop(c) \in Seq(Instruction) /\ Computes(<<right, left>>, BelowTop(c), <<right, "DOUBLE">>)
    BY <2>1, <2>2, <2>3, WorksOnLeft
  <2> QED BY <1>2, <2>1, <2>4
<1>3. CASE left = right
  <2>1. Promote(left, right) = << >> /\ Common(left, right) = left
    BY <1>3 DEF Promote, Common
  <2>2. Computes(<<left, left>>, << >>, <<left, left>>)
    BY NothingWorks, WorksComputes
  <2> QED BY <1>3, <2>1, <2>2, Codes
<1> QED BY <1>1, <1>2, <1>3 DEF are_types_compatible, Numeric

\* Code followed by one instruction
LEMMA ThenComputes ==
    ASSUME NEW takes, NEW c \in Seq(Instruction), NEW between, NEW i, NEW leaves, <<i>> \in Seq(Instruction),
           Computes(takes, c, between), Executes(between, i, leaves)
    PROVE  c \o <<i>> \in Seq(Instruction) /\ Computes(takes, c \o <<i>>, leaves)
<1>1. Computes(between, <<i>>, leaves)
  BY OneComputes
<1>2. c \o <<i>> \in Seq(Instruction)
  BY ConcatProperties
<1> QED BY <1>1, <1>2, WorksInTurn

LEMMA OperandsDeliver ==
    /\ \A name : \A decl \in BOOLEAN : Delivers(<< >>, sem_expr_id(name, decl))
    /\ \A id \in Constants : Delivers(<< >>, sem_expr_const(id))
    /\ \A t \in Types : Delivers(<<t>>, sem_expr_brackets(t))
<1>1. ASSUME NEW t \in Types PROVE Delivers(<< >>, Success(t, << <<"PUSHS", t>> >>))
  <2>1. Computes(<< >>, << <<"PUSHS", t>> >>, <<t>>)
    BY PushingExecutes, OneComputes
  <2> QED BY <2>1, Codes, Outcomes
<1>2. ASSUME NEW name, NEW decl \in BOOLEAN PROVE Delivers(<< >>, sem_expr_id(name, decl))
  <2>1. CASE decl
    <3>1. sem_expr_id(name, decl) = Failure("OTHER_ERROR")
      BY <2>1 DEF sem_expr_id
    <3> QED BY <3>1, Outcomes
  <2>2. CASE ~decl /\ name \notin DOMAIN VarType
    <3>1. sem_expr_id(name, decl) = Failure("PROG_ERROR")
      BY <2>2 DEF sem_expr_id
    <3> QED BY <3>1, Outcomes
  <2>3. CASE ~decl /\ name \in DOMAIN VarType
    <3>1. VarType[name] \in Types
      BY <2>3, VarTypeAssumption
    <3>2. sem_expr_id(name, decl) = Success(VarType[name], << <<"PUSHS", VarType[name]>> >>)
      BY <2>3 DEF sem_expr_id
    <3> QED BY <1>1, <3>1, <3>2
  <2> QED BY <2>1, <2>2, <2>3
<1>3. ASSUME NEW id \in Constants PROVE Delivers(<< >>, sem_expr_const(id))
  <2>1. \E t \in Types : sem_expr_const(id) = Success(t, << <<"PUSHS", t>> >>)
    BY DEF sem_expr_const, Constants, Types
  <2> QED BY <1>1, <2>1
<1>4. ASSUME NEW t \in Types PROVE Delivers(<<t>>, sem_expr_brackets(t))
  <2>1. Computes(<<t>>, << >>, <<t>>)
    BY NothingWorks, WorksComputes
  <2>2. sem_expr_brackets(t) = Success(t, << >>)
    BY DEF sem_expr_brackets
  <2> QED BY <2>1, <2>2, Codes, Outcomes
<1> QED BY <1>2, <1>3, <1>4

LEMMA PrefixesDeliver ==
    ASSUME NEW t \in Types
    PROVE  Delivers(<<t>>, sem_expr_not(t)) /\ Delivers(<<t>>, sem_expr_unary(t))
<1>1. Delivers(<<t>>, sem_expr_not(t))
  <2>1. CASE t # "BOOLEAN"
    <3>1. sem_expr_not(t) = Failure("COMP_ERROR")
      BY <2>1 DEF sem_expr_not
    <3> QED BY <3>1, Outcomes
  <2>2. CASE t = "BOOLEAN"
    <3>1. sem_expr_not(t) = Success("BOOLEAN", << <<"NOTS">> >>)
      BY <2>2 DEF sem_expr_not
    <3>2. Computes(<<"BOOLEAN">>, << <<"NOTS">> >>, <<"BOOLEAN">>)
      BY Instructions, OneComputes
    <3>3. << <<"NOTS">> >> \in Seq(Instruction)
      BY Codes DEF Operations
    <3> QED BY <2>2, <3>1, <3>2, <3>3, Outcomes
  <2> QED BY <2>1, <2>2
<1>2. Delivers(<<t>>, sem_expr_unary(t))
  <2>1. CASE t \notin Numeric
    <3>1. sem_expr_unary(t) = Failure("COMP_ERROR")
      BY <2>1 DEF sem_expr_unary
    <3> QED BY <3>1, Outcomes
  <2>2. CASE t \in Numeric
    <3> DEFINE push == << <<"PUSHS", t>> >>
    <3>1. sem_expr_unary(t) = Success(t, BelowTop(push) \o << <<"SUBS">> >>)
      BY <2>2 DEF sem_expr_unary
    <3>2. push \in Seq(Instruction)
      BY Codes
    <3>3. Works(<< >>, push, <<t>>)
      BY PushingExecutes, OneWorks
    <3> HIDE DEF push
    <3>4. BelowTop(push) \in Seq(Instruction) /\ Computes(<<t>>, BelowTop(push), <<t, t>>)
      <4>1. << >> \in Seq(Types) /\ <<t>> \in Seq(Types)
        OBVIOUS
      <4>3. <<t>> \o << >> = <<t>> /\ <<t>> \o <<t>> = <<t, t>>
        BY <4>1, OneOnTheOther, ConcatEmptySeq
      <4>2. BelowTop(push) \in Seq(Instruction) /\ Computes(<<t>> \o << >>, BelowTop(push), <<t>> \o <<t>>)
        BY <3>2, <3>3, <4>1, WorksBelowTop
      <4> QED BY <4>2, <4>3
    <3>5. Executes(<<t, t>>, <<"SUBS">>, <<t>>)
      BY <2>2, Instructions
    <3>6. << <<"SUBS">> >> \in Seq(Instruction)
      BY Codes DEF Operations
    <3>7. /\ BelowTop(push) \o << <<"SUBS">> >> \in Seq(Instruction)
          /\ Computes(<<t>>, BelowTop(push) \o << <<"SUBS">> >>, <<t>>)
      BY <3>4, <3>5, <3>6, ThenComputes
    <3> QED BY <3>1, <3>7, Outcomes
  <2> QED BY <2>1, <2>2
<1> QED BY <1>1, <1>2

LEMMA AndOrDeliver ==
    ASSUME NEW left \in Types, NEW right \in Types, NEW op
    PROVE  Delivers(<<right, left>>, sem_expr_and_or(left, op, right))
<1>1. CASE {left, right} # {"BOOLEAN"}
  <2>1. sem_expr_and_or(left, op, right) = Failure("COMP_ERROR")
    BY <1>1 DEF sem_expr_and_or
  <2> QED BY <2>1, Outcomes
<1>2. CASE {left, right} = {"BOOLEAN"}
  <2>1. left = "BOOLEAN" /\ right = "BOOLEAN"
    BY <1>2
  <2>2. PICK inst \in {"ANDS", "ORS"} : sem_expr_and_or(left, op, right) = Success("BOOLEAN", << <<inst>> >>)
    BY <1>2 DEF sem_expr_and_or
  <2>3. Computes(<<"BOOLEAN", "BOOLEAN">>, << <<inst>> >>, <<"BOOLEAN">>)
    BY Instructions, OneComputes
  <2>4. << <<inst>> >> \in Seq(Instruction)
    BY Codes DEF Operations
  <2>5. "BOOLEAN" \in Types
    BY DEF Types
  <2> QED BY <2>1, <2>2, <2>3, <2>4, <2>5, Outcomes
<1> QED BY <1>1, <1>2

LEMMA ComparisonsDeliver ==
    ASSUME NEW left \in Types, NEW right \in Types, NEW op
    PROVE  /\ op \in {"LT", "GT", "LE", "GE"} => Delivers(<<right, left>>, sem_expr_lte_gte(left, op, right))
           /\ Delivers(<<right, left>>, sem_expr_eq_ne(left, op, right))
<1> DEFINE p == Promote(left, right)
           u == Common(left, right)
           B == <<"BOOLEAN">>
<1>0. "BOOLEAN" \in Types
  BY DEF Types
<1>1. ASSUME NEW c \in Seq(Instruction), are_types_compatible(left, right), \A t \in Types : Computes(<<t, t>>, c, B)
      PROVE  Delivers(<<right, left>>, Success("BOOLEAN", p \o c))
  <2>1. p \in Seq(Instruction) /\ u \in Types /\ Computes(<<right, left>>, p, <<u, u>>)
    BY <1>1, PromoteComputes
  <2> HIDE DEF p, u
  <2>2. Computes(<<right, left>>, p \o c, B)
    BY <1>1, <2>1, WorksInTurn
  <2>3. p \o c \in Seq(Instruction)
    BY <2>1, ConcatProperties
  <2> QED BY <1>0, <2>2, <2>3, Outcomes
<1>2. /\ \A inst \in {"LTS", "GTS", "EQS"} :
            << <<inst>> >> \in Seq(Instruction) /\ \A t \in Types : Computes(<<t, t>>, << <<inst>> >>, B)
  <2>1. ASSUME NEW inst \in {"LTS", "GTS", "EQS"} PROVE << <<inst>> >> \in Seq(Instruction)
    BY Codes DEF Operations
  <2>2. ASSUME NEW inst \in {"LTS", "GTS", "EQS"}, NEW t \in Types PROVE Computes(<<t, t>>, << <<inst>> >>, B)
    BY Instructions, OneComputes
  <2> QED BY <2>1, <2>2
<1>3. ASSUME op \in {"LT", "GT", "LE", "GE"} PROVE Delivers(<<right, left>>, sem_expr_lte_gte(left, op, right))
  <2>1. CASE right = "BOOLEAN"
    <3>1. sem_expr_lte_gte(left, op, right) = Failure("PROG_ERROR")
      BY <2>1 DEF sem_expr_lte_gte
    <3> QED BY <3>1, Outcomes
  <2>2. CASE right # "BOOLEAN" /\ ~are_types_compatible(left, right)
    <3>1. sem_expr_lte_gte(left, op, right) = Failure("COMP_ERROR")
      BY <2>2 DEF sem_expr_lte_gte
    <3> QED BY <3>1, Outcomes
  <2>3. CASE right # "BOOLEAN" /\ are_types_compatible(left, right)
    <3> DEFINE c == CASE op = "LT" -> << <<"LTS">> >>
                      [] op = "GT" -> << <<"GTS">> >>
                      [] op = "LE" -> OrEqual("LTS")
                      [] op = "GE" -> OrEqual("GTS")
    <3>1. sem_expr_lte_gte(left, op, right) = Success("BOOLEAN", p \o c)
      BY <2>3 DEF sem_expr_lte_gte
    <3>2. /\ op = "LT" => c = << <<"LTS">> >>
          /\ op = "GT" => c = << <<"GTS">> >>
          /\ op = "LE" => c = OrEqual("LTS")
          /\ op = "GE" => c = OrEqual("GTS")
      OBVIOUS
    <3> HIDE DEF c
    <3>3. c \in Seq(Instruction) /\ \A t \in Types : Computes(<<t, t>>, c, B)
      BY <1>2, <1>3, <3>2, OrEqualComputes
    <3> QED BY <1>1, <2>3, <3>1, <3>3
  <2> QED BY <2>1, <2>2, <2>3
<1>4. Delivers(<<right, left>>, sem_expr_eq_ne(left, op, right))
  <2>1. CASE ~are_types_compatible(left, right)
    <3>1. sem_expr_eq_ne(left, op, right) = Failure("COMP_ERROR")
      BY <2>1 DEF sem_expr_eq_ne
    <3> QED BY <3>1, Outcomes
  <2>2. CASE are_types_compatible(left, right)
    <3> DEFINE equal == << <<"EQS">> >>
               differ == << <<"EQS">>, <<"NOTS">> >>
    <3>1. equal \in Seq(Instruction) /\ \A t \in Types : Computes(<<t, t>>, equal, B)
      BY <1>2
    <3>2. << <<"NOTS">> >> \in Seq(Instruction)
      BY Codes DEF Operations
    <3>3. differ = equal \o << <<"NOTS">> >>
      OBVIOUS
    <3>4. differ \in Seq(Instruction) /\ \A t \in Types : Computes(<<t, t>>, differ, B)
      <4> HIDE DEF equal, differ
      <4>1. Executes(B, <<"NOTS">>, B)
        BY Instructions
      <4> HIDE DEF B
      <4> QED BY <3>1, <3>2, <3>3, <4>1, ThenComputes
    <3>5. sem_expr_eq_ne(left, op, right) = Success("BOOLEAN", p \o IF op = "EQUAL" THEN equal ELSE differ)
      BY <2>2 DEF sem_expr_eq_ne
    <3> HIDE DEF equal, differ
    <3> QED BY <1>1, <2>2, <3>1, <3>4, <3>5
  <2> QED BY <2>1, <2>2
<1> QED BY <1>3, <1>4

LEMMA ArithmeticDelivers ==
    ASSUME NEW left \in Types, NEW right \in Types, NEW op \in {"ADD", "SUB", "MUL"}
    PROVE  Delivers(<<right, left>>, sem_expr_aritmetic_basic(left, op, right))
<1>1. CASE ~are_types_compatible(left, right) \/ right = "BOOLEAN"
  <2>1. sem_expr_aritmetic_basic(left, op, right) = Failure("COMP_ERROR")
    BY <1>1 DEF sem_expr_aritmetic_basic, are_types_compatible
  <2> QED BY <2>1, Outcomes
<1>2. CASE left = "STRING" /\ right = "STRING"
  <2>1. CASE op # "ADD"
    <3>1. sem_expr_aritmetic_basic(left, op, right) = Failure("COMP_ERROR")
      BY <1>2, <2>1 DEF sem_expr_aritmetic_basic, are_types_compatible
    <3> QED BY <3>1, Outcomes
  <2>2. CASE op = "ADD"
    <3>1. sem_expr_aritmetic_basic(left, op, right) = Success("STRING", << <<"CONCAT">> >>)
      BY <1>2, <2>2 DEF sem_expr_aritmetic_basic, are_types_compatible
    <3>2. Computes(<<"STRING", "STRING">>, << <<"CONCAT">> >>, <<"STRING">>)
      BY Instructions, OneComputes
    <3>3. << <<"CONCAT">> >> \in Seq(Instruction)
      BY Codes DEF Operations
    <3> QED BY <1>2, <3>1, <3>2, <3>3, Outcomes
  <2> QED BY <2>1, <2>2
<1>3. CASE are_types_compatible(left, right) /\ right # "BOOLEAN" /\ ~(left = "STRING" /\ right = "STRING")
  <2> DEFINE p == Promote(left, right)
             u == Common(left, right)
  <2>1. PICK inst \in {"ADDS", "SUBS", "MULS"} :
            sem_expr_aritmetic_basic(left, op, right) = Success(u, p \o << <<inst>> >>)
    BY <1>3 DEF sem_expr_aritmetic_basic, Common
  <2>2. u \in Numeric
    BY <1>3 DEF Common, are_types_compatible, Numeric, Types
  <2>3. p \in Seq(Instruction) /\ u \in Types /\ Computes(<<right, left>>, p, <<u, u>>)
    BY <1>3, PromoteComputes
  <2> HIDE DEF p, u
  <2>4. Executes(<<u, u>>, <<inst>>, <<u>>)
    BY <2>2, Instructions
  <2>5. << <<inst>> >> \in Seq(Instruction)
    BY Codes DEF Operations
  <2>6. p \o << <<inst>> >> \in Seq(Instruction) /\ Computes(<<right, left>>, p \o << <<inst>> >>, <<u>>)
    BY <2>3, <2>4, <2>5, ThenComputes
  <2> QED BY <2>1, <2>3, <2>6, Outcomes
<1> QED BY <1>1, <1>2, <1>3

LEMMA RoundingWorks ==
    RoundToFloat \in Seq(Instruction) /\ Works(<<"DOUBLE">>, RoundToFloat, <<"DOUBLE">>)
<1> DEFINE round == << <<"FLOAT2R2EINTS">> >>
           float == << <<"INT2FLOATS">> >>
<1>1. round \in Seq(Instruction) /\ float \in Seq(Instruction)
  BY Codes DEF Operations
<1>2. Works(<<"DOUBLE">>, round, <<"INTEGER">>) /\ Works(<<"INTEGER">>, float, <<"DOUBLE">>)
  BY Instructions, OneWorks
<1>3. RoundToFloat = round \o float
  BY DEF RoundToFloat
<1> HIDE DEF round, float
<1>4. round \o float \in Seq(Instruction)
  BY <1>1, ConcatProperties
<1> QED BY <1>1, <1>2, <1>3, <1>4, WorksInTurn

LEMMA DivisionDelivers ==
    ASSUME NEW left \in Types, NEW right \in Types, NEW op
    PROVE  Delivers(<<right, left>>, sem_expr_div(left, op, right))
<1> DEFINE castLeft == CASE left = "INTEGER" -> cast_second_operand("INT2FLOATS")
                         [] left = "DOUBLE" /\ op = "DIVI" -> BelowTop(RoundToFloat)
                         [] OTHER -> << >>
           castRight == CASE right = "INTEGER" -> << <<"INT2FLOATS">> >>
                          [] right = "DOUBLE" /\ op = "DIVI" -> RoundToFloat
                          [] OTHER -> << >>
           D == "DOUBLE"
           divs == << <<"DIVS">> >>
           toint == << <<"FLOAT2INTS">> >>
           float == << <<"INT2FLOATS">> >>
<1>1. CASE right \notin Numeric
  <2>1. sem_expr_div(left, op, right) = Failure("PROG_ERROR")
    BY <1>1 DEF sem_expr_div
  <2> QED BY <2>1, Outcomes
<1>2. CASE right \in Numeric /\ left \notin Numeric
  <2>1. sem_expr_div(left, op, right) = Failure("COMP_ERROR")
    BY <1>2 DEF sem_expr_div
  <2> QED BY <2>1, Outcomes
<1>3. CASE right \in Numeric /\ left \in Numeric
  <2>1. sem_expr_div(left, op, right)
        = IF op = "DIVI" THEN Success("INTEGER", castLeft \o castRight \o << <<"DIVS">>, <<"FLOAT2INTS">> >>)
                         ELSE Success(D, castLeft \o castRight \o divs)
    BY <1>3 DEF sem_expr_div
  <2>2. D \in Types /\ "INTEGER" \in Types
    BY DEF Types
  <2>3. divs \in Seq(Instruction) /\ toint \in Seq(Instruction) /\ float \in Seq(Instruction)
    BY Codes DEF Operations
  <2>4. Works(<<"INTEGER">>, float, <<D>>) /\ Executes(<<D, D>>, <<"DIVS">>, <<D>>)
        /\ Executes(<<D>>, <<"FLOAT2INTS">>, <<"INTEGER">>)
    BY Instructions, OneWorks
  <2>5. castLeft \in Seq(Instruction) /\ Computes(<<right, left>>, castLeft, <<right, D>>)
    <3>1. CASE left = "INTEGER"
      <4>1. castLeft = BelowTop(float)
        BY <3>1 DEF cast_second_operand
      <4> HIDE DEF castLeft, float, D
      <4> QED BY <2>2, <2>3, <2>4, <3>1, <4>1, WorksOnLeft
    <3>2. CASE left = D /\ op = "DIVI"
      <4>1. castLeft = BelowTop(RoundToFloat)
        BY <3>2
      <4>2. Works(<<D>>, RoundToFloat, <<D>>) /\ RoundToFloat \in Seq(Instruction)
        BY RoundingWorks
      <4> HIDE DEF castLeft, D
      <4> QED BY <2>2, <3>2, <4>1, <4>2, WorksOnLeft
    <3>3. CASE left = D /\ op # "DIVI"
      <4>1. castLeft = << >>
        BY <3>3
      <4> HIDE DEF castLeft, D
      <4> QED BY <3>3, <4>1, Codes, NothingWorks, WorksComputes
    <3> QED BY <1>3, <3>1, <3>2, <3>3 DEF Numeric
  <2>6. castRight \in Seq(Instruction) /\ Computes(<<right, D>>, castRight, <<D, D>>)
    <3> HIDE DEF castLeft
    <3>0. ASSUME NEW c, Works(<<right>>, c, <<D>>) PROVE Computes(<<right, D>>, c, <<D, D>>)
      <4>1. <<right>> \in Seq(Types) /\ <<D>> \in Seq(Types)
        BY <2>2
      <4>2. <<right>> \o <<D>> = <<right, D>> /\ <<D>> \o <<D>> = <<D, D>>
        BY <2>2, OneOnTheOther
      <4>3. Works(<<right>> \o <<D>>, c, <<D>> \o <<D>>)
        BY <3>0, <4>1, WorksAbove
      <4> QED BY <4>2, <4>3, WorksComputes
    <3>1. CASE right = "INTEGER"
      <4>1. castRight = float
        BY <3>1
      <4> HIDE DEF castRight, float, D
      <4> QED BY <2>3, <2>4, <3>0, <3>1, <4>1
    <3>2. CASE right = D /\ op = "DIVI"
      <4>1. castRight = RoundToFloat
        BY <3>2
      <4>2. Works(<<D>>, RoundToFloat, <<D>>) /\ RoundToFloat \in Seq(Instruction)
        BY RoundingWorks
      <4> HIDE DEF castRight, D
      <4> QED BY <3>0, <3>2, <4>1, <4>2
    <3>3. CASE right = D /\ op # "DIVI"
      <4>1. castRight = << >>
        BY <3>3
      <4> HIDE DEF castRight, D
      <4> QED BY <3>3, <4>1, Codes, NothingWorks, WorksComputes
    <3> QED BY <1>3, <3>1, <3>2, <3>3 DEF Numeric
  <2> HIDE DEF castLeft, castRight, D
  <2> DEFINE casts == castLeft \o castRight
  <2>7. casts \in Seq(Instruction) /\ Computes(<<right, left>>, casts, <<D, D>>)
    <3>1. castLeft \o castRight \in Seq(Instruction)
      BY <2>5, <2>6, ConcatProperties
    <3> QED BY <2>5, <2>6, <3>1, WorksInTurn
  <2> HIDE DEF casts
  <2>8. casts \o divs \in Seq(Instruction) /\ Computes(<<right, left>>, casts \o divs, <<D>>)
    BY <2>3, <2>4, <2>7, ThenComputes
  <2>9. casts \o << <<"DIVS">>, <<"FLOAT2INTS">> >> = (casts \o divs) \o toint
    <3>1. <<"DIVS">> \in Instruction /\ <<"FLOAT2INTS">> \in Instruction
      BY DEF Instruction, Operations
    <3>2. divs \o toint = << <<"DIVS">>, <<"FLOAT2INTS">> >>
      BY <3>1, OneOnTheOther
    <3> HIDE DEF divs, toint
    <3>3. casts \in Seq(Instruction) /\ divs \in Seq(Instruction) /\ toint \in Seq(Instruction)
      BY <2>3, <2>7
    <3>4. \A y, z \in Seq(Instruction) : (casts \o y) \o z = casts \o (y \o z)
      BY <3>3, JoinsRegroup
    <3>5. casts \o (divs \o toint) = (casts \o divs) \o toint
      BY <3>3, <3>4
    <3> QED BY <3>2, <3>5
  <2>10. /\ (casts \o divs) \o toint \in Seq(Instruction)
         /\ Computes(<<right, left>>, (casts \o divs) \o toint, <<"INTEGER">>)
    <3> HIDE DEF divs
    <3> QED BY <2>3, <2>4, <2>8, ThenComputes
  <2>11. CASE op = "DIVI"
    <3>1. sem_expr_div(left, op, right) = Success("INTEGER", (casts \o divs) \o toint)
      BY <2>1, <2>9, <2>11 DEF casts
    <3> HIDE DEF divs, toint
    <3> QED BY <2>2, <2>10, <3>1, Outcomes
  <2>12. CASE op # "DIVI"
    <3>1. sem_expr_div(left, op, right) = Success(D, casts \o divs)
      BY <2>1, <2>12 DEF casts
    <3> HIDE DEF divs
    <3> QED BY <2>2, <2>8, <3>1, Outcomes
  <2> QED BY <2>11, <2>12
<1> QED BY <1>1, <1>2, <1>3

LEMMA ListsDeliver ==
    ASSUME NEW right \in Types
    PROVE  /\ \A left \in Types : DeliversList(<<right, left>>, sem_expr_list(left, right))
           /\ \A list \in Seq(Types) :
                 DeliversList(<<right>> \o Reverse(list), sem_expr_list_expr(list, right))
<1>1. ASSUME NEW left \in Types PROVE DeliversList(<<right, left>>, sem_expr_list(left, right))
  <2>1. <<left, right>> \in Seq(Types) /\ Reverse(<<left, right>>) = <<right, left>>
    BY ReverseOfShort
  <2>2. Computes(<<right, left>>, << >>, <<right, left>>)
    BY NothingWorks, WorksComputes
  <2>3. sem_expr_list(left, right) = Success(<<left, right>>, << >>)
    BY DEF sem_expr_list
  <2> QED BY <2>1, <2>2, <2>3, Codes, Outcomes
<1>2. ASSUME NEW list \in Seq(Types)
      PROVE  DeliversList(<<right>> \o Reverse(list), sem_expr_list_expr(list, right))
  <2> DEFINE l == list \o <<right>>
             takes == <<right>> \o Reverse(list)
  <2>1. l \in Seq(Types) /\ Reverse(l) = takes
    BY ReverseOfLonger
  <2>2. sem_expr_list_expr(list, right) = Success(l, << >>)
    BY DEF sem_expr_list_expr
  <2> HIDE DEF l, takes
  <2>3. Computes(takes, << >>, takes)
    BY NothingWorks, WorksComputes
  <2> QED BY <2>1, <2>2, <2>3, Codes, Outcomes DEF takes
<1> QED BY <1>1, <1>2

LEMMA CallsDeliver ==
    ASSUME NEW name, NEW args \in Seq(Types)
    PROVE  Delivers(Reverse(args), sem_expr_func(name, args))
<1>1. CASE name \notin DOMAIN FuncSig
  <2>1. sem_expr_func(name, args) = Failure("PROG_ERROR")
    BY <1>1 DEF sem_expr_func
  <2> QED BY <2>1, Outcomes
<1>2. CASE name \in DOMAIN FuncSig
  <2> DEFINE params == FuncSig[name].params
             fits == Len(args) = Len(params) /\ \A k \in DOMAIN args : are_types_compatible(args[k], params[k])
  <2>1. sem_expr_func(name, args) = IF fits THEN Success(FuncSig[name].ret, << <<"CALL", name>> >>)
                                            ELSE Failure("COMP_ERROR")
    BY <1>2 DEF sem_expr_func
  <2>2. CASE ~fits
    <3>1. sem_expr_func(name, args) = Failure("COMP_ERROR")
      BY <2>1, <2>2
    <3> QED BY <3>1, Outcomes
  <2>3. CASE fits
    <3>1. Executes(Reverse(args), <<"CALL", name>>, <<FuncSig[name].ret>>)
      BY <1>2, <2>3, CallExecutes
    <3>2. Computes(Reverse(args), << <<"CALL", name>> >>, <<FuncSig[name].ret>>)
      BY <3>1, OneComputes
    <3>3. FuncSig[name].ret \in Types
      BY <1>2, FuncSigAssumption
    <3>4. sem_expr_func(name, args) = Success(FuncSig[name].ret, << <<"CALL", name>> >>)
      BY <2>1, <2>3
    <3> QED BY <1>2, <3>2, <3>3, <3>4, Codes, Outcomes
  <2> QED BY <2>2, <2>3
<1> QED BY <1>1, <1>2
-----------------------------------------------------------------------------
(* The analyzers belong to the nonterminals of the extended stack: owner   *)
(* gives each analyzer the place of its nonterminal.  Here from place k of *)
(* the extended stack s and j of the analyzers a downwards.                *)

TerminalIds == (STRING \ (Nonterminals \cup Markers)) \cup {"UNARY_MINUS", "EOF", "none"}
Tokens == [id : TerminalIds, str : STRING \cup {"none"}]
Items == [type_id : TerminalIds \cup Nonterminals \cup Markers, token : Tokens]

IsNonterminal(item) == item.type_id \in Nonterminals

Owns(owner, s, k, a, j) ==
    /\ owner \in [j .. Len(a) - 1 -> k .. Len(s)]
    /\ \A x, y \in j .. Len(a) - 1 : x < y => owner[x] < owner[y]
    /\ \A l \in k .. Len(s) : IsNonterminal(s[l]) <=> \E x \in j .. Len(a) - 1 : owner[x] = l
    /\ \A x \in j .. Len(a) - 1 : a[x].value.value_type = Kind(s[owner[x]].type_id)

Owned(s, k, a, j) == \E owner : Owns(owner, s, k, a, j)

LEMMA TerminalPassed ==
    ASSUME NEW s, NEW a, Len(s) \in Nat, Len(a) \in Nat, NEW k \in 1 .. Len(s), NEW j \in 1 .. Len(a),
           Owned(s, k, a, j), ~IsNonterminal(s[k])
    PROVE  Owned(s, k + 1, a, j)
<1>1. PICK owner : Owns(owner, s, k, a, j)
  BY DEF Owned
<1>2. \A x \in j .. Len(a) - 1 : owner[x] \in k + 1 .. Len(s)
  <2>1. \A x \in j .. Len(a) - 1 : owner[x] \in k .. Len(s) /\ owner[x] # k
    BY <1>1 DEF Owns
  <2> QED BY <2>1
<1>3. owner \in [j .. Len(a) - 1 -> k + 1 .. Len(s)]
  BY <1>1, <1>2 DEF Owns
<1>4. \A l \in k + 1 .. Len(s) : l \in k .. Len(s)
  OBVIOUS
<1>5. Owns(owner, s, k + 1, a, j)
  BY <1>1, <1>3, <1>4 DEF Owns
<1> QED BY <1>5 DEF Owned

LEMMA NonterminalPassed ==
    ASSUME NEW s, NEW a, Len(s) \in Nat, Len(a) \in Nat, NEW k \in 1 .. Len(s), NEW j \in 1 .. Len(a),
           Owned(s, k, a, j), IsNonterminal(s[k])
    PROVE  /\ j < Len(a)
           /\ a[j].value.value_type = Kind(s[k].type_id)
           /\ Owned(s, k + 1, a, j + 1)
<1>1. PICK owner : Owns(owner, s, k, a, j)
  BY DEF Owned
<1>2. PICK x \in j .. Len(a) - 1 : owner[x] = k
  BY <1>1 DEF Owns
<1>3. j \in j .. Len(a) - 1 /\ j < Len(a)
  BY <1>2
<1>4. owner[j] = k
  <2>1. owner[j] \in k .. Len(s)
    BY <1>1, <1>3 DEF Owns
  <2>2. j < x => owner[j] < owner[x]
    BY <1>1, <1>3 DEF Owns
  <2>3. j = x \/ j < x
    BY <1>2
  <2> QED BY <1>2, <2>1, <2>2, <2>3
<1> DEFINE below == [y \in j + 1 .. Len(a) - 1 |-> owner[y]]
<1>5. \A y \in j + 1 .. Len(a) - 1 : y \in j .. Len(a) - 1 /\ j < y
  OBVIOUS
<1>6. \A y \in j + 1 .. Len(a) - 1 : owner[y] \in k + 1 .. Len(s)
  <2>1. \A y \in j + 1 .. Len(a) - 1 : owner[y] \in k .. Len(s) /\ owner[j] < owner[y]
    BY <1>1, <1>3, <1>5 DEF Owns
  <2> QED BY <1>4, <2>1
<1>7. ASSUME NEW l \in k + 1 .. Len(s)
      PROVE  IsNonterminal(s[l]) <=> \E y \in j + 1 .. Len(a) - 1 : owner[y] = l
  <2>1. l \in k .. Len(s) /\ l # k
    OBVIOUS
  <2>2. IsNonterminal(s[l]) <=> \E y \in j .. Len(a) - 1 : owner[y] = l
    BY <1>1, <2>1 DEF Owns
  <2>3. \A y \in j .. Len(a) - 1 : y = j \/ y \in j + 1 .. Len(a) - 1
    OBVIOUS
  <2> QED BY <1>4, <1>5, <2>1, <2>2, <2>3
<1>8. Owns(below, s, k + 1, a, j + 1)
  <2>1. below \in [j + 1 .. Len(a) - 1 -> k + 1 .. Len(s)] /\ \A y \in j + 1 .. Len(a) - 1 : below[y] = owner[y]
    BY <1>6
  <2> HIDE DEF below
  <2>2. \A x1, y \in j + 1 .. Len(a) - 1 : x1 < y => below[x1] < below[y]
    BY <1>1, <1>5, <2>1 DEF Owns
  <2>3. \A y \in j + 1 .. Len(a) - 1 : a[y].value.value_type = Kind(s[below[y]].type_id)
    BY <1>1, <1>5, <2>1 DEF Owns
  <2>4. \A l \in k + 1 .. Len(s) : IsNonterminal(s[l]) <=> \E y \in j + 1 .. Len(a) - 1 : below[y] = l
    BY <1>7, <2>1
  <2> QED BY <2>1, <2>2, <2>3, <2>4 DEF Owns
<1>9. a[j].value.value_type = Kind(s[k].type_id)
  BY <1>1, <1>3, <1>4 DEF Owns
<1> QED BY <1>3, <1>8, <1>9 DEF Owned

LEMMA TerminalPutIn ==
    ASSUME NEW s \in Seq(Items), NEW a, Len(a) \in Nat, Owned(s, 1, a, 1),
           NEW item \in Items, ~IsNonterminal(item), NEW i \in 1 .. Len(s) + 1
    PROVE  Owned(InsertAt(s, i, item), 1, a, 1)
<1> DEFINE t == InsertAt(s, i, item)
           n == Len(s)
           At(l) == IF l < i THEN l ELSE l + 1
<1>1. /\ n \in Nat /\ Len(t) = n + 1
      /\ \A l \in 1 .. n + 1 : t[l] = IF l < i THEN s[l] ELSE IF l = i THEN item ELSE s[l - 1]
  BY LenProperties, InsertAtProperties DEF InsertedAt
<1>2. PICK owner : Owns(owner, s, 1, a, 1)
  BY DEF Owned
<1> HIDE DEF t
<1>3. \A l \in 1 .. n : At(l) \in 1 .. n + 1 /\ At(l) # i /\ t[At(l)] = s[l]
  <2> SUFFICES ASSUME NEW l \in 1 .. n PROVE At(l) \in 1 .. n + 1 /\ At(l) # i /\ t[At(l)] = s[l]
    OBVIOUS
  <2>1. CASE l < i
    <3>1. l \in 1 .. n + 1
      BY <1>1
    <3> QED BY <1>1, <2>1, <3>1
  <2>2. CASE ~(l < i)
    <3>1. l + 1 \in 1 .. n + 1 /\ ~(l + 1 < i) /\ l + 1 # i /\ (l + 1) - 1 = l
      BY <1>1, <2>2
    <3> QED BY <1>1, <2>2, <3>1
  <2> QED BY <2>1, <2>2
<1>4. \A l \in 1 .. n + 1 : l # i => \E m \in 1 .. n : At(m) = l
  <2> SUFFICES ASSUME NEW l \in 1 .. n + 1, l # i PROVE \E m \in 1 .. n : At(m) = l
    OBVIOUS
  <2>1. CASE l < i
    BY <1>1, <2>1
  <2>2. CASE ~(l < i)
    <3>1. l - 1 \in 1 .. n /\ ~(l - 1 < i) /\ (l - 1) + 1 = l
      BY <1>1, <2>2
    <3> QED BY <3>1
  <2> QED BY <2>1, <2>2
<1>5. \A l, m \in 1 .. n : (l < m => At(l) < At(m)) /\ (At(l) = At(m) => l = m)
  BY <1>1
<1> HIDE DEF At, n
<1> DEFINE moved == [x \in 1 .. Len(a) - 1 |-> At(owner[x])]
<1>6. \A x \in 1 .. Len(a) - 1 : owner[x] \in 1 .. n
  BY <1>2 DEF Owns, n
<1>7. moved \in [1 .. Len(a) - 1 -> 1 .. Len(t)] /\ \A x \in 1 .. Len(a) - 1 : moved[x] = At(owner[x])
  BY <1>1, <1>3, <1>6
<1> HIDE DEF moved
<1>8. \A x, y \in 1 .. Len(a) - 1 : x < y => moved[x] < moved[y]
  <2>1. \A x, y \in 1 .. Len(a) - 1 : x < y => owner[x] < owner[y]
    BY <1>2 DEF Owns
  <2> QED BY <1>5, <1>6, <1>7, <2>1
<1>9. \A x \in 1 .. Len(a) - 1 : a[x].value.value_type = Kind(t[moved[x]].type_id)
  <2>1. \A x \in 1 .. Len(a) - 1 : a[x].value.value_type = Kind(s[owner[x]].type_id)
    BY <1>2 DEF Owns
  <2> QED BY <1>3, <1>6, <1>7, <2>1
<1>10. ASSUME NEW l \in 1 .. Len(t) PROVE IsNonterminal(t[l]) <=> \E x \in 1 .. Len(a) - 1 : moved[x] = l
  <2>1. CASE l = i
    <3>1. t[l] = item
      BY <1>1, <2>1
    <3>2. \A x \in 1 .. Len(a) - 1 : moved[x] # l
      BY <1>3, <1>6, <1>7, <2>1
    <3> QED BY <3>1, <3>2
  <2>2. CASE l # i
    <3>1. PICK m \in 1 .. n : At(m) = l
      BY <1>1, <1>4, <2>2
    <3>2. t[l] = s[m]
      BY <1>3, <3>1
    <3>3. IsNonterminal(s[m]) <=> \E x \in 1 .. Len(a) - 1 : owner[x] = m
      BY <1>2 DEF Owns, n
    <3>4. \A x \in 1 .. Len(a) - 1 : moved[x] = l <=> owner[x] = m
      BY <1>5, <1>6, <1>7, <3>1
    <3> QED BY <3>2, <3>3, <3>4
  <2> QED BY <2>1, <2>2
<1>11. Owns(moved, t, 1, a, 1)
  BY <1>7, <1>8, <1>9, <1>10 DEF Owns
<1> QED BY <1>11 DEF Owned, t

(* A handle is replaced by a nonterminal, and its analyzers by a new one.  *)
LEMMA HandleReplaced ==
    ASSUME NEW S, NEW s \in Seq(Items), NEW a \in Seq(S), NEW k \in 1 .. Len(s), NEW j \in 1 .. Len(a),
           Owned(s, k, a, j), NEW item \in Items, IsNonterminal(item), NEW e \in S,
           e.value.value_type = Kind(item.type_id)
    PROVE  Owned(<<item>> \o SubSeq(s, k, Len(s)), 1, <<e>> \o SubSeq(a, j, Len(a)), 1)
<1> DEFINE n == Len(s)
           m == Len(a)
           t == <<item>> \o SubSeq(s, k, n)
           b == <<e>> \o SubSeq(a, j, m)
<1>1. n \in Nat /\ m \in Nat /\ k \in 1 .. n /\ j \in 1 .. m
  BY LenProperties
<1>2. /\ Len(t) = (n - k) + 2 /\ t[1] = item
      /\ \A l \in k .. n : t[(l - k) + 2] = s[l]
  BY InFront
<1>3. /\ Len(b) = (m - j) + 2 /\ b[1] = e
      /\ \A x \in j .. m : b[(x - j) + 2] = a[x]
  BY InFront
<1>4. PICK owner : Owns(owner, s, k, a, j)
  BY DEF Owned
<1>5. \A x \in j .. m - 1 : owner[x] \in k .. n /\ a[x].value.value_type = Kind(s[owner[x]].type_id)
  BY <1>4 DEF Owns
<1>6. \A x, y \in j .. m - 1 : x < y => owner[x] < owner[y]
  BY <1>4 DEF Owns
<1>7. \A l \in k .. n : IsNonterminal(s[l]) <=> \E x \in j .. m - 1 : owner[x] = l
  BY <1>4 DEF Owns
<1> HIDE DEF t, b, n, m
<1> DEFINE moved == [x \in 1 .. Len(b) - 1 |-> IF x = 1 THEN 1 ELSE (owner[(x - 2) + j] - k) + 2]
<1>8. \A x \in 1 .. Len(b) - 1 : x # 1 => (x - 2) + j \in j .. m - 1 /\ (((x - 2) + j) - j) + 2 = x
  BY <1>1, <1>3
<1>9. \A x \in 1 .. Len(b) - 1 : moved[x] = IF x = 1 THEN 1 ELSE (owner[(x - 2) + j] - k) + 2
  OBVIOUS
<1>10. ASSUME NEW x \in 1 .. Len(b) - 1, x # 1
       PROVE  /\ moved[x] = (owner[(x - 2) + j] - k) + 2 /\ moved[x] \in 2 .. Len(t)
              /\ t[moved[x]] = s[owner[(x - 2) + j]] /\ b[x] = a[(x - 2) + j]
  <2> DEFINE y == (x - 2) + j
  <2>1. y \in j .. m - 1 /\ (y - j) + 2 = x /\ y \in j .. m
    BY <1>1, <1>8, <1>10
  <2>2. owner[y] \in k .. n /\ moved[x] = (owner[y] - k) + 2
    BY <1>5, <1>9, <1>10, <2>1
  <2> HIDE DEF y, moved
  <2>3. b[x] = a[y]
    BY <1>3, <2>1
  <2>4. t[moved[x]] = s[owner[y]]
    BY <1>2, <2>2
  <2>5. moved[x] \in 2 .. Len(t)
    <3>1. \A o \in k .. n : (o - k) + 2 \in 2 .. (n - k) + 2
      BY <1>1
    <3> QED BY <1>2, <2>2, <3>1
  <2> QED BY <2>2, <2>3, <2>4, <2>5 DEF y
<1>11. moved[1] = 1 /\ 1 \in 1 .. Len(b) - 1 /\ 1 \in 1 .. Len(t)
  <2>1. 1 \in 1 .. Len(b) - 1 /\ 1 \in 1 .. Len(t)
    BY <1>1, <1>2, <1>3
  <2> HIDE DEF moved
  <2> QED BY <1>9, <2>1
<1>12. moved \in [1 .. Len(b) - 1 -> 1 .. Len(t)]
  <2>1. \A x \in 1 .. Len(b) - 1 : moved[x] \in 1 .. Len(t)
    <3> HIDE DEF moved
    <3> QED BY <1>1, <1>2, <1>10, <1>11
  <2> QED BY <2>1
<1> HIDE DEF moved
<1>13. ASSUME NEW x \in 1 .. Len(b) - 1, NEW y \in 1 .. Len(b) - 1, x < y PROVE moved[x] < moved[y]
  <2>1. y # 1 /\ moved[y] \in 2 .. Len(t)
    BY <1>10, <1>13
  <2>2. CASE x = 1
    BY <1>11, <2>1, <2>2
  <2>3. CASE x # 1
    <3> DEFINE v == (x - 2) + j
               w == (y - 2) + j
    <3>1. v \in j .. m - 1 /\ w \in j .. m - 1 /\ v < w
      BY <1>1, <1>8, <1>13, <2>1, <2>3
    <3>2. moved[x] = (owner[v] - k) + 2 /\ moved[y] = (owner[w] - k) + 2
      BY <1>10, <2>1, <2>3
    <3> HIDE DEF v, w
    <3>3. owner[v] < owner[w] /\ owner[v] \in k .. n /\ owner[w] \in k .. n
      BY <1>5, <1>6, <3>1
    <3>4. \A o, q \in k .. n : o < q => (o - k) + 2 < (q - k) + 2
      BY <1>1
    <3> QED BY <3>2, <3>3, <3>4
  <2> QED BY <2>2, <2>3
<1>14. \A x \in 1 .. Len(b) - 1 : b[x].value.value_type = Kind(t[moved[x]].type_id)
  <2> SUFFICES ASSUME NEW x \in 1 .. Len(b) - 1 PROVE b[x].value.value_type = Kind(t[moved[x]].type_id)
    OBVIOUS
  <2>1. CASE x = 1
    BY <1>2, <1>3, <1>11, <2>1
  <2>2. CASE x # 1
    <3>1. (x - 2) + j \in j .. m - 1
      BY <1>8, <2>2
    <3> QED BY <1>5, <1>10, <2>2, <3>1
  <2> QED BY <2>1, <2>2
<1>15. ASSUME NEW l \in 1 .. Len(t) PROVE IsNonterminal(t[l]) <=> \E x \in 1 .. Len(b) - 1 : moved[x] = l
  <2>1. CASE l = 1
    BY <1>2, <1>11, <2>1
  <2>2. CASE l # 1
    <3> DEFINE o == (l - 2) + k
    <3>1. o \in k .. n /\ (o - k) + 2 = l
      BY <1>1, <1>2, <2>2
    <3> HIDE DEF o
    <3>2. t[l] = s[o]
      BY <1>2, <3>1
    <3>3. ASSUME NEW x \in 1 .. Len(b) - 1, moved[x] = l PROVE \E y \in j .. m - 1 : owner[y] = o
      <4>1. x # 1
        BY <1>11, <2>2, <3>3
      <4>2. (x - 2) + j \in j .. m - 1 /\ moved[x] = (owner[(x - 2) + j] - k) + 2
        BY <1>8, <1>10, <4>1
      <4>3. owner[(x - 2) + j] \in k .. n
        BY <1>5, <4>2
      <4>4. owner[(x - 2) + j] = o
        <5> DEFINE z == owner[(x - 2) + j]
        <5>1. (z - k) + 2 = (o - k) + 2 /\ z \in Int /\ o \in Int /\ k \in Int
          BY <1>1, <3>1, <3>3, <4>2, <4>3
        <5> HIDE DEF z
        <5>2. z = o
          BY <5>1
        <5> QED BY <5>2 DEF z
      <4> QED BY <4>2, <4>4
    <3>4. ASSUME NEW y \in j .. m - 1, owner[y] = o PROVE \E x \in 1 .. Len(b) - 1 : moved[x] = l
      <4> DEFINE x == (y - j) + 2
      <4>0. \A z \in j .. m - 1 : /\ (z - j) + 2 \in 1 .. ((m - j) + 2) - 1
                                 /\ (z - j) + 2 # 1 /\ (((z - j) + 2) - 2) + j = z
        BY <1>1
      <4>1. x \in 1 .. Len(b) - 1 /\ x # 1 /\ (x - 2) + j = y
        BY <1>3, <4>0
      <4> HIDE DEF x
      <4>2. moved[x] = l
        BY <1>10, <3>1, <3>4, <4>1
      <4> QED BY <4>1, <4>2
    <3> QED BY <1>7, <3>1, <3>2, <3>3, <3>4
  <2> QED BY <2>1, <2>2
<1>16. Owns(moved, t, 1, b, 1)
  BY <1>12, <1>13, <1>14, <1>15 DEF Owns
<1> QED BY <1>16 DEF Owned, t, b, n, m
-----------------------------------------------------------------------------
(* The stack of analyzers, and what its values leave on the data stack     *)

Actions == {r.sem_action : r \in rules}
Entries == {Analyzer(act, "EXPR", t) : act \in Actions, t \in Types}
           \cup {Analyzer(act, "LIST", l) : act \in Actions, l \in Seq(Types)}

\* Values above the statement that asked for the expression
Analyzers(a) ==
    /\ a \in Seq(Entries \cup {Parent})
    /\ Len(a) # 0
    /\ a[Len(a)] = Parent
    /\ \A k \in 1 .. Len(a) - 1 : a[k] \in Entries

Left(a) == [k \in DOMAIN a |-> TypesLeftBy(a[k].value)]
OnData(a) == FlattenSeq(Left(a))

LEMMA EntryLeaves ==
    ASSUME NEW e \in Entries \cup {Parent}
    PROVE  /\ TypesLeftBy(e.value) \in Seq(Types)
           /\ e.value.value_type = "EXPR" => e.value.type \in Types /\ TypesLeftBy(e.value) = <<e.value.type>>
           /\ e.value.value_type = "LIST" =>
                 e.value.type \in Seq(Types) /\ TypesLeftBy(e.value) = Reverse(e.value.type)
           /\ e = Parent => TypesLeftBy(e.value) = << >>
           /\ e \in Entries => e.value.value_type \in {"EXPR", "LIST"}
<1>1. CASE e = Parent
  <2>1. e.value.value_type = "none"
    BY <1>1 DEF Parent
  <2>2. TypesLeftBy(e.value) = << >>
    BY <2>1 DEF TypesLeftBy
  <2>3. e \notin Entries
    <3>1. \A act, v, t : Analyzer(act, v, t).value.value_type = v
      BY DEF Analyzer
    <3> QED BY <2>1, <3>1 DEF Entries
  <2> QED BY <1>1, <2>1, <2>2, <2>3
<1>2. CASE e \in Entries
  <2>0. e # Parent
    <3>1. \A act, v, t : Analyzer(act, v, t).value.value_type = v
      BY DEF Analyzer
    <3>2. Parent.value.value_type = "none"
      BY DEF Parent
    <3> QED BY <1>2, <3>1, <3>2 DEF Entries
  <2>1. CASE \E act \in Actions : \E t \in Types : e = Analyzer(act, "EXPR", t)
    <3>1. PICK act \in Actions, t \in Types : e = Analyzer(act, "EXPR", t)
      BY <2>1
    <3>2. e.value.value_type = "EXPR" /\ e.value.type = t
      BY <3>1 DEF Analyzer
    <3>3. TypesLeftBy(e.value) = <<t>>
      BY <3>2 DEF TypesLeftBy
    <3> QED BY <2>0, <3>2, <3>3
  <2>2. CASE \E act \in Actions : \E l \in Seq(Types) : e = Analyzer(act, "LIST", l)
    <3>1. PICK act \in Actions, l \in Seq(Types) : e = Analyzer(act, "LIST", l)
      BY <2>2
    <3>2. e.value.value_type = "LIST" /\ e.value.type = l
      BY <3>1 DEF Analyzer
    <3>3. TypesLeftBy(e.value) = Reverse(l)
      BY <3>2 DEF TypesLeftBy
    <3>4. Reverse(l) \in Seq(Types)
      BY ReverseOf
    <3> QED BY <2>0, <3>2, <3>3, <3>4
  <2> QED BY <1>2, <2>1, <2>2 DEF Entries
<1> QED BY <1>1, <1>2

LEMMA OnDataOfLonger ==
    ASSUME NEW a \in Seq(Entries \cup {Parent}), NEW e \in Entries \cup {Parent}
    PROVE  OnData(a) \in Seq(Types) /\ OnData(<<e>> \o a) = TypesLeftBy(e.value) \o OnData(a)
<1> DEFINE E == Entries \cup {Parent}
           x == TypesLeftBy(e.value)
           n == Len(a)
           b == <<e>> \o a
<1>1. n \in Nat /\ DOMAIN a = 1 .. n /\ \A k \in 1 .. n : a[k] \in E
  BY LenProperties, ElementOfSeq
<1>2. b \in Seq(E) /\ Len(b) = n + 1 /\ \A k \in 1 .. n + 1 : b[k] = IF k <= 1 THEN e ELSE a[k - 1]
  <2> DEFINE o == <<e>>
  <2>1. o \in Seq(E) /\ Len(o) = 1 /\ o[1] = e
    OBVIOUS
  <2> HIDE DEF o
  <2>2. o \o a \in Seq(E) /\ Len(o \o a) = Len(o) + Len(a)
        /\ \A k \in 1 .. Len(o) + Len(a) : (o \o a)[k] = IF k <= Len(o) THEN o[k] ELSE a[k - Len(o)]
    BY <2>1, ConcatProperties
  <2>3. b = o \o a
    BY DEF o
  <2> HIDE DEF b
  <2> QED BY <1>1, <2>1, <2>2, <2>3
<1> HIDE DEF b, n
<1>3. \A f \in E : TypesLeftBy(f.value) \in Seq(Types)
  BY EntryLeaves
<1> HIDE DEF E
<1>4. x \in Seq(Types)
  BY <1>3 DEF E
<1>5. Left(a) \in Seq(Seq(Types)) /\ Len(Left(a)) = n /\ \A k \in 1 .. n : Left(a)[k] = TypesLeftBy(a[k].value)
  <2>1. Left(a) \in [1 .. n -> Seq(Types)]
    BY <1>1, <1>3 DEF Left
  <2>2. \A s \in [1 .. n -> Seq(Types)] : s \in Seq(Seq(Types)) /\ Len(s) = n
    BY <1>1
  <2>3. \A k \in 1 .. n : Left(a)[k] = TypesLeftBy(a[k].value)
    BY <1>1 DEF Left
  <2> QED BY <2>1, <2>2, <2>3
<1>6. /\ Left(b) \in Seq(Seq(Types)) /\ Len(Left(b)) = n + 1
      /\ \A k \in 1 .. n + 1 : Left(b)[k] = TypesLeftBy(b[k].value)
  <2>0. DOMAIN b = 1 .. n + 1 /\ \A k \in 1 .. n + 1 : b[k] \in E
    BY <1>2, LenProperties, ElementOfSeq
  <2>1. Left(b) \in [1 .. n + 1 -> Seq(Types)]
    BY <1>3, <2>0 DEF Left
  <2>2. \A s \in [1 .. n + 1 -> Seq(Types)] : s \in Seq(Seq(Types)) /\ Len(s) = n + 1
    BY <1>1
  <2>3. \A k \in 1 .. n + 1 : Left(b)[k] = TypesLeftBy(b[k].value)
    BY <2>0 DEF Left
  <2> QED BY <2>1, <2>2, <2>3
<1> HIDE DEF x
<1> DEFINE t == <<x>> \o Left(a)
<1>7. t \in Seq(Seq(Types)) /\ Len(t) = n + 1 /\ \A k \in 1 .. n + 1 : t[k] = IF k <= 1 THEN x ELSE Left(a)[k - 1]
  <2> DEFINE o == <<x>>
             l == Left(a)
  <2>1. o \in Seq(Seq(Types)) /\ Len(o) = 1 /\ o[1] = x /\ l \in Seq(Seq(Types)) /\ Len(l) = n
    BY <1>4, <1>5
  <2> HIDE DEF o, l
  <2>2. o \o l \in Seq(Seq(Types)) /\ Len(o \o l) = Len(o) + Len(l)
        /\ \A k \in 1 .. Len(o) + Len(l) : (o \o l)[k] = IF k <= Len(o) THEN o[k] ELSE l[k - Len(o)]
    BY <2>1, ConcatProperties
  <2>3. t = o \o l
    BY DEF o, l
  <2> HIDE DEF t
  <2>4. t \in Seq(Seq(Types)) /\ Len(t) = n + 1 /\ \A k \in 1 .. n + 1 : t[k] = IF k <= 1 THEN x ELSE l[k - 1]
    BY <1>1, <2>1, <2>2, <2>3
  <2> QED BY <2>4 DEF l
<1> HIDE DEF t
<1>8. ASSUME NEW k \in 1 .. Len(t) PROVE Left(b)[k] = t[k]
  <2>0. k \in 1 .. n + 1
    BY <1>7
  <2>1. CASE k = 1
    <3>1. b[k] = e /\ t[k] = x
      BY <1>2, <1>7, <2>0, <2>1
    <3> QED BY <1>6, <2>0, <3>1 DEF x
  <2>2. CASE k # 1
    <3>1. ~(k <= 1) /\ k - 1 \in 1 .. n
      BY <1>1, <2>0, <2>2
    <3>2. b[k] = a[k - 1] /\ t[k] = Left(a)[k - 1]
      BY <1>2, <1>7, <2>0, <3>1
    <3> QED BY <1>5, <1>6, <2>0, <3>1, <3>2
  <2> QED BY <2>1, <2>2
<1>9. Left(b) = t
  BY <1>6, <1>7, <1>8, SeqEqual
<1>10. OnData(a) \in Seq(Types) /\ FlattenSeq(t) = x \o OnData(a)
  BY <1>4, <1>5, FlattenSeqOfLonger DEF t, OnData
<1> QED BY <1>9, <1>10 DEF OnData, b, x

LEMMA OnDataOfParent ==
    Analyzers(<<Parent>>) /\ OnData(<<Parent>>) = << >>
<1>1. Analyzers(<<Parent>>)
  <2> DEFINE a == <<Parent>>
  <2>1. a \in Seq(Entries \cup {Parent}) /\ Len(a) = 1 /\ a[1] = Parent
    OBVIOUS
  <2> HIDE DEF a
  <2>2. Analyzers(a)
    BY <2>1 DEF Analyzers
  <2> QED BY <2>2 DEF a
<1>2. << >> \in Seq(Entries \cup {Parent}) /\ <<Parent>> \in Seq(Entries \cup {Parent})
  OBVIOUS
<1>3. OnData(<<Parent>> \o << >>) = TypesLeftBy(Parent.value) \o OnData(<< >>)
  BY <1>2, OnDataOfLonger
<1>4. TypesLeftBy(Parent.value) = << >>
  BY EntryLeaves
<1>5. <<Parent>> \o << >> = <<Parent>>
  BY <1>2, ConcatEmptySeq
<1>6. OnData(<< >>) = << >>
  <2>1. Left(<< >>) = << >>
    BY DEF Left
  <2>2. FlattenSeq(<< >>) = << >>
    BY DEF FlattenSeq
  <2> QED BY <2>1, <2>2 DEF OnData
<1> QED BY <1>1, <1>3, <1>4, <1>5, <1>6

LEMMA AnalyzersBelow ==
    ASSUME NEW a, Analyzers(a), NEW j \in 1 .. Len(a)
    PROVE  /\ OnData(SubSeq(a, j, Len(a))) \in Seq(Types)
           /\ j < Len(a) => OnData(SubSeq(a, j, Len(a)))
                             = TypesLeftBy(a[j].value) \o OnData(SubSeq(a, j + 1, Len(a)))
           /\ \A e \in Entries : /\ Analyzers(<<e>> \o SubSeq(a, j, Len(a)))
                                  /\ OnData(<<e>> \o SubSeq(a, j, Len(a)))
                                     = TypesLeftBy(e.value) \o OnData(SubSeq(a, j, Len(a)))
<1> DEFINE E == Entries \cup {Parent}
           n == Len(a)
           From(k) == SubSeq(a, k, n)
<1>1. /\ a \in Seq(E) /\ n \in Nat /\ j \in 1 .. n /\ a[n] = Parent
      /\ \A k \in 1 .. n - 1 : a[k] \in Entries
  BY LenProperties DEF Analyzers
<1>2. \A k \in 1 .. n : From(k) \in Seq(E)
  <2>1. \A k \in 1 .. n : a[k] \in E
    BY <1>1, ElementOfSeq
  <2> SUFFICES ASSUME NEW k \in 1 .. n PROVE From(k) \in Seq(E)
    OBVIOUS
  <2>2. k \in Int /\ n \in Int /\ \A l \in k .. n : a[l] \in E
    BY <1>1, <2>1
  <2> HIDE DEF n
  <2> QED BY <2>2, SubSeqProperties
<1>3. OnData(From(j)) \in Seq(Types)
  <2>1. Parent \in E
    OBVIOUS
  <2> QED BY <1>1, <1>2, <2>1, OnDataOfLonger
<1>4. ASSUME j < n PROVE OnData(From(j)) = TypesLeftBy(a[j].value) \o OnData(From(j + 1))
  <2>1. j + 1 \in 1 .. n /\ j \in 1 .. n - 1 /\ j <= n /\ j \in 1 .. n + 1
    BY <1>1, <1>4
  <2>2. From(j) = <<a[j]>> \o From(j + 1)
    BY <1>1, <2>1, InFront
  <2>3. From(j + 1) \in Seq(E) /\ a[j] \in E
    BY <1>1, <1>2, <2>1
  <2> HIDE DEF From
  <2> QED BY <2>2, <2>3, OnDataOfLonger
<1>5. ASSUME NEW e \in Entries
      PROVE  Analyzers(<<e>> \o From(j)) /\ OnData(<<e>> \o From(j)) = TypesLeftBy(e.value) \o OnData(From(j))
  <2> DEFINE b == <<e>> \o From(j)
  <2>1. OnData(b) = TypesLeftBy(e.value) \o OnData(From(j))
    <3>1. From(j) \in Seq(E) /\ e \in E
      BY <1>1, <1>2
    <3> HIDE DEF From
    <3> QED BY <3>1, OnDataOfLonger
  <2>2. /\ b \in Seq(E) /\ Len(b) = (n - j) + 2 /\ b[1] = e
        /\ \A k \in j .. n : b[(k - j) + 2] = a[k]
    <3>1. j \in 1 .. n + 1 /\ e \in E
      BY <1>1
    <3> QED BY <1>1, <3>1, InFront
  <2> HIDE DEF b, n
  <2>3. Len(b) # 0 /\ b[Len(b)] = Parent
    <3>1. n \in j .. n /\ Len(b) = (n - j) + 2
      BY <1>1, <2>2
    <3> QED BY <1>1, <2>2, <3>1
  <2>4. ASSUME NEW k \in 1 .. Len(b) - 1 PROVE b[k] \in Entries
    <3>1. CASE k = 1
      BY <2>2, <3>1
    <3>2. CASE k # 1
      <4>1. (k - 2) + j \in j .. n /\ (((k - 2) + j) - j) + 2 = k /\ (k - 2) + j \in 1 .. n - 1
        BY <1>1, <2>2, <3>2
      <4> QED BY <1>1, <2>2, <4>1
    <3> QED BY <3>1, <3>2
  <2>5. Analyzers(b)
    BY <2>2, <2>3, <2>4 DEF Analyzers
  <2> QED BY <2>1, <2>5 DEF b
<1> QED BY <1>3, <1>4, <1>5

LEMMA CardinalityOfImage ==
    ASSUME NEW n \in Nat, NEW f, \A x, y \in 1 .. n : f[x] = f[y] => x = y
    PROVE  Cardinality({f[x] : x \in 1 .. n}) = n
<1> DEFINE T == {f[x] : x \in 1 .. n}
           g == [x \in 1 .. n |-> f[x]]
<1>1. IsFiniteSet(1 .. n) /\ Cardinality(1 .. n) = n
  BY FS_Interval
<1>2. g \in [1 .. n -> T]
  OBVIOUS
<1>3. g \in Injection(1 .. n, T)
  BY <1>2 DEF Injection, IsInjective
<1>4. g \in Surjection(1 .. n, T)
  BY <1>2 DEF Surjection
<1>5. ExistsBijection(1 .. n, T)
  BY <1>3, <1>4 DEF ExistsBijection, Bijection
<1>6. Cardinality(T) = Cardinality(1 .. n)
  BY <1>1, <1>5, FS_Bijection
<1> QED BY <1>1, <1>6

(* To be owned is what the check asks of both stacks.                      *)
LEMMA OwnedMatches ==
    ASSUME Len(ext_stack) \in Nat, Analyzers(sem_an_stack), Owned(ext_stack, 1, sem_an_stack, 1)
    PROVE  AnalyzersMatchNonterminals
<1> DEFINE n == Len(ext_stack)
           m == Len(sem_an_stack) - 1
<1>1. PICK owner : Owns(owner, ext_stack, 1, sem_an_stack, 1)
  BY DEF Owned
<1>2. m \in Nat /\ Len(sem_an_stack) = m + 1
  BY LenProperties DEF Analyzers
<1>3. /\ \A x \in 1 .. m : owner[x] \in 1 .. n
      /\ \A x, y \in 1 .. m : x < y => owner[x] < owner[y]
      /\ \A l \in 1 .. n : ext_stack[l].type_id \in Nonterminals <=> \E x \in 1 .. m : owner[x] = l
      /\ \A x \in 1 .. m : sem_an_stack[x].value.value_type = Kind(ext_stack[owner[x]].type_id)
  BY <1>1 DEF Owns, IsNonterminal
<1> HIDE DEF n, m
<1>4. \A x, y \in 1 .. m : owner[x] = owner[y] => x = y
  BY <1>2, <1>3
<1>5. NonterminalsTo(n) = {owner[x] : x \in 1 .. m}
  BY <1>3 DEF NonterminalsTo, n
<1>6. Cardinality(NonterminalsTo(n)) = m
  BY <1>2, <1>4, <1>5, CardinalityOfImage
<1>7. ASSUME NEW k \in NonterminalsTo(n)
      PROVE  sem_an_stack[Cardinality(NonterminalsTo(k))].value.value_type = Kind(ext_stack[k].type_id)
  <2>1. PICK x \in 1 .. m : owner[x] = k
    BY <1>5
  <2>2. \A y \in 1 .. m : owner[y] <= k <=> y <= x
    BY <1>2, <1>3, <2>1
  <2>3. NonterminalsTo(k) = {owner[y] : y \in 1 .. x}
    <3>1. k \in 1 .. n
      BY <1>3, <2>1
    <3>2. ASSUME NEW l \in NonterminalsTo(k) PROVE \E y \in 1 .. x : owner[y] = l
      <4>1. l \in 1 .. k /\ l \in 1 .. n /\ ext_stack[l].type_id \in Nonterminals
        BY <3>1 DEF NonterminalsTo, n
      <4>2. PICK y \in 1 .. m : owner[y] = l
        BY <1>3, <4>1
      <4>3. y <= x
        BY <2>2, <4>1, <4>2
      <4>4. y \in 1 .. x
        BY <1>2, <4>3
      <4> QED BY <4>2, <4>4
    <3>3. ASSUME NEW y \in 1 .. x PROVE owner[y] \in NonterminalsTo(k)
      <4>1. y \in 1 .. m
        BY <1>2
      <4>2. owner[y] \in 1 .. n /\ owner[y] <= k /\ ext_stack[owner[y]].type_id \in Nonterminals
        BY <1>3, <2>2, <4>1
      <4>3. owner[y] \in 1 .. k
        BY <3>1, <4>2
      <4> QED BY <4>2, <4>3 DEF NonterminalsTo
    <3> QED BY <3>2, <3>3
  <2>4. Cardinality(NonterminalsTo(k)) = x
    <3>1. x \in Nat /\ \A y, z \in 1 .. x : owner[y] = owner[z] => y = z
      <4>1. x \in Nat /\ \A y \in 1 .. x : y \in 1 .. m
        BY <1>2
      <4> QED BY <1>4, <4>1
    <3> QED BY <2>3, <3>1, CardinalityOfImage
  <2> QED BY <1>3, <2>1, <2>4
<1>8. Last(sem_an_stack) = Parent
  BY DEF Analyzers, Last
<1> QED BY <1>2, <1>6, <1>7, <1>8 DEF AnalyzersMatchNonterminals, n
-----------------------------------------------------------------------------
(* The table and the rules                                                 *)

LEMMA Classes ==
    /\ \A t : pt_map_token(t) \in PtIndices
    /\ pt_map_token("HANDLE_MARKER") = "END" /\ pt_map_token("END_MARKER") = "END"
  BY DEF pt_map_token, PtIndices, Additive, Relational, Constants

\* No column is in two classes of actions; nothing is shifted at the end.
LEMMA Columns ==
    ASSUME NEW row \in PtIndices
    PROVE  /\ "END" \notin ShiftColumns(row)
           /\ ShiftColumns(row) \cap ReduceColumns(row) = {}
           /\ row = "ID" => "LPAR" \notin ShiftColumns(row) \cup ReduceColumns(row)
           /\ row = "LPAR" => "RPAR" \notin ShiftColumns(row) \cup ReduceColumns(row)
           /\ row = "END" => "END" \notin ShiftColumns(row) \cup ReduceColumns(row)
  BY DEF PtIndices, ShiftColumns, ReduceColumns, Tighter, Starting, Ending, Closing

LEMMA ActionsMean ==
    ASSUME NEW top, NEW t
    PROVE  LET row == pt_map_token(top)
               column == pt_map_token(t)
           IN  /\ GET_ACTION(top, t) \in {"HANDLE", "PUSH"} => column # "END"
               /\ GET_ACTION(top, t) = "SUCCESS" => row = "END" /\ column = "END"
<1> DEFINE row == pt_map_token(top)
           column == pt_map_token(t)
           push == <<row, column>> \in {<<"ID", "LPAR">>, <<"LPAR", "RPAR">>}
           shift == column \in ShiftColumns(row)
           reduce == column \in ReduceColumns(row)
           success == row = "END" /\ column = "END"
<1>1. row \in PtIndices /\ column \in PtIndices
  BY Classes
<1>2. push => (row = "ID" /\ column = "LPAR") \/ (row = "LPAR" /\ column = "RPAR")
  OBVIOUS
<1>3. /\ shift => ~reduce /\ ~push /\ ~success /\ column # "END"
      /\ reduce => ~push /\ ~success
      /\ push => ~success /\ column # "END"
  <2> HIDE DEF row, column
  <2> QED BY <1>1, <1>2, Columns
<1>4. GET_ACTION(top, t) = CASE shift -> "HANDLE"
                              [] reduce -> "REDUCE"
                              [] push -> "PUSH"
                              [] success -> "SUCCESS"
                              [] OTHER -> "ERROR"
  BY DEF GET_ACTION
<1> HIDE DEF shift, reduce, push
<1>5. /\ shift => GET_ACTION(top, t) = "HANDLE"
      /\ reduce => GET_ACTION(top, t) = "REDUCE"
      /\ push => GET_ACTION(top, t) = "PUSH"
      /\ success => GET_ACTION(top, t) = "SUCCESS"
      /\ ~shift /\ ~reduce /\ ~push /\ ~success => GET_ACTION(top, t) = "ERROR"
  <2> HIDE DEF success
  <2> QED BY <1>3, <1>4
<1> QED BY <1>3, <1>5

E == "NT_EXPRESSION"
L == "NT_LIST"

LEMMA RuleOf ==
    ASSUME NEW act, NEW nt, NEW productions, NEW r \in Rule(act, nt, productions)
    PROVE  r.sem_action = act /\ r.for_nt = nt /\ r.production \in productions
  BY DEF Rule

LEMMA RuleCases ==
    ASSUME NEW r \in rules
    PROVE  \/ /\ r.sem_action \in {"sem_expr_id", "sem_expr_const"} /\ r.for_nt = E
              /\ \E x : /\ r.production = <<x>>
                        /\ IF r.sem_action = "sem_expr_id" THEN x = "IDENTIFIER" ELSE x \in Constants
           \/ /\ r.sem_action = "sem_expr_func" /\ r.for_nt = E
              /\ \/ r.production = <<"RPAR", "LPAR", "IDENTIFIER">>
                 \/ \E nt \in Nonterminals : r.production = <<"RPAR", nt, "LPAR", "IDENTIFIER">>
           \/ /\ r.sem_action = "sem_expr_brackets" /\ r.for_nt = E
              /\ r.production = <<"RPAR", E, "LPAR">>
           \/ /\ r.for_nt = E
              /\ \/ r.sem_action = "sem_expr_unary" /\ r.production = <<E, "UNARY_MINUS">>
                 \/ r.sem_action = "sem_expr_and_or_not" /\ r.production = <<E, "NOT">>
           \/ /\ r.for_nt = E
              /\ \E op : /\ r.production = <<E, op, E>>
                         /\ \/ r.sem_action = "sem_expr_aritmetic_basic" /\ op \in {"ADD", "SUB", "MUL"}
                            \/ r.sem_action = "sem_expr_div" /\ op \in Dividing
                            \/ r.sem_action = "sem_expr_eq_ne" /\ op \in {"EQUAL", "NE"}
                            \/ r.sem_action = "sem_expr_lte_gte" /\ op \in {"LT", "GT", "LE", "GE"}
                            \/ r.sem_action = "sem_expr_and_or_not" /\ op \in {"AND", "OR"}
           \/ /\ r.for_nt = L
              /\ \/ r.sem_action = "sem_expr_list" /\ r.production = <<E, "COMMA", E>>
                 \/ r.sem_action = "sem_expr_list_expr" /\ r.production = <<E, "COMMA", L>>
<1>1. \/ r \in Rule("sem_expr_func", E, {<<"RPAR", "LPAR", "IDENTIFIER">>,
                                        <<"RPAR", E, "LPAR", "IDENTIFIER">>,
                                        <<"RPAR", L, "LPAR", "IDENTIFIER">>})
      \/ r \in Rule("sem_expr_list_expr", L, {<<E, "COMMA", L>>})
      \/ r \in Rule("sem_expr_list", L, {<<E, "COMMA", E>>})
      \/ r \in Rule("sem_expr_id", E, {<<"IDENTIFIER">>})
      \/ r \in Rule("sem_expr_const", E, {<<c>> : c \in Constants})
      \/ r \in Rule("sem_expr_brackets", E, {<<"RPAR", E, "LPAR">>})
      \/ r \in Rule("sem_expr_unary", E, {<<E, "UNARY_MINUS">>})
      \/ r \in Rule("sem_expr_aritmetic_basic", E, Binary(Additive \cup {"MUL"}))
      \/ r \in Rule("sem_expr_div", E, Binary(Dividing))
      \/ r \in Rule("sem_expr_eq_ne", E, Binary({"EQUAL", "NE"}))
      \/ r \in Rule("sem_expr_lte_gte", E, Binary(Relational \ {"EQUAL", "NE"}))
      \/ r \in Rule("sem_expr_and_or_not", E, {<<E, "NOT">>} \cup Binary({"AND", "OR"}))
  BY DEF rules, E, L
<1>2. CASE r \in Rule("sem_expr_func", E, {<<"RPAR", "LPAR", "IDENTIFIER">>,
                                        <<"RPAR", E, "LPAR", "IDENTIFIER">>,
                                        <<"RPAR", L, "LPAR", "IDENTIFIER">>})
  <2>1. E \in Nonterminals /\ L \in Nonterminals
    BY DEF E, L, Nonterminals
  <2>2. /\ r.sem_action = "sem_expr_func" /\ r.for_nt = E
        /\ r.production \in {<<"RPAR", "LPAR", "IDENTIFIER">>, <<"RPAR", E, "LPAR", "IDENTIFIER">>,
                              <<"RPAR", L, "LPAR", "IDENTIFIER">>}
    BY <1>2, RuleOf
  <2> QED BY <2>1, <2>2
<1>3. CASE r \in Rule("sem_expr_list_expr", L, {<<E, "COMMA", L>>})
  BY <1>3, RuleOf
<1>4. CASE r \in Rule("sem_expr_list", L, {<<E, "COMMA", E>>})
  BY <1>4, RuleOf
<1>5. CASE r \in Rule("sem_expr_id", E, {<<"IDENTIFIER">>})
  BY <1>5, RuleOf
<1>6. CASE r \in Rule("sem_expr_const", E, {<<c>> : c \in Constants})
  <2>1. r.sem_action = "sem_expr_const" /\ r.for_nt = E /\ r.production \in {<<c>> : c \in Constants}
    BY <1>6, RuleOf
  <2> QED BY <2>1
<1>7. CASE r \in Rule("sem_expr_brackets", E, {<<"RPAR", E, "LPAR">>})
  BY <1>7, RuleOf
<1>8. CASE r \in Rule("sem_expr_unary", E, {<<E, "UNARY_MINUS">>})
  BY <1>8, RuleOf
<1>9. ASSUME NEW act, NEW ops, r \in Rule(act, E, Binary(ops))
      PROVE  r.sem_action = act /\ r.for_nt = E /\ \E op \in ops : r.production = <<E, op, E>>
  <2>1. r.sem_action = act /\ r.for_nt = E /\ r.production \in Binary(ops)
    BY <1>9, RuleOf
  <2> QED BY <2>1 DEF Binary, E
<1>10. CASE r \in Rule("sem_expr_aritmetic_basic", E, Binary(Additive \cup {"MUL"}))
  <2>1. PICK op \in Additive \cup {"MUL"} : r.production = <<E, op, E>>
    BY <1>9, <1>10
  <2>2. r.sem_action = "sem_expr_aritmetic_basic" /\ r.for_nt = E
    BY <1>9, <1>10
  <2> QED BY <2>1, <2>2 DEF Additive
<1>11. CASE r \in Rule("sem_expr_div", E, Binary(Dividing))
  <2>1. PICK op \in Dividing : r.production = <<E, op, E>>
    BY <1>9, <1>11
  <2>2. r.sem_action = "sem_expr_div" /\ r.for_nt = E
    BY <1>9, <1>11
  <2> QED BY <2>1, <2>2
<1>12. CASE r \in Rule("sem_expr_eq_ne", E, Binary({"EQUAL", "NE"}))
  <2>1. PICK op \in {"EQUAL", "NE"} : r.production = <<E, op, E>>
    BY <1>9, <1>12
  <2>2. r.sem_action = "sem_expr_eq_ne" /\ r.for_nt = E
    BY <1>9, <1>12
  <2> QED BY <2>1, <2>2
<1>13. CASE r \in Rule("sem_expr_lte_gte", E, Binary(Relational \ {"EQUAL", "NE"}))
  <2>1. PICK op \in Relational \ {"EQUAL", "NE"} : r.production = <<E, op, E>>
    BY <1>9, <1>13
  <2>2. r.sem_action = "sem_expr_lte_gte" /\ r.for_nt = E
    BY <1>9, <1>13
  <2> QED BY <2>1, <2>2 DEF Relational
<1>14. CASE r \in Rule("sem_expr_and_or_not", E, {<<E, "NOT">>} \cup Binary({"AND", "OR"}))
  <2>1. /\ r.sem_action = "sem_expr_and_or_not" /\ r.for_nt = E
        /\ r.production \in {<<E, "NOT">>} \cup Binary({"AND", "OR"})
    BY <1>14, RuleOf
  <2>2. CASE r.production = <<E, "NOT">>
    BY <2>1, <2>2
  <2>3. CASE r.production \in Binary({"AND", "OR"})
    <3>1. PICK op \in {"AND", "OR"} : r.production = <<E, op, E>>
      BY <2>3 DEF Binary, E
    <3> QED BY <2>1, <3>1
  <2> QED BY <2>1, <2>2, <2>3
<1> QED BY <1>1, <1>2, <1>3, <1>4, <1>5, <1>6, <1>7, <1>8, <1>10, <1>11, <1>12, <1>13, <1>14

\* How many values a right side stands for
LEMMA PoppedBy ==
    ASSUME NEW r
    PROVE  /\ \A x : r.production = <<x>> /\ x \notin Nonterminals => Popped(r) = 0
           /\ \A x, y, z : r.production = <<x, y, z>> /\ {x, y, z} \cap Nonterminals = {} => Popped(r) = 0
           /\ \A x, y : r.production = <<x, y>> /\ x \in Nonterminals /\ y \notin Nonterminals => Popped(r) = 1
           /\ \A x, y, z : r.production = <<x, y, z>> /\ y \in Nonterminals /\ {x, z} \cap Nonterminals = {} =>
                 Popped(r) = 1
           /\ \A x, y, z, w : r.production = <<x, y, z, w>> /\ y \in Nonterminals /\ {x, z, w} \cap Nonterminals = {} =>
                 Popped(r) = 1
           /\ \A x, y, z : r.production = <<x, y, z>> /\ y \notin Nonterminals /\ {x, z} \subseteq Nonterminals =>
                 Popped(r) = 2
<1> DEFINE places == {k \in DOMAIN r.production : r.production[k] \in Nonterminals}
<1>1. Popped(r) = Cardinality(places)
  BY DEF Popped
<1>2. Cardinality({}) = 0 /\ (\A x : Cardinality({x}) = 1) /\ Cardinality({1, 3}) = 2
  <2>1. IsFiniteSet({1}) /\ Cardinality({1}) = 1
    BY FS_Singleton
  <2>2. Cardinality({1} \cup {3}) = 2
    BY <2>1, FS_AddElement
  <2>3. {1} \cup {3} = {1, 3}
    OBVIOUS
  <2> QED BY <2>2, <2>3, FS_Singleton, FS_EmptySet
<1>3. ASSUME NEW x, r.production = <<x>>, x \notin Nonterminals PROVE Popped(r) = 0
  <2>1. places = {}
    BY <1>3
  <2> HIDE DEF places
  <2> QED BY <1>1, <1>2, <2>1
<1>4. ASSUME NEW x, NEW y, NEW z, r.production = <<x, y, z>>, {x, y, z} \cap Nonterminals = {} PROVE Popped(r) = 0
  <2>1. places = {}
    BY <1>4
  <2> HIDE DEF places
  <2> QED BY <1>1, <1>2, <2>1
<1>5. ASSUME NEW x, NEW y, r.production = <<x, y>>, x \in Nonterminals, y \notin Nonterminals PROVE Popped(r) = 1
  <2>1. places = {1}
    BY <1>5
  <2> HIDE DEF places
  <2> QED BY <1>1, <1>2, <2>1
<1>6. ASSUME NEW x, NEW y, NEW z, r.production = <<x, y, z>>, y \in Nonterminals, {x, z} \cap Nonterminals = {}
      PROVE  Popped(r) = 1
  <2>1. places = {2}
    BY <1>6
  <2> HIDE DEF places
  <2> QED BY <1>1, <1>2, <2>1
<1>7. ASSUME NEW x, NEW y, NEW z, NEW w, r.production = <<x, y, z, w>>, y \in Nonterminals,
             {x, z, w} \cap Nonterminals = {}
      PROVE  Popped(r) = 1
  <2>1. places = {2}
    BY <1>7
  <2> HIDE DEF places
  <2> QED BY <1>1, <1>2, <2>1
<1>8. ASSUME NEW x, NEW y, NEW z, r.production = <<x, y, z>>, y \notin Nonterminals, {x, z} \subseteq Nonterminals
      PROVE  Popped(r) = 2
  <2>1. places = {1, 3}
    BY <1>8
  <2> HIDE DEF places
  <2> QED BY <1>1, <1>2, <2>1
<1> HIDE DEF places
<1> QED BY <1>3, <1>4, <1>5, <1>6, <1>7, <1>8
-----------------------------------------------------------------------------
(* The extended stack: its end is at the bottom and nowhere else, every    *)
(* token on it has a row of its own, and below a handle marker, as below   *)
(* a nonterminal on the top, there is a token or the end.                  *)

Below == Nonterminals \cup {"HANDLE_MARKER"}

Shape(s) ==
    /\ s \in Seq(Items) /\ Len(s) # 0
    /\ \A k \in 1 .. Len(s) : s[k].type_id = "END_MARKER" <=> k = Len(s)
    /\ \A k \in 1 .. Len(s) : s[k].type_id \notin Nonterminals \cup Markers => pt_map_token(s[k].type_id) # "END"
    /\ \A k \in 1 .. Len(s) : s[k].type_id = "HANDLE_MARKER" => s[k + 1].type_id \notin Below
    /\ s[1].type_id # "HANDLE_MARKER"
    /\ s[1].type_id \in Nonterminals => s[2].type_id \notin Below

LEMMA TopOfShape ==
    ASSUME Shape(ext_stack)
    PROVE  /\ TopTerminal \in 1 .. Len(ext_stack) /\ TopTerminal \in 1 .. 2
           /\ ext_stack[TopTerminal].type_id \notin Below
           /\ TopTerminal = 2 <=> ext_stack[1].type_id \in Nonterminals
<1> DEFINE s == ext_stack
           n == Len(s)
           IsTop(k) == /\ k \in DOMAIN s
                       /\ s[k].type_id \notin Nonterminals
                       /\ \A j \in 1 .. k - 1 : s[j].type_id \in Nonterminals
           top == IF s[1].type_id \in Nonterminals THEN 2 ELSE 1
<1>1. n \in Nat /\ n # 0 /\ DOMAIN s = 1 .. n /\ s[n].type_id \notin Nonterminals
  <2>1. n \in Nat /\ n # 0 /\ DOMAIN s = 1 .. n
    BY LenProperties DEF Shape
  <2>2. \A k \in 1 .. n : s[k].type_id = "END_MARKER" <=> k = n
    BY DEF Shape
  <2> HIDE DEF n, s
  <2>3. s[n].type_id = "END_MARKER"
    BY <2>1, <2>2
  <2> QED BY <2>1, <2>3 DEF Nonterminals
<1>2. /\ s[1].type_id # "HANDLE_MARKER"
      /\ s[1].type_id \in Nonterminals => s[2].type_id \notin Below
  BY DEF Shape
<1>3. TopTerminal = CHOOSE k : IsTop(k)
  BY DEF TopTerminal
<1> HIDE DEF s, n
<1>4. top \in 1 .. n
  BY <1>1
<1>5. IsTop(top)
  <2>1. s[top].type_id \notin Nonterminals
    BY <1>2 DEF Below
  <2>2. \A j \in 1 .. top - 1 : s[j].type_id \in Nonterminals
    OBVIOUS
  <2> QED BY <1>1, <1>4, <2>1, <2>2
<1>6. \A k : IsTop(k) => k = top
  <2> SUFFICES ASSUME NEW k, IsTop(k) PROVE k = top
    OBVIOUS
  <2>1. k \in 1 .. n
    BY <1>1
  <2>2. CASE s[1].type_id \in Nonterminals
    <3>1. k # 1
      BY <2>2
    <3>2. ~(k > 2)
      <4>1. s[2].type_id \notin Nonterminals
        BY <1>2, <2>2 DEF Below
      <4> QED BY <2>1, <4>1
    <3> QED BY <2>1, <2>2, <3>1, <3>2
  <2>3. CASE s[1].type_id \notin Nonterminals
    <3>1. ~(k > 1)
      BY <2>1, <2>3
    <3> QED BY <2>1, <2>3, <3>1
  <2> QED BY <2>2, <2>3
<1> HIDE DEF IsTop
<1>7. TopTerminal = top
  BY <1>3, <1>5, <1>6
<1>8. s[top].type_id \notin Below
  BY <1>2 DEF Below
<1> QED BY <1>4, <1>7, <1>8 DEF s, n

\* ext_stack_push of a token
LEMMA ShapePushed ==
    ASSUME NEW s, Shape(s), NEW item \in Items,
           item.type_id \notin Nonterminals \cup Markers, pt_map_token(item.type_id) # "END"
    PROVE  Shape(<<item>> \o s)
<1> DEFINE t == <<item>> \o s
           n == Len(s)
<1>1. s \in Seq(Items) /\ n \in Nat /\ n # 0
  BY LenProperties DEF Shape
<1>2. /\ t \in Seq(Items) /\ Len(t) = n + 1
      /\ \A k \in 1 .. n + 1 : t[k] = IF k < 1 THEN s[k] ELSE IF k = 1 THEN item ELSE s[k - 1]
  <2>1. t = InsertAt(s, 1, item)
    BY <1>1, EndsArePlaces
  <2>2. 1 \in 1 .. n + 1
    BY <1>1
  <2> HIDE DEF t
  <2> QED BY <1>1, <2>1, <2>2, InsertAtProperties DEF InsertedAt
<1> HIDE DEF t
<1>3. t[1] = item /\ \A k \in 1 .. n + 1 : k # 1 => k - 1 \in 1 .. n /\ t[k] = s[k - 1]
  BY <1>1, <1>2
<1>4. item.type_id \notin Nonterminals /\ item.type_id # "HANDLE_MARKER" /\ item.type_id # "END_MARKER"
  BY DEF Markers
<1>5. \A k \in 1 .. n + 1 : t[k].type_id = "END_MARKER" <=> k = n + 1
  <2>1. \A k \in 1 .. n : s[k].type_id = "END_MARKER" <=> k = n
    BY DEF Shape
  <2> SUFFICES ASSUME NEW k \in 1 .. n + 1 PROVE t[k].type_id = "END_MARKER" <=> k = n + 1
    OBVIOUS
  <2>2. CASE k = 1
    BY <1>1, <1>3, <1>4, <2>2
  <2>3. CASE k # 1
    <3>1. k - 1 = n <=> k = n + 1
      BY <1>1
    <3> QED BY <1>3, <2>1, <2>3, <3>1
  <2> QED BY <2>2, <2>3
<1>6. \A k \in 1 .. n + 1 : t[k].type_id \notin Nonterminals \cup Markers => pt_map_token(t[k].type_id) # "END"
  BY <1>3 DEF Shape
<1>7. \A k \in 1 .. n + 1 : t[k].type_id = "HANDLE_MARKER" => t[k + 1].type_id \notin Below
  <2> SUFFICES ASSUME NEW k \in 1 .. n + 1, t[k].type_id = "HANDLE_MARKER" PROVE t[k + 1].type_id \notin Below
    OBVIOUS
  <2>1. k # 1 /\ k # n + 1
    BY <1>3, <1>4, <1>5
  <2>2. k - 1 \in 1 .. n /\ k + 1 \in 1 .. n + 1 /\ k + 1 # 1 /\ (k + 1) - 1 = (k - 1) + 1
    BY <1>1, <2>1
  <2>3. s[k - 1].type_id = "HANDLE_MARKER" /\ t[k + 1] = s[(k - 1) + 1]
    BY <1>3, <2>1, <2>2
  <2> QED BY <2>2, <2>3 DEF Shape
<1>8. Len(t) # 0
  BY <1>1, <1>2
<1> QED BY <1>2, <1>3, <1>4, <1>5, <1>6, <1>7, <1>8 DEF Shape, t

\* ext_stack_reduce: a nonterminal in place of the handle
LEMMA ShapeReduced ==
    ASSUME NEW s, Shape(s), NEW k \in 1 .. Len(s), s[k].type_id = "HANDLE_MARKER",
           NEW item \in Items, item.type_id \in Nonterminals
    PROVE  k + 1 \in 1 .. Len(s) /\ Shape(<<item>> \o SubSeq(s, k + 1, Len(s)))
<1> DEFINE n == Len(s)
           t == <<item>> \o SubSeq(s, k + 1, n)
<1>1. s \in Seq(Items) /\ n \in Nat /\ k \in 1 .. n
  BY LenProperties DEF Shape
<1>2. k # n
  <2>1. s[n].type_id = "END_MARKER"
    BY <1>1 DEF Shape
  <2> QED BY <2>1
<1>3. k + 1 \in 1 .. n /\ s[k + 1].type_id \notin Below
  <2>1. s[k + 1].type_id \notin Below
    BY DEF Shape
  <2> QED BY <1>1, <1>2, <2>1
<1>4. t \in Seq(Items) /\ Len(t) = (n - (k + 1)) + 2 /\ t[1] = item
      /\ \A l \in k + 1 .. n : t[(l - (k + 1)) + 2] = s[l]
  <2>1. k + 1 \in 1 .. n + 1
    BY <1>3
  <2> QED BY <1>1, <2>1, InFront
<1> HIDE DEF t, n
<1>5. Len(t) = (n - k) + 1 /\ n - k \in Nat /\ n - k # 0
  BY <1>1, <1>3, <1>4
<1>6. ASSUME NEW l \in 1 .. Len(t), l # 1
      PROVE  (l + k) - 1 \in 1 .. n /\ (l + k) - 1 \in k + 1 .. n /\ t[l] = s[(l + k) - 1]
  <2>1. (l + k) - 1 \in k + 1 .. n /\ (((l + k) - 1) - (k + 1)) + 2 = l /\ (l + k) - 1 \in 1 .. n
    BY <1>1, <1>5, <1>6
  <2> QED BY <1>4, <2>1
<1>7. item.type_id # "END_MARKER" /\ item.type_id # "HANDLE_MARKER"
  BY DEF Nonterminals
<1>8. ASSUME NEW l \in 1 .. Len(t) PROVE t[l].type_id = "END_MARKER" <=> l = Len(t)
  <2>1. CASE l = 1
    BY <1>4, <1>5, <1>7, <2>1
  <2>2. CASE l # 1
    <3>1. (l + k) - 1 = n <=> l = Len(t)
      BY <1>1, <1>5
    <3>2. \A m \in 1 .. n : s[m].type_id = "END_MARKER" <=> m = n
      BY DEF Shape, n
    <3> QED BY <1>6, <2>2, <3>1, <3>2
  <2> QED BY <2>1, <2>2
<1>9. ASSUME NEW l \in 1 .. Len(t), t[l].type_id \notin Nonterminals \cup Markers
      PROVE  pt_map_token(t[l].type_id) # "END"
  <2>1. l # 1
    BY <1>4, <1>9
  <2> QED BY <1>6, <1>9, <2>1 DEF Shape, n
<1>10. ASSUME NEW l \in 1 .. Len(t), t[l].type_id = "HANDLE_MARKER" PROVE t[l + 1].type_id \notin Below
  <2>1. l # 1 /\ l # Len(t)
    BY <1>4, <1>5, <1>7, <1>8, <1>10
  <2>2. l + 1 \in 1 .. Len(t) /\ l + 1 # 1 /\ ((l + 1) + k) - 1 = ((l + k) - 1) + 1
    BY <1>1, <1>5, <2>1
  <2>3. t[l] = s[(l + k) - 1] /\ t[l + 1] = s[((l + k) - 1) + 1] /\ (l + k) - 1 \in 1 .. n
    BY <1>6, <2>1, <2>2
  <2> QED BY <1>10, <2>3 DEF Shape, n
<1>11. t[2].type_id \notin Below
  <2>1. 2 \in 1 .. Len(t) /\ 2 # 1 /\ (2 + k) - 1 = k + 1
    BY <1>1, <1>5
  <2>2. t[2] = s[k + 1]
    BY <1>6, <2>1
  <2> QED BY <1>3, <2>2
<1>12. Len(t) # 0
  BY <1>5
<1> QED BY <1>3, <1>4, <1>7, <1>8, <1>9, <1>10, <1>11, <1>12 DEF Shape, t, n

HandleMarker == Item("HANDLE_MARKER", NoToken)

LEMMA MarkerIsItem ==
    /\ NoToken \in Tokens
    /\ HandleMarker \in Items /\ HandleMarker.type_id = "HANDLE_MARKER"
    /\ \A id, tok : Item(id, tok).type_id = id
    /\ \A tok \in Tokens : \A id \in TerminalIds \cup Nonterminals \cup Markers : Item(id, tok) \in Items
<1>1. \A tok \in Tokens : \A id \in TerminalIds \cup Nonterminals \cup Markers : Item(id, tok) \in Items
  BY DEF Item, Items
<1>2. NoToken \in Tokens
  BY DEF NoToken, Tokens, TerminalIds
<1>3. "HANDLE_MARKER" \in Markers
  BY DEF Markers
<1>4. \A id, tok : Item(id, tok).type_id = id
  BY DEF Item
<1> QED BY <1>1, <1>2, <1>3, <1>4 DEF HandleMarker

\* ext_stack_shift puts two items in: the marker above the topmost terminal,
\* the token on the top.
LEMMA ShiftPutsIn ==
    ASSUME NEW s \in Seq(Items), NEW item \in Items, NEW i \in 1 .. Len(s) + 1
    PROVE  /\ <<item>> \o SubSeq(s, 1, i - 1) \o <<HandleMarker>> \o SubSeq(s, i, Len(s))
              = <<item>> \o InsertAt(s, i, HandleMarker)
           /\ InsertAt(s, i, HandleMarker) \in Seq(Items)
<1> DEFINE n == Len(s)
           a == SubSeq(s, 1, i - 1)
           b == SubSeq(s, i, n)
           o == <<item>>
           h == <<HandleMarker>>
<1>1. n \in Nat /\ (\A k \in 1 .. n : s[k] \in Items) /\ o \in Seq(Items) /\ h \in Seq(Items)
  BY LenProperties, ElementOfSeq, MarkerIsItem
<1>2. a \in Seq(Items)
  <2>1. 1 \in Int /\ i - 1 \in Int /\ \A k \in 1 .. i - 1 : s[k] \in Items
    BY <1>1
  <2> QED BY <2>1, SubSeqProperties
<1>3. b \in Seq(Items)
  <2>1. i \in Int /\ n \in Int /\ \A k \in i .. n : s[k] \in Items
    BY <1>1
  <2> QED BY <2>1, SubSeqProperties
<1> HIDE DEF a, b, o, h
<1>4. ThreeJoined(a, h, b) \in Seq(Items) /\ ThreeJoined(o \o a, h, b) = o \o ThreeJoined(a, h, b)
  <2>1. o \in Seq(Items) /\ h \in Seq(Items)
    BY <1>1
  <2> QED BY <1>2, <1>3, <2>1, Regrouped
<1>5. InsertAt(s, i, HandleMarker) = ThreeJoined(a, h, b)
  BY DEF InsertAt, ThreeJoined, a, b, h
<1>6. <<item>> \o SubSeq(s, 1, i - 1) \o <<HandleMarker>> \o SubSeq(s, i, Len(s)) = ThreeJoined(o \o a, h, b)
  BY DEF ThreeJoined, a, b, h, o
<1> QED BY <1>4, <1>5, <1>6 DEF o

LEMMA ShapeShifted ==
    ASSUME NEW s, Shape(s), NEW item \in Items,
           item.type_id \notin Nonterminals \cup Markers, pt_map_token(item.type_id) # "END",
           NEW i \in 1 .. 2, i \in 1 .. Len(s), s[i].type_id \notin Below, i = 2 <=> s[1].type_id \in Nonterminals
    PROVE  Shape(<<item>> \o InsertAt(s, i, HandleMarker))
<1> DEFINE t == InsertAt(s, i, HandleMarker)
           u == <<item>> \o t
           n == Len(s)
<1>1. s \in Seq(Items) /\ n \in Nat /\ n # 0 /\ HandleMarker \in Items /\ HandleMarker.type_id = "HANDLE_MARKER"
      /\ i \in 1 .. n
  BY LenProperties, MarkerIsItem DEF Shape
<1>2. /\ t \in Seq(Items) /\ Len(t) = n + 1
      /\ \A k \in 1 .. n + 1 : t[k] = IF k < i THEN s[k] ELSE IF k = i THEN HandleMarker ELSE s[k - 1]
  <2>1. i \in 1 .. n + 1
    BY <1>1
  <2>2. InsertedAt(Items, s, i, HandleMarker, t)
    BY <1>1, <2>1, InsertAtProperties
  <2> HIDE DEF t
  <2> QED BY <2>2 DEF InsertedAt
<1> HIDE DEF t
<1>3. /\ u \in Seq(Items) /\ Len(u) = n + 2
      /\ u[1] = item /\ \A k \in 1 .. n + 1 : u[k + 1] = t[k]
  <2>1. u = InsertAt(t, 1, item)
    BY <1>2, EndsArePlaces
  <2>2. 1 \in 1 .. Len(t) + 1
    BY <1>1, <1>2
  <2> HIDE DEF u
  <2>0. InsertedAt(Items, t, 1, item, u)
    BY <1>2, <2>1, <2>2, InsertAtProperties
  <2>3. /\ u \in Seq(Items) /\ Len(u) = Len(t) + 1
        /\ \A k \in 1 .. Len(t) + 1 : u[k] = IF k < 1 THEN t[k] ELSE IF k = 1 THEN item ELSE t[k - 1]
    BY <2>0 DEF InsertedAt
  <2>4. u[1] = item
    BY <2>2, <2>3
  <2>5. ASSUME NEW k \in 1 .. n + 1 PROVE u[k + 1] = t[k]
    <3>1. k + 1 \in 1 .. Len(t) + 1 /\ ~(k + 1 < 1) /\ k + 1 # 1 /\ (k + 1) - 1 = k
      BY <1>1, <1>2
    <3> QED BY <2>3, <3>1
  <2> QED BY <1>1, <1>2, <2>3, <2>4, <2>5
<1> HIDE DEF u, n
\* The new stack has three kinds of items.
<1>4. /\ u[1] = item
      /\ i = 2 => u[2] = s[1]
      /\ u[i + 1] = HandleMarker
      /\ \A k \in i .. n : u[k + 2] = s[k]
  <2>1. i = 2 => u[2] = s[1]
    <3>1. 1 \in 1 .. n + 1 /\ 1 + 1 = 2
      BY <1>1
    <3> QED BY <1>2, <1>3, <3>1
  <2>2. u[i + 1] = HandleMarker
    <3>1. i \in 1 .. n + 1 /\ ~(i < i)
      BY <1>1
    <3> QED BY <1>2, <1>3, <3>1
  <2>3. ASSUME NEW k \in i .. n PROVE u[k + 2] = s[k]
    <3>1. k + 1 \in 1 .. n + 1 /\ ~(k + 1 < i) /\ k + 1 # i /\ (k + 1) - 1 = k /\ (k + 1) + 1 = k + 2
      BY <1>1
    <3>2. t[k + 1] = s[k]
      BY <1>2, <3>1
    <3> QED BY <1>3, <3>1, <3>2
  <2> QED BY <1>3, <2>1, <2>2, <2>3
<1>5. ASSUME NEW k \in 1 .. n + 2
      PROVE  k = 1 \/ (i = 2 /\ k = 2) \/ k = i + 1 \/ (k - 2 \in i .. n /\ u[k] = s[k - 2])
  <2>1. k = 1 \/ (i = 2 /\ k = 2) \/ k = i + 1 \/ (k - 2 \in i .. n /\ (k - 2) + 2 = k)
    BY <1>1
  <2> QED BY <1>4, <2>1
<1>6. /\ \A k \in 1 .. n : s[k].type_id = "END_MARKER" <=> k = n
      /\ \A k \in 1 .. n : s[k].type_id \notin Nonterminals \cup Markers => pt_map_token(s[k].type_id) # "END"
      /\ \A k \in 1 .. n : s[k].type_id = "HANDLE_MARKER" => s[k + 1].type_id \notin Below
  BY DEF Shape, n
<1>7. /\ item.type_id \notin Nonterminals /\ item.type_id # "HANDLE_MARKER" /\ item.type_id # "END_MARKER"
      /\ HandleMarker.type_id \notin Nonterminals /\ HandleMarker.type_id # "END_MARKER"
      /\ HandleMarker.type_id \in Markers
      /\ \A id \in Nonterminals : id # "HANDLE_MARKER" /\ id # "END_MARKER"
  BY <1>1 DEF Markers, Nonterminals
<1>8. i \in i .. n /\ i \in 1 .. n /\ \A k \in i .. n : k \in 1 .. n
  BY <1>1
<1>9. ASSUME NEW k \in 1 .. n + 2 PROVE u[k].type_id = "END_MARKER" <=> k = n + 2
  <2>1. CASE k = 1
    BY <1>1, <1>4, <1>7, <2>1
  <2>2. CASE i = 2 /\ k = 2
    BY <1>1, <1>4, <1>7, <2>2
  <2>3. CASE k = i + 1
    BY <1>1, <1>4, <1>7, <2>3
  <2>4. CASE k - 2 \in i .. n /\ u[k] = s[k - 2]
    <3>1. k - 2 = n <=> k = n + 2
      BY <1>1
    <3> QED BY <1>6, <1>8, <2>4, <3>1
  <2> QED BY <1>5, <2>1, <2>2, <2>3, <2>4
<1>10. ASSUME NEW k \in 1 .. n + 2, u[k].type_id \notin Nonterminals \cup Markers
       PROVE  pt_map_token(u[k].type_id) # "END"
  <2>1. CASE k = 1
    BY <1>4, <2>1
  <2>2. CASE i = 2 /\ k = 2
    BY <1>4, <1>10, <2>2
  <2>3. CASE k = i + 1
    BY <1>4, <1>7, <1>10, <2>3
  <2>4. CASE k - 2 \in i .. n /\ u[k] = s[k - 2]
    BY <1>6, <1>8, <1>10, <2>4
  <2> QED BY <1>5, <2>1, <2>2, <2>3, <2>4
<1>11. ASSUME NEW k \in 1 .. n + 2, u[k].type_id = "HANDLE_MARKER" PROVE u[k + 1].type_id \notin Below
  <2>1. CASE k = 1
    BY <1>4, <1>7, <1>11, <2>1
  <2>2. CASE i = 2 /\ k = 2
    BY <1>4, <1>7, <1>11, <2>2
  <2>3. CASE k = i + 1
    <3>1. k + 1 = i + 2
      BY <2>3
    <3> QED BY <1>4, <1>8, <3>1
  <2>4. CASE k - 2 \in i .. n /\ u[k] = s[k - 2]
    <3>1. s[k - 2].type_id = "HANDLE_MARKER" /\ k - 2 \in 1 .. n
      BY <1>8, <1>11, <2>4
    <3>2. s[(k - 2) + 1].type_id \notin Below /\ k - 2 # n
      BY <1>6, <3>1
    <3>3. (k - 2) + 1 \in i .. n /\ ((k - 2) + 1) + 2 = k + 1
      BY <1>1, <2>4, <3>2
    <3> QED BY <1>4, <3>2, <3>3
  <2> QED BY <1>5, <2>1, <2>2, <2>3, <2>4
<1>12. Len(u) # 0
  BY <1>1, <1>3
<1> QED BY <1>3, <1>7, <1>9, <1>10, <1>11, <1>12 DEF Shape, u, t
-----------------------------------------------------------------------------
(* A handle on the top, and the analyzers that belong to it                *)

\* p analyzers belong to the handle of the rule r; the next one belongs to
\* what lies below the handle marker.
HandleOf(r, p) ==
    /\ Popped(r) = p
    /\ p + 1 \in 1 .. Len(sem_an_stack)
    /\ Len(r.production) + 1 \in 1 .. Len(ext_stack)
    /\ Len(r.production) + 2 \in 1 .. Len(ext_stack)
    /\ ext_stack[Len(r.production) + 1].type_id = "HANDLE_MARKER"
    /\ Owned(ext_stack, Len(r.production) + 2, sem_an_stack, p + 1)

Stands(k, nt) == sem_an_stack[k].value.value_type = Kind(nt)

StacksAgree ==
    /\ Shape(ext_stack)
    /\ Analyzers(sem_an_stack)
    /\ Owned(ext_stack, 1, sem_an_stack, 1)

LEMMA HandleItems ==
    ASSUME StacksAgree, NEW r \in find_rule, NEW n \in Nat, n = Len(r.production), DOMAIN r.production = 1 .. n
    PROVE  /\ Len(ext_stack) \in Nat /\ Len(sem_an_stack) \in Nat /\ 1 \in 1 .. Len(sem_an_stack)
           /\ n + 1 \in 1 .. Len(ext_stack) /\ n + 2 \in 1 .. Len(ext_stack)
           /\ ext_stack[n + 1].type_id = "HANDLE_MARKER" /\ ~IsNonterminal(ext_stack[n + 1])
           /\ \A k \in 1 .. n : ext_stack[k].type_id = r.production[k]
<1>1. Len(ext_stack) \in Nat
  BY LenProperties DEF StacksAgree, Shape
<1>2. Len(sem_an_stack) \in Nat /\ 1 \in 1 .. Len(sem_an_stack)
  <2>1. sem_an_stack \in Seq(Entries \cup {Parent}) /\ Len(sem_an_stack) # 0
    BY DEF StacksAgree, Analyzers
  <2>2. Len(sem_an_stack) \in Nat
    BY <2>1, LenProperties
  <2> QED BY <2>1, <2>2
<1>3. /\ n < Len(ext_stack) /\ ext_stack[n + 1].type_id = "HANDLE_MARKER"
      /\ \A k \in 1 .. n : ext_stack[k].type_id = r.production[k]
  BY DEF find_rule
<1>4. n + 1 \in 1 .. Len(ext_stack)
  BY <1>1, <1>3
<1>5. n + 1 # Len(ext_stack)
  <2>1. ext_stack[n + 1].type_id # "END_MARKER"
    BY <1>3
  <2>2. ext_stack[n + 1].type_id = "END_MARKER" <=> n + 1 = Len(ext_stack)
    BY <1>4 DEF StacksAgree, Shape
  <2> QED BY <2>1, <2>2
<1>6. n + 2 \in 1 .. Len(ext_stack)
  BY <1>1, <1>4, <1>5
<1>7. ~IsNonterminal(ext_stack[n + 1])
  BY <1>3 DEF IsNonterminal, Nonterminals
<1> QED BY <1>1, <1>2, <1>3, <1>4, <1>6, <1>7

\* From one place of both stacks to the next
LEMMA PassedOn ==
    ASSUME StacksAgree, NEW k \in 1 .. Len(ext_stack), NEW j \in 1 .. Len(sem_an_stack),
           Owned(ext_stack, k, sem_an_stack, j)
    PROVE  /\ ext_stack[k].type_id \notin Nonterminals => Owned(ext_stack, k + 1, sem_an_stack, j)
           /\ ext_stack[k].type_id \in Nonterminals =>
                 /\ j + 1 \in 1 .. Len(sem_an_stack)
                 /\ Stands(j, ext_stack[k].type_id)
                 /\ Owned(ext_stack, k + 1, sem_an_stack, j + 1)
<1>1. Len(ext_stack) \in Nat /\ Len(sem_an_stack) \in Nat
  BY LenProperties DEF StacksAgree, Shape, Analyzers
<1>2. ASSUME ext_stack[k].type_id \notin Nonterminals PROVE Owned(ext_stack, k + 1, sem_an_stack, j)
  <2>1. ~IsNonterminal(ext_stack[k])
    BY <1>2 DEF IsNonterminal
  <2> QED BY <1>1, <2>1, TerminalPassed
<1>3. ASSUME ext_stack[k].type_id \in Nonterminals
      PROVE  /\ j < Len(sem_an_stack)
             /\ sem_an_stack[j].value.value_type = Kind(ext_stack[k].type_id)
             /\ Owned(ext_stack, k + 1, sem_an_stack, j + 1)
  <2>1. IsNonterminal(ext_stack[k])
    BY <1>3 DEF IsNonterminal
  <2> QED BY <1>1, <2>1, NonterminalPassed
<1>4. j < Len(sem_an_stack) => j + 1 \in 1 .. Len(sem_an_stack)
  BY <1>1
<1> QED BY <1>2, <1>3, <1>4 DEF Stands

\* Right sides without a nonterminal
LEMMA HandleOfNone ==
    ASSUME StacksAgree, NEW r \in find_rule
    PROVE  /\ \A x : r.production = <<x>> /\ x \notin Nonterminals => HandleOf(r, 0)
           /\ \A x, y, z : r.production = <<x, y, z>> /\ {x, y, z} \cap Nonterminals = {} => HandleOf(r, 0)
<1> DEFINE s == ext_stack
           a == sem_an_stack
<1>1. Owned(s, 1, a, 1)
  BY DEF StacksAgree
<1>2. ASSUME NEW x, r.production = <<x>>, x \notin Nonterminals PROVE HandleOf(r, 0)
  <2>1. Len(r.production) = 1 /\ DOMAIN r.production = 1 .. 1 /\ r.production[1] = x
    BY <1>2
  <2>2. /\ 1 \in 1 .. Len(a) /\ 1 + 1 \in 1 .. Len(s) /\ 1 + 2 \in 1 .. Len(s)
        /\ s[1 + 1].type_id = "HANDLE_MARKER" /\ ~IsNonterminal(s[1 + 1])
        /\ Len(s) \in Nat /\ \A k \in 1 .. 1 : s[k].type_id = r.production[k]
    BY <2>1, HandleItems
  <2> HIDE DEF s, a
  <2>3. 1 \in 1 .. Len(s) /\ 2 \in 1 .. Len(s) /\ s[1].type_id = x /\ s[2].type_id \notin Nonterminals
    BY <2>1, <2>2 DEF IsNonterminal
  <2>4. Owned(s, 2, a, 1)
    <3>1. Owned(s, 1 + 1, a, 1)
      BY <1>1, <1>2, <2>2, <2>3, PassedOn DEF s, a
    <3> QED BY <3>1
  <2>5. Owned(s, 3, a, 1)
    <3>1. Owned(s, 2 + 1, a, 1)
      BY <2>2, <2>3, <2>4, PassedOn DEF s, a
    <3> QED BY <3>1
  <2>6. Popped(r) = 0
    BY <1>2, PoppedBy
  <2>7. 0 + 1 = 1 /\ 1 + 2 = 3
    OBVIOUS
  <2> QED BY <2>1, <2>2, <2>5, <2>6, <2>7 DEF HandleOf, s, a
<1>3. ASSUME NEW x, NEW y, NEW z, r.production = <<x, y, z>>, {x, y, z} \cap Nonterminals = {}
      PROVE  HandleOf(r, 0)
  <2>1. /\ Len(r.production) = 3 /\ DOMAIN r.production = 1 .. 3
        /\ r.production[1] = x /\ r.production[2] = y /\ r.production[3] = z
        /\ x \notin Nonterminals /\ y \notin Nonterminals /\ z \notin Nonterminals
    BY <1>3
  <2>2. /\ 1 \in 1 .. Len(a) /\ 3 + 1 \in 1 .. Len(s) /\ 3 + 2 \in 1 .. Len(s)
        /\ s[3 + 1].type_id = "HANDLE_MARKER" /\ ~IsNonterminal(s[3 + 1])
        /\ Len(s) \in Nat /\ \A k \in 1 .. 3 : s[k].type_id = r.production[k]
    BY <2>1, HandleItems
  <2> HIDE DEF s, a
  <2>3. \A k \in 1 .. 4 : k \in 1 .. Len(s) /\ s[k].type_id \notin Nonterminals
    BY <2>1, <2>2 DEF IsNonterminal
  <2>4. \A k \in 1 .. 4 : Owned(s, k, a, 1) => Owned(s, k + 1, a, 1)
    BY <2>2, <2>3, PassedOn DEF s, a
  <2>5. Owned(s, 5, a, 1)
    <3>1. Owned(s, 1 + 1, a, 1)
      BY <1>1, <2>4
    <3>2. Owned(s, 2 + 1, a, 1)
      BY <2>4, <3>1
    <3>3. Owned(s, 3 + 1, a, 1)
      BY <2>4, <3>2
    <3>4. Owned(s, 4 + 1, a, 1)
      BY <2>4, <3>3
    <3> QED BY <3>4
  <2>6. Popped(r) = 0
    BY <1>3, PoppedBy
  <2>7. 0 + 1 = 1 /\ 3 + 2 = 5
    OBVIOUS
  <2> QED BY <2>1, <2>2, <2>5, <2>6, <2>7 DEF HandleOf, s, a
<1> QED BY <1>2, <1>3

\* Right sides with one
LEMMA HandleOfOne ==
    ASSUME StacksAgree, NEW r \in find_rule, NEW nt \in Nonterminals
    PROVE  /\ \A x : r.production = <<nt, x>> /\ x \notin Nonterminals => HandleOf(r, 1) /\ Stands(1, nt)
           /\ \A x, z : r.production = <<x, nt, z>> /\ {x, z} \cap Nonterminals = {} =>
                 HandleOf(r, 1) /\ Stands(1, nt)
           /\ \A x, z, w : r.production = <<x, nt, z, w>> /\ {x, z, w} \cap Nonterminals = {} =>
                 HandleOf(r, 1) /\ Stands(1, nt)
<1> DEFINE s == ext_stack
           a == sem_an_stack
<1>1. Owned(s, 1, a, 1)
  BY DEF StacksAgree
<1>2. ASSUME NEW x, r.production = <<nt, x>>, x \notin Nonterminals PROVE HandleOf(r, 1) /\ Stands(1, nt)
  <2>1. Len(r.production) = 2 /\ DOMAIN r.production = 1 .. 2 /\ r.production[1] = nt /\ r.production[2] = x
    BY <1>2
  <2>2. /\ 1 \in 1 .. Len(a) /\ 2 + 1 \in 1 .. Len(s) /\ 2 + 2 \in 1 .. Len(s)
        /\ s[2 + 1].type_id = "HANDLE_MARKER" /\ ~IsNonterminal(s[2 + 1])
        /\ Len(s) \in Nat /\ \A k \in 1 .. 2 : s[k].type_id = r.production[k]
    BY <2>1, HandleItems
  <2> HIDE DEF s, a
  <2>3. /\ 1 \in 1 .. Len(s) /\ s[1].type_id = nt
        /\ \A k \in 2 .. 3 : k \in 1 .. Len(s) /\ s[k].type_id \notin Nonterminals
    BY <1>2, <2>1, <2>2 DEF IsNonterminal
  <2>4. 1 + 1 \in 1 .. Len(a) /\ Stands(1, nt) /\ Owned(s, 1 + 1, a, 1 + 1)
    BY <1>1, <2>2, <2>3, PassedOn DEF s, a
  <2>5. \A k \in 2 .. 3 : Owned(s, k, a, 1 + 1) => Owned(s, k + 1, a, 1 + 1)
    BY <2>2, <2>3, <2>4, PassedOn DEF s, a
  <2>6. Owned(s, 4, a, 1 + 1)
    <3>1. Owned(s, 2 + 1, a, 1 + 1)
      BY <2>4, <2>5
    <3>2. Owned(s, 3 + 1, a, 1 + 1)
      BY <2>5, <3>1
    <3> QED BY <3>2
  <2>7. Popped(r) = 1
    BY <1>2, PoppedBy
  <2>8. 2 + 2 = 4
    OBVIOUS
  <2> QED BY <2>1, <2>2, <2>4, <2>6, <2>7, <2>8 DEF HandleOf, s, a
<1>3. ASSUME NEW x, NEW z, r.production = <<x, nt, z>>, {x, z} \cap Nonterminals = {}
      PROVE  HandleOf(r, 1) /\ Stands(1, nt)
  <2>1. /\ Len(r.production) = 3 /\ DOMAIN r.production = 1 .. 3
        /\ r.production[1] = x /\ r.production[2] = nt /\ r.production[3] = z
        /\ x \notin Nonterminals /\ z \notin Nonterminals
    BY <1>3
  <2>2. /\ 1 \in 1 .. Len(a) /\ 3 + 1 \in 1 .. Len(s) /\ 3 + 2 \in 1 .. Len(s)
        /\ s[3 + 1].type_id = "HANDLE_MARKER" /\ ~IsNonterminal(s[3 + 1])
        /\ Len(s) \in Nat /\ \A k \in 1 .. 3 : s[k].type_id = r.production[k]
    BY <2>1, HandleItems
  <2> HIDE DEF s, a
  <2>3. /\ 1 \in 1 .. Len(s) /\ s[1].type_id \notin Nonterminals
        /\ 2 \in 1 .. Len(s) /\ s[2].type_id = nt
        /\ \A k \in 3 .. 4 : k \in 1 .. Len(s) /\ s[k].type_id \notin Nonterminals
    BY <2>1, <2>2 DEF IsNonterminal
  <2>4. Owned(s, 1 + 1, a, 1)
    BY <1>1, <2>2, <2>3, PassedOn DEF s, a
  <2>5. 1 + 1 \in 1 .. Len(a) /\ Stands(1, nt) /\ Owned(s, 2 + 1, a, 1 + 1)
    <3>1. Owned(s, 2, a, 1)
      BY <2>4
    <3> QED BY <2>2, <2>3, <3>1, PassedOn DEF s, a
  <2>6. \A k \in 3 .. 4 : Owned(s, k, a, 1 + 1) => Owned(s, k + 1, a, 1 + 1)
    BY <2>2, <2>3, <2>5, PassedOn DEF s, a
  <2>7. Owned(s, 5, a, 1 + 1)
    <3>1. Owned(s, 3 + 1, a, 1 + 1)
      BY <2>5, <2>6
    <3>2. Owned(s, 4 + 1, a, 1 + 1)
      BY <2>6, <3>1
    <3> QED BY <3>2
  <2>8. Popped(r) = 1
    BY <1>3, PoppedBy
  <2>9. 3 + 2 = 5
    OBVIOUS
  <2> QED BY <2>1, <2>2, <2>5, <2>7, <2>8, <2>9 DEF HandleOf, s, a
<1>4. ASSUME NEW x, NEW z, NEW w, r.production = <<x, nt, z, w>>, {x, z, w} \cap Nonterminals = {}
      PROVE  HandleOf(r, 1) /\ Stands(1, nt)
  <2>1. /\ Len(r.production) = 4 /\ DOMAIN r.production = 1 .. 4
        /\ r.production[1] = x /\ r.production[2] = nt /\ r.production[3] = z /\ r.production[4] = w
        /\ x \notin Nonterminals /\ z \notin Nonterminals /\ w \notin Nonterminals
    BY <1>4
  <2>2. /\ 1 \in 1 .. Len(a) /\ 4 + 1 \in 1 .. Len(s) /\ 4 + 2 \in 1 .. Len(s)
        /\ s[4 + 1].type_id = "HANDLE_MARKER" /\ ~IsNonterminal(s[4 + 1])
        /\ Len(s) \in Nat /\ \A k \in 1 .. 4 : s[k].type_id = r.production[k]
    BY <2>1, HandleItems
  <2> HIDE DEF s, a
  <2>3. /\ 1 \in 1 .. Len(s) /\ s[1].type_id \notin Nonterminals
        /\ 2 \in 1 .. Len(s) /\ s[2].type_id = nt
        /\ \A k \in 3 .. 5 : k \in 1 .. Len(s) /\ s[k].type_id \notin Nonterminals
    BY <2>1, <2>2 DEF IsNonterminal
  <2>4. Owned(s, 1 + 1, a, 1)
    BY <1>1, <2>2, <2>3, PassedOn DEF s, a
  <2>5. 1 + 1 \in 1 .. Len(a) /\ Stands(1, nt) /\ Owned(s, 2 + 1, a, 1 + 1)
    <3>1. Owned(s, 2, a, 1)
      BY <2>4
    <3> QED BY <2>2, <2>3, <3>1, PassedOn DEF s, a
  <2>6. \A k \in 3 .. 5 : Owned(s, k, a, 1 + 1) => Owned(s, k + 1, a, 1 + 1)
    BY <2>2, <2>3, <2>5, PassedOn DEF s, a
  <2>7. Owned(s, 6, a, 1 + 1)
    <3>1. Owned(s, 3 + 1, a, 1 + 1)
      BY <2>5, <2>6
    <3>2. Owned(s, 4 + 1, a, 1 + 1)
      BY <2>6, <3>1
    <3>3. Owned(s, 5 + 1, a, 1 + 1)
      BY <2>6, <3>2
    <3> QED BY <3>3
  <2>8. Popped(r) = 1
    BY <1>4, PoppedBy
  <2>9. 4 + 2 = 6
    OBVIOUS
  <2> QED BY <2>1, <2>2, <2>5, <2>7, <2>8, <2>9 DEF HandleOf, s, a
<1> QED BY <1>2, <1>3, <1>4

\* The right side with two
LEMMA HandleOfTwo ==
    ASSUME StacksAgree, NEW r \in find_rule, NEW y \in Nonterminals, NEW x, x \notin Nonterminals,
           NEW z \in Nonterminals, r.production = <<y, x, z>>
    PROVE  HandleOf(r, 2) /\ Stands(1, y) /\ Stands(2, z)
<1> DEFINE s == ext_stack
           a == sem_an_stack
<1>1. Owned(s, 1, a, 1)
  BY DEF StacksAgree
<1>2. /\ Len(r.production) = 3 /\ DOMAIN r.production = 1 .. 3
      /\ r.production[1] = y /\ r.production[2] = x /\ r.production[3] = z
  OBVIOUS
<1>3. /\ 1 \in 1 .. Len(a) /\ 3 + 1 \in 1 .. Len(s) /\ 3 + 2 \in 1 .. Len(s)
      /\ s[3 + 1].type_id = "HANDLE_MARKER" /\ ~IsNonterminal(s[3 + 1])
      /\ Len(s) \in Nat /\ \A k \in 1 .. 3 : s[k].type_id = r.production[k]
  BY <1>2, HandleItems
<1> HIDE DEF s, a
<1>4. /\ 1 \in 1 .. Len(s) /\ s[1].type_id = y
      /\ 2 \in 1 .. Len(s) /\ s[2].type_id \notin Nonterminals
      /\ 3 \in 1 .. Len(s) /\ s[3].type_id = z
      /\ 4 \in 1 .. Len(s) /\ s[4].type_id \notin Nonterminals
  BY <1>2, <1>3 DEF IsNonterminal
<1>5. 1 + 1 \in 1 .. Len(a) /\ Stands(1, y) /\ Owned(s, 1 + 1, a, 1 + 1)
  BY <1>1, <1>3, <1>4, PassedOn DEF s, a
<1>6. Owned(s, 2 + 1, a, 2)
  <2>1. Owned(s, 2, a, 2) /\ 2 \in 1 .. Len(a)
    BY <1>5
  <2> QED BY <1>3, <1>4, <2>1, PassedOn DEF s, a
<1>7. 2 + 1 \in 1 .. Len(a) /\ Stands(2, z) /\ Owned(s, 3 + 1, a, 2 + 1)
  <2>1. Owned(s, 3, a, 2) /\ 2 \in 1 .. Len(a)
    BY <1>5, <1>6
  <2> QED BY <1>3, <1>4, <2>1, PassedOn DEF s, a
<1>8. Owned(s, 5, a, 2 + 1)
  <2>1. Owned(s, 4, a, 2 + 1)
    BY <1>7
  <2>2. Owned(s, 4 + 1, a, 2 + 1)
    BY <1>3, <1>4, <1>7, <2>1, PassedOn DEF s, a
  <2> QED BY <2>2
<1>9. Popped(r) = 2
  <2>1. {y, z} \subseteq Nonterminals
    OBVIOUS
  <2> QED BY <2>1, PoppedBy
<1>10. 3 + 2 = 5
  OBVIOUS
<1> QED BY <1>2, <1>3, <1>5, <1>7, <1>8, <1>9, <1>10 DEF HandleOf, s, a

-----------------------------------------------------------------------------
(* What the handle's analyzers left on the data stack                      *)

Takes(r, takes) ==
    /\ takes \in Seq(Types)
    /\ OnData(sem_an_stack)
          = takes \o OnData(SubSeq(sem_an_stack, Popped(r) + 1, Len(sem_an_stack)))

LEMMA OperandIs ==
    ASSUME StacksAgree, NEW k \in 1 .. Len(sem_an_stack), k + 1 \in 1 .. Len(sem_an_stack)
    PROVE  /\ Stands(k, E) => Value(k) \in Types /\ TypesLeftBy(sem_an_stack[k].value) = <<Value(k)>>
           /\ Stands(k, L) =>
                 Value(k) \in Seq(Types) /\ TypesLeftBy(sem_an_stack[k].value) = Reverse(Value(k))
           /\ Stands(k, L) => sem_an_stack[k].value.value_type = "LIST"
           /\ Stands(k, E) => sem_an_stack[k].value.value_type # "LIST"
<1>1. sem_an_stack[k] \in Entries
  <2>1. Len(sem_an_stack) \in Nat
    BY LenProperties DEF StacksAgree, Analyzers
  <2>2. k \in 1 .. Len(sem_an_stack) - 1
    BY <2>1
  <2> QED BY <2>2 DEF StacksAgree, Analyzers
<1>2. /\ Stands(k, E) => sem_an_stack[k].value.value_type = "EXPR"
      /\ Stands(k, L) => sem_an_stack[k].value.value_type = "LIST"
  BY DEF Stands, Kind, E, L
<1> QED BY <1>1, <1>2, EntryLeaves DEF Value

LEMMA NoneTaken ==
    ASSUME StacksAgree, NEW r, HandleOf(r, 0)
    PROVE  Takes(r, << >>)
<1> DEFINE a == sem_an_stack
<1>1. a \in Seq(Entries \cup {Parent}) /\ 1 \in 1 .. Len(a) /\ Popped(r) + 1 = 1
  BY DEF StacksAgree, Analyzers, HandleOf
<1>2. SubSeq(a, 1, Len(a)) = a
  BY <1>1, SubSeqFull
<1>3. OnData(SubSeq(a, 1, Len(a))) \in Seq(Types)
  BY <1>1, AnalyzersBelow DEF StacksAgree
<1>4. OnData(a) \in Seq(Types)
  BY <1>2, <1>3
<1>5. << >> \o OnData(a) = OnData(a) /\ << >> \in Seq(Types)
  BY <1>4, ConcatEmptySeq
<1> QED BY <1>1, <1>2, <1>5 DEF Takes

LEMMA OneTaken ==
    ASSUME StacksAgree, NEW r, HandleOf(r, 1)
    PROVE  /\ Stands(1, E) => Value(1) \in Types /\ Takes(r, <<Value(1)>>)
           /\ Stands(1, L) => Value(1) \in Seq(Types) /\ Takes(r, Reverse(Value(1)))
<1> DEFINE a == sem_an_stack
<1>1. /\ a \in Seq(Entries \cup {Parent}) /\ Len(a) \in Nat
      /\ 1 \in 1 .. Len(a) /\ 1 + 1 \in 1 .. Len(a) /\ Popped(r) = 1 /\ 1 < Len(a)
  <2>1. a \in Seq(Entries \cup {Parent}) /\ 1 + 1 \in 1 .. Len(a) /\ Popped(r) = 1
    BY DEF StacksAgree, Analyzers, HandleOf
  <2>2. Len(a) \in Nat
    BY <2>1, LenProperties
  <2> HIDE DEF a
  <2> QED BY <2>1, <2>2
<1>2. SubSeq(a, 1, Len(a)) = a
  BY <1>1, SubSeqFull
<1>3. OnData(SubSeq(a, 1, Len(a))) = TypesLeftBy(a[1].value) \o OnData(SubSeq(a, 1 + 1, Len(a)))
  BY <1>1, AnalyzersBelow DEF StacksAgree
<1>4. OnData(a) = TypesLeftBy(a[1].value) \o OnData(SubSeq(a, 1 + 1, Len(a)))
  BY <1>2, <1>3
<1>5. /\ Stands(1, E) => Value(1) \in Types /\ TypesLeftBy(a[1].value) = <<Value(1)>>
      /\ Stands(1, L) => Value(1) \in Seq(Types) /\ TypesLeftBy(a[1].value) = Reverse(Value(1))
  BY <1>1, OperandIs
<1> HIDE DEF a
<1>6. ASSUME Stands(1, E) PROVE Value(1) \in Types /\ Takes(r, <<Value(1)>>)
  <2>1. <<Value(1)>> \in Seq(Types)
    BY <1>5, <1>6
  <2> QED BY <1>1, <1>4, <1>5, <1>6, <2>1 DEF Takes, a
<1>7. ASSUME Stands(1, L) PROVE Value(1) \in Seq(Types) /\ Takes(r, Reverse(Value(1)))
  <2>1. Reverse(Value(1)) \in Seq(Types)
    BY <1>5, <1>7, ReverseOf
  <2> QED BY <1>1, <1>4, <1>5, <1>7, <2>1 DEF Takes, a
<1> QED BY <1>6, <1>7

LEMMA TwoTaken ==
    ASSUME StacksAgree, NEW r, HandleOf(r, 2), Stands(1, E)
    PROVE  /\ Value(1) \in Types
           /\ Stands(2, E) => Value(2) \in Types /\ Takes(r, <<Value(1), Value(2)>>)
           /\ Stands(2, L) => Value(2) \in Seq(Types) /\ Takes(r, <<Value(1)>> \o Reverse(Value(2)))
<1> DEFINE a == sem_an_stack
           w == OnData(SubSeq(a, 2 + 1, Len(a)))
<1>1. /\ a \in Seq(Entries \cup {Parent}) /\ Len(a) \in Nat /\ Popped(r) = 2
      /\ 1 \in 1 .. Len(a) /\ 1 + 1 \in 1 .. Len(a) /\ 2 \in 1 .. Len(a) /\ 2 + 1 \in 1 .. Len(a)
      /\ 1 < Len(a) /\ 2 < Len(a)
  <2>1. a \in Seq(Entries \cup {Parent}) /\ 2 + 1 \in 1 .. Len(a) /\ Popped(r) = 2
    BY DEF StacksAgree, Analyzers, HandleOf
  <2>2. Len(a) \in Nat
    BY <2>1, LenProperties
  <2> HIDE DEF a
  <2> QED BY <2>1, <2>2
<1>2. SubSeq(a, 1, Len(a)) = a
  BY <1>1, SubSeqFull
<1>3. OnData(SubSeq(a, 1, Len(a))) = TypesLeftBy(a[1].value) \o OnData(SubSeq(a, 1 + 1, Len(a)))
  BY <1>1, AnalyzersBelow DEF StacksAgree
<1>4. OnData(SubSeq(a, 2, Len(a))) = TypesLeftBy(a[2].value) \o w /\ w \in Seq(Types)
  BY <1>1, AnalyzersBelow DEF StacksAgree
<1>5. Value(1) \in Types /\ TypesLeftBy(a[1].value) = <<Value(1)>>
  BY <1>1, OperandIs
<1>6. /\ Stands(2, E) => Value(2) \in Types /\ TypesLeftBy(a[2].value) = <<Value(2)>>
      /\ Stands(2, L) => Value(2) \in Seq(Types) /\ TypesLeftBy(a[2].value) = Reverse(Value(2))
  BY <1>1, OperandIs
<1>7. OnData(a) = <<Value(1)>> \o (TypesLeftBy(a[2].value) \o w)
  <2>1. OnData(a) = <<Value(1)>> \o OnData(SubSeq(a, 1 + 1, Len(a)))
    BY <1>2, <1>3, <1>5
  <2>2. 1 + 1 = 2
    OBVIOUS
  <2> HIDE DEF w, a
  <2> QED BY <1>4, <2>1, <2>2
<1>8. Popped(r) + 1 = 2 + 1
  BY <1>1
<1> HIDE DEF w
<1>9. <<Value(1)>> \in Seq(Types)
  BY <1>5
<1>10. ASSUME Stands(2, E) PROVE Value(2) \in Types /\ Takes(r, <<Value(1), Value(2)>>)
  <2>1. OnData(a) = <<Value(1)>> \o (<<Value(2)>> \o w)
    BY <1>6, <1>7, <1>10
  <2>2. <<Value(1)>> \o (<<Value(2)>> \o w) = <<Value(1), Value(2)>> \o w
    BY <1>4, <1>5, <1>6, <1>10, OneOnTheOther
  <2>3. <<Value(1), Value(2)>> \in Seq(Types)
    BY <1>5, <1>6, <1>10
  <2>4. OnData(a) = <<Value(1), Value(2)>> \o w
    BY <2>1, <2>2
  <2> QED BY <1>6, <1>8, <1>10, <2>3, <2>4 DEF Takes, w
<1>11. ASSUME Stands(2, L)
       PROVE  Value(2) \in Seq(Types) /\ Takes(r, <<Value(1)>> \o Reverse(Value(2)))
  <2>1. Reverse(Value(2)) \in Seq(Types)
    BY <1>6, <1>11, ReverseOf
  <2>2. OnData(a) = <<Value(1)>> \o (Reverse(Value(2)) \o w)
    BY <1>6, <1>7, <1>11
  <2>3. (<<Value(1)>> \o Reverse(Value(2))) \o w = <<Value(1)>> \o (Reverse(Value(2)) \o w)
    BY <1>4, <1>9, <2>1, JoinsRegroup
  <2>4. <<Value(1)>> \o Reverse(Value(2)) \in Seq(Types)
    BY <1>9, <2>1, ConcatProperties
  <2>5. OnData(a) = (<<Value(1)>> \o Reverse(Value(2))) \o w
    BY <2>2, <2>3
  <2> QED BY <1>6, <1>8, <1>11, <2>4, <2>5 DEF Takes, w
<1> QED BY <1>5, <1>10, <1>11

-----------------------------------------------------------------------------
(* A reduction delivers                                                    *)

Named(r) == ext_stack[Len(r.production)].token.str

LEMMA EvaluateIs ==
    ASSUME NEW r
    PROVE  /\ r.sem_action = "sem_expr_id" => Evaluate(r) = sem_expr_id(Named(r), static_var_decl)
           /\ r.sem_action = "sem_expr_const" => Evaluate(r) = sem_expr_const(r.production[1])
           /\ r.sem_action = "sem_expr_brackets" => Evaluate(r) = sem_expr_brackets(Value(1))
           /\ r.sem_action = "sem_expr_unary" => Evaluate(r) = sem_expr_unary(Value(1))
           /\ r.sem_action = "sem_expr_and_or_not" /\ r.production[2] = "NOT" =>
                 Evaluate(r) = sem_expr_not(Value(1))
           /\ r.sem_action = "sem_expr_and_or_not" /\ r.production[2] # "NOT" =>
                 Evaluate(r) = sem_expr_and_or(Value(2), r.production[2], Value(1))
           /\ r.sem_action = "sem_expr_aritmetic_basic" =>
                 Evaluate(r) = sem_expr_aritmetic_basic(Value(2), r.production[2], Value(1))
           /\ r.sem_action = "sem_expr_div" => Evaluate(r) = sem_expr_div(Value(2), r.production[2], Value(1))
           /\ r.sem_action = "sem_expr_eq_ne" => Evaluate(r) = sem_expr_eq_ne(Value(2), r.production[2], Value(1))
           /\ r.sem_action = "sem_expr_lte_gte" =>
                 Evaluate(r) = sem_expr_lte_gte(Value(2), r.production[2], Value(1))
           /\ r.sem_action = "sem_expr_list" => Evaluate(r) = sem_expr_list(Value(2), Value(1))
           /\ r.sem_action = "sem_expr_list_expr" => Evaluate(r) = sem_expr_list_expr(Value(2), Value(1))
           /\ r.sem_action = "sem_expr_func" => Evaluate(r) = sem_expr_func(Named(r), Arguments(r))
  BY DEF Evaluate, Named

\* The handle of r leaves what its semantic action takes.
Evaluates(r) ==
    /\ HandleOf(r, Popped(r))
    /\ r.for_nt \in Nonterminals
    /\ \E takes : /\ Takes(r, takes)
                  /\ r.for_nt = E => Delivers(takes, Evaluate(r))
                  /\ r.for_nt = L => DeliversList(takes, Evaluate(r))

LEMMA EvaluatesWhen ==
    ASSUME NEW r, NEW p, HandleOf(r, p), NEW takes, Takes(r, takes)
    PROVE  /\ r.for_nt = E /\ Delivers(takes, Evaluate(r)) => Evaluates(r)
           /\ r.for_nt = L /\ DeliversList(takes, Evaluate(r)) => Evaluates(r)
<1>1. HandleOf(r, Popped(r))
  BY DEF HandleOf
<1>2. E \in Nonterminals /\ L \in Nonterminals /\ E # L
  BY DEF Nonterminals, E, L
<1> QED BY <1>1, <1>2 DEF Evaluates

\* The operators with two operands
LEMMA BinaryEvaluates ==
    ASSUME StacksAgree, NEW r \in find_rule, NEW op, r.production = <<E, op, E>>, op \notin Nonterminals,
           r.for_nt = E,
           \/ r.sem_action = "sem_expr_aritmetic_basic" /\ op \in {"ADD", "SUB", "MUL"}
           \/ r.sem_action = "sem_expr_div" /\ op \in Dividing
           \/ r.sem_action = "sem_expr_eq_ne" /\ op \in {"EQUAL", "NE"}
           \/ r.sem_action = "sem_expr_lte_gte" /\ op \in {"LT", "GT", "LE", "GE"}
           \/ r.sem_action = "sem_expr_and_or_not" /\ op \in {"AND", "OR"}
    PROVE  Evaluates(r)
<1>1. HandleOf(r, 2) /\ Stands(1, E) /\ Stands(2, E)
  <2>1. E \in Nonterminals
    BY DEF E, Nonterminals
  <2> QED BY <2>1, HandleOfTwo
<1>2. Value(1) \in Types /\ Value(2) \in Types /\ Takes(r, <<Value(1), Value(2)>>)
  BY <1>1, TwoTaken
<1>3. r.production[2] = op
  OBVIOUS
<1> DEFINE right == Value(1)
           left == Value(2)
<1> HIDE DEF left, right
<1>4. left \in Types /\ right \in Types
  BY <1>2 DEF left, right
<1>5. Delivers(<<right, left>>, Evaluate(r))
  <2>1. CASE r.sem_action = "sem_expr_aritmetic_basic" /\ op \in {"ADD", "SUB", "MUL"}
    <3>1. Delivers(<<right, left>>, sem_expr_aritmetic_basic(left, op, right))
      BY <1>4, <2>1, ArithmeticDelivers
    <3>2. Evaluate(r) = sem_expr_aritmetic_basic(left, op, right)
      BY <1>3, <2>1, EvaluateIs DEF left, right
    <3> QED BY <3>1, <3>2
  <2>2. CASE r.sem_action = "sem_expr_div" /\ op \in Dividing
    <3>1. Delivers(<<right, left>>, sem_expr_div(left, op, right))
      BY <1>4, DivisionDelivers
    <3>2. Evaluate(r) = sem_expr_div(left, op, right)
      BY <1>3, <2>2, EvaluateIs DEF left, right
    <3> QED BY <3>1, <3>2
  <2>3. CASE r.sem_action = "sem_expr_eq_ne" /\ op \in {"EQUAL", "NE"}
    <3>1. Delivers(<<right, left>>, sem_expr_eq_ne(left, op, right))
      BY <1>4, ComparisonsDeliver
    <3>2. Evaluate(r) = sem_expr_eq_ne(left, op, right)
      BY <1>3, <2>3, EvaluateIs DEF left, right
    <3> QED BY <3>1, <3>2
  <2>4. CASE r.sem_action = "sem_expr_lte_gte" /\ op \in {"LT", "GT", "LE", "GE"}
    <3>1. Delivers(<<right, left>>, sem_expr_lte_gte(left, op, right))
      BY <1>4, <2>4, ComparisonsDeliver
    <3>2. Evaluate(r) = sem_expr_lte_gte(left, op, right)
      BY <1>3, <2>4, EvaluateIs DEF left, right
    <3> QED BY <3>1, <3>2
  <2>5. CASE r.sem_action = "sem_expr_and_or_not" /\ op \in {"AND", "OR"}
    <3>1. Delivers(<<right, left>>, sem_expr_and_or(left, op, right))
      BY <1>4, AndOrDeliver
    <3>2. op # "NOT"
      BY <2>5
    <3>3. Evaluate(r) = sem_expr_and_or(left, op, right)
      BY <1>3, <2>5, <3>2, EvaluateIs DEF left, right
    <3> QED BY <3>1, <3>3
  <2> QED BY <2>1, <2>2, <2>3, <2>4, <2>5
<1> QED BY <1>1, <1>2, <1>5, EvaluatesWhen DEF left, right

\* Variables and constants
LEMMA OperandEvaluates ==
    ASSUME StacksAgree, static_var_decl \in BOOLEAN, NEW r \in find_rule, NEW x, r.production = <<x>>,
           r.for_nt = E,
           \/ r.sem_action = "sem_expr_id" /\ x = "IDENTIFIER"
           \/ r.sem_action = "sem_expr_const" /\ x \in Constants
    PROVE  Evaluates(r)
<1>1. HandleOf(r, 0)
  <2>1. x \notin Nonterminals
    BY DEF Nonterminals, Constants
  <2> QED BY <2>1, HandleOfNone
<1>2. Takes(r, << >>)
  BY <1>1, NoneTaken
<1>3. Delivers(<< >>, Evaluate(r))
  <2>1. CASE r.sem_action = "sem_expr_id"
    <3>1. Delivers(<< >>, sem_expr_id(Named(r), static_var_decl))
      BY OperandsDeliver
    <3>2. Evaluate(r) = sem_expr_id(Named(r), static_var_decl)
      BY <2>1, EvaluateIs
    <3> QED BY <3>1, <3>2
  <2>2. CASE r.sem_action = "sem_expr_const" /\ x \in Constants
    <3>1. Delivers(<< >>, sem_expr_const(x)) /\ r.production[1] = x
      BY <2>2, OperandsDeliver
    <3>2. Evaluate(r) = sem_expr_const(r.production[1])
      BY <2>2, EvaluateIs
    <3> QED BY <3>1, <3>2
  <2> QED BY <2>1, <2>2
<1> QED BY <1>1, <1>2, <1>3, EvaluatesWhen

\* Brackets and the operators with one operand
LEMMA UnaryEvaluates ==
    ASSUME StacksAgree, NEW r \in find_rule, r.for_nt = E,
           \/ r.sem_action = "sem_expr_brackets" /\ r.production = <<"RPAR", E, "LPAR">>
           \/ r.sem_action = "sem_expr_unary" /\ r.production = <<E, "UNARY_MINUS">>
           \/ r.sem_action = "sem_expr_and_or_not" /\ r.production = <<E, "NOT">>
    PROVE  Evaluates(r)
<1>1. HandleOf(r, 1) /\ Stands(1, E)
  <2>1. E \in Nonterminals /\ {"RPAR", "LPAR"} \cap Nonterminals = {}
        /\ "UNARY_MINUS" \notin Nonterminals /\ "NOT" \notin Nonterminals
    BY DEF E, Nonterminals
  <2>2. CASE r.production = <<"RPAR", E, "LPAR">>
    BY <2>1, <2>2, HandleOfOne
  <2>3. CASE r.production = <<E, "UNARY_MINUS">>
    BY <2>1, <2>3, HandleOfOne
  <2>4. CASE r.production = <<E, "NOT">>
    BY <2>1, <2>4, HandleOfOne
  <2> QED BY <2>2, <2>3, <2>4
<1>2. Value(1) \in Types /\ Takes(r, <<Value(1)>>)
  BY <1>1, OneTaken
<1>3. Delivers(<<Value(1)>>, Evaluate(r))
  <2>1. CASE r.sem_action = "sem_expr_brackets"
    <3>1. Evaluate(r) = sem_expr_brackets(Value(1))
      BY <2>1, EvaluateIs
    <3> QED BY <1>2, <3>1, OperandsDeliver
  <2>2. CASE r.sem_action = "sem_expr_unary"
    <3>1. Evaluate(r) = sem_expr_unary(Value(1))
      BY <2>2, EvaluateIs
    <3> QED BY <1>2, <3>1, PrefixesDeliver
  <2>3. CASE r.sem_action = "sem_expr_and_or_not" /\ r.production = <<E, "NOT">>
    <3>1. r.production[2] = "NOT"
      BY <2>3
    <3>2. Evaluate(r) = sem_expr_not(Value(1))
      BY <2>3, <3>1, EvaluateIs
    <3> QED BY <1>2, <3>2, PrefixesDeliver
  <2> QED BY <2>1, <2>2, <2>3
<1> QED BY <1>1, <1>2, <1>3, EvaluatesWhen

\* Two expressions make a list, and one more lengthens it.
LEMMA ListEvaluates ==
    ASSUME StacksAgree, NEW r \in find_rule, r.for_nt = L,
           \/ r.sem_action = "sem_expr_list" /\ r.production = <<E, "COMMA", E>>
           \/ r.sem_action = "sem_expr_list_expr" /\ r.production = <<E, "COMMA", L>>
    PROVE  Evaluates(r)
<1>0. E \in Nonterminals /\ L \in Nonterminals /\ "COMMA" \notin Nonterminals
  BY DEF E, L, Nonterminals
<1>1. CASE r.sem_action = "sem_expr_list" /\ r.production = <<E, "COMMA", E>>
  <2>1. HandleOf(r, 2) /\ Stands(1, E) /\ Stands(2, E)
    BY <1>0, <1>1, HandleOfTwo
  <2>2. Value(1) \in Types /\ Value(2) \in Types /\ Takes(r, <<Value(1), Value(2)>>)
    BY <2>1, TwoTaken
  <2>3. Evaluate(r) = sem_expr_list(Value(2), Value(1))
    BY <1>1, EvaluateIs
  <2>4. DeliversList(<<Value(1), Value(2)>>, Evaluate(r))
    BY <2>2, <2>3, ListsDeliver
  <2> QED BY <2>1, <2>2, <2>4, EvaluatesWhen
<1>2. CASE r.sem_action = "sem_expr_list_expr" /\ r.production = <<E, "COMMA", L>>
  <2>1. HandleOf(r, 2) /\ Stands(1, E) /\ Stands(2, L)
    BY <1>0, <1>2, HandleOfTwo
  <2>2. Value(1) \in Types /\ Value(2) \in Seq(Types) /\ Takes(r, <<Value(1)>> \o Reverse(Value(2)))
    BY <2>1, TwoTaken
  <2>3. Evaluate(r) = sem_expr_list_expr(Value(2), Value(1))
    BY <1>2, EvaluateIs
  <2>4. DeliversList(<<Value(1)>> \o Reverse(Value(2)), Evaluate(r))
    BY <2>2, <2>3, ListsDeliver
  <2> QED BY <2>1, <2>2, <2>4, EvaluatesWhen
<1> QED BY <1>1, <1>2

\* Calls, with no argument, with one, and with a list
LEMMA CallEvaluates ==
    ASSUME StacksAgree, NEW r \in find_rule, r.for_nt = E, r.sem_action = "sem_expr_func",
           \/ r.production = <<"RPAR", "LPAR", "IDENTIFIER">>
           \/ \E nt \in Nonterminals : r.production = <<"RPAR", nt, "LPAR", "IDENTIFIER">>
    PROVE  Evaluates(r)
<1>1. SUFFICES \E p, args : HandleOf(r, p) /\ args \in Seq(Types) /\ Arguments(r) = args /\ Takes(r, Reverse(args))
  <2>1. PICK p, args : HandleOf(r, p) /\ args \in Seq(Types) /\ Arguments(r) = args /\ Takes(r, Reverse(args))
    BY <1>1
  <2>2. Delivers(Reverse(args), sem_expr_func(Named(r), args))
    BY <2>1, CallsDeliver
  <2>3. Evaluate(r) = sem_expr_func(Named(r), args)
    BY <2>1, EvaluateIs
  <2>4. Delivers(Reverse(args), Evaluate(r))
    BY <2>2, <2>3
  <2> QED BY <2>1, <2>4, EvaluatesWhen
<1>2. {"RPAR", "LPAR", "IDENTIFIER"} \cap Nonterminals = {} /\ Nonterminals = {E, L}
  BY DEF E, L, Nonterminals
<1>3. CASE r.production = <<"RPAR", "LPAR", "IDENTIFIER">>
  <2>1. HandleOf(r, 0)
    BY <1>2, <1>3, HandleOfNone
  <2>2. Takes(r, << >>)
    BY <2>1, NoneTaken
  <2>3. Arguments(r) = << >>
    BY <2>1 DEF Arguments, HandleOf
  <2>4. << >> \in Seq(Types) /\ Reverse(<< >>) = << >>
    BY ReverseOfShort
  <2>5. Takes(r, Reverse(<< >>))
    BY <2>2, <2>4
  <2> QED BY <2>1, <2>3, <2>4, <2>5
<1>4. CASE \E nt \in Nonterminals : r.production = <<"RPAR", nt, "LPAR", "IDENTIFIER">>
  <2>1. PICK nt \in Nonterminals : r.production = <<"RPAR", nt, "LPAR", "IDENTIFIER">>
    BY <1>4
  <2>2. HandleOf(r, 1) /\ Stands(1, nt)
    BY <1>2, <2>1, HandleOfOne
  <2>3. 1 \in 1 .. Len(sem_an_stack) /\ 1 + 1 \in 1 .. Len(sem_an_stack) /\ Popped(r) = 1
    <3>1. Len(sem_an_stack) \in Nat
      BY LenProperties DEF StacksAgree, Analyzers
    <3>2. 1 + 1 \in 1 .. Len(sem_an_stack) /\ Popped(r) = 1
      BY <2>2 DEF HandleOf
    <3> QED BY <3>1, <3>2
  <2>4. CASE nt = E
    <3>1. Value(1) \in Types /\ Takes(r, <<Value(1)>>)
      BY <2>2, <2>4, OneTaken
    <3>2. sem_an_stack[1].value.value_type # "LIST"
      BY <2>2, <2>3, <2>4, OperandIs
    <3>3. Arguments(r) = <<Value(1)>>
      BY <2>3, <3>2 DEF Arguments
    <3>4. <<Value(1)>> \in Seq(Types) /\ Reverse(<<Value(1)>>) = <<Value(1)>>
      BY <3>1, ReverseOfShort
    <3>5. Takes(r, Reverse(<<Value(1)>>))
      BY <3>1, <3>4
    <3> QED BY <2>2, <3>3, <3>4, <3>5
  <2>5. CASE nt = L
    <3>1. Value(1) \in Seq(Types) /\ Takes(r, Reverse(Value(1)))
      BY <2>2, <2>5, OneTaken
    <3>2. sem_an_stack[1].value.value_type = "LIST"
      BY <2>2, <2>3, <2>5, OperandIs
    <3>3. Arguments(r) = Value(1)
      BY <2>3, <3>2 DEF Arguments
    <3> QED BY <2>2, <3>1, <3>3
  <2> QED BY <1>2, <2>4, <2>5
<1> QED BY <1>3, <1>4

LEMMA EveryHandleEvaluates ==
    ASSUME StacksAgree, static_var_decl \in BOOLEAN, NEW r \in find_rule
    PROVE  Evaluates(r)
<1>1. r \in rules
  BY DEF find_rule
<1>2. CASE /\ r.sem_action \in {"sem_expr_id", "sem_expr_const"} /\ r.for_nt = E
           /\ \E x : /\ r.production = <<x>>
                     /\ IF r.sem_action = "sem_expr_id" THEN x = "IDENTIFIER" ELSE x \in Constants
  <2>1. PICK x : /\ r.production = <<x>>
                 /\ IF r.sem_action = "sem_expr_id" THEN x = "IDENTIFIER" ELSE x \in Constants
    BY <1>2
  <2>2. \/ r.sem_action = "sem_expr_id" /\ x = "IDENTIFIER"
        \/ r.sem_action = "sem_expr_const" /\ x \in Constants
    BY <1>2, <2>1
  <2> QED BY <1>2, <2>1, <2>2, OperandEvaluates
<1>3. CASE /\ r.sem_action = "sem_expr_func" /\ r.for_nt = E
           /\ \/ r.production = <<"RPAR", "LPAR", "IDENTIFIER">>
              \/ \E nt \in Nonterminals : r.production = <<"RPAR", nt, "LPAR", "IDENTIFIER">>
  BY <1>3, CallEvaluates
<1>4. CASE /\ r.for_nt = E
           /\ \/ r.sem_action = "sem_expr_brackets" /\ r.production = <<"RPAR", E, "LPAR">>
              \/ r.sem_action = "sem_expr_unary" /\ r.production = <<E, "UNARY_MINUS">>
              \/ r.sem_action = "sem_expr_and_or_not" /\ r.production = <<E, "NOT">>
  BY <1>4, UnaryEvaluates
<1>5. CASE /\ r.for_nt = E
           /\ \E op : /\ r.production = <<E, op, E>>
                      /\ \/ r.sem_action = "sem_expr_aritmetic_basic" /\ op \in {"ADD", "SUB", "MUL"}
                         \/ r.sem_action = "sem_expr_div" /\ op \in Dividing
                         \/ r.sem_action = "sem_expr_eq_ne" /\ op \in {"EQUAL", "NE"}
                         \/ r.sem_action = "sem_expr_lte_gte" /\ op \in {"LT", "GT", "LE", "GE"}
                         \/ r.sem_action = "sem_expr_and_or_not" /\ op \in {"AND", "OR"}
  <2>1. PICK op : /\ r.production = <<E, op, E>>
                  /\ \/ r.sem_action = "sem_expr_aritmetic_basic" /\ op \in {"ADD", "SUB", "MUL"}
                     \/ r.sem_action = "sem_expr_div" /\ op \in Dividing
                     \/ r.sem_action = "sem_expr_eq_ne" /\ op \in {"EQUAL", "NE"}
                     \/ r.sem_action = "sem_expr_lte_gte" /\ op \in {"LT", "GT", "LE", "GE"}
                     \/ r.sem_action = "sem_expr_and_or_not" /\ op \in {"AND", "OR"}
    BY <1>5
  <2>2. op \notin Nonterminals
    BY <2>1 DEF Nonterminals, Dividing
  <2> QED BY <1>5, <2>1, <2>2, BinaryEvaluates
<1>6. CASE /\ r.for_nt = L
           /\ \/ r.sem_action = "sem_expr_list" /\ r.production = <<E, "COMMA", E>>
              \/ r.sem_action = "sem_expr_list_expr" /\ r.production = <<E, "COMMA", L>>
  BY <1>6, ListEvaluates
<1> QED BY <1>1, <1>2, <1>3, <1>4, <1>5, <1>6, RuleCases

-----------------------------------------------------------------------------
(* What the steps leave                                                    *)

LEMMA TokenIsItem ==
    ASSUME NEW tok \in Tokens
    PROVE  /\ Item(tok.id, tok) \in Items /\ Item(tok.id, tok).type_id = tok.id
           /\ tok.id \notin Nonterminals \cup Markers
           /\ ~IsNonterminal(Item(tok.id, tok))
<1>1. tok.id \in TerminalIds
  BY DEF Tokens
<1>2. tok.id \notin Nonterminals \cup Markers
  BY <1>1 DEF TerminalIds, Nonterminals, Markers
<1>3. Item(tok.id, tok) \in Items
  BY <1>1, MarkerIsItem
<1>4. Item(tok.id, tok).type_id = tok.id
  BY MarkerIsItem
<1> QED BY <1>2, <1>3, <1>4 DEF IsNonterminal

LEMMA PushAgrees ==
    ASSUME StacksAgree, NEW item \in Items, item.type_id \notin Nonterminals \cup Markers,
           pt_map_token(item.type_id) # "END"
    PROVE  /\ Shape(<<item>> \o ext_stack)
           /\ Owned(<<item>> \o ext_stack, 1, sem_an_stack, 1)
<1>1. Shape(<<item>> \o ext_stack)
  BY ShapePushed DEF StacksAgree
<1>2. ext_stack \in Seq(Items) /\ Len(ext_stack) \in Nat /\ Len(sem_an_stack) \in Nat
  BY LenProperties DEF StacksAgree, Shape, Analyzers
<1>3. Owned(ext_stack, 1, sem_an_stack, 1)
  BY DEF StacksAgree
<1>4. ~IsNonterminal(item) /\ 1 \in 1 .. Len(ext_stack) + 1
  BY <1>2 DEF IsNonterminal
<1>5. Owned(InsertAt(ext_stack, 1, item), 1, sem_an_stack, 1)
  BY <1>2, <1>3, <1>4, TerminalPutIn
<1>6. <<item>> \o ext_stack = InsertAt(ext_stack, 1, item)
  BY <1>2, EndsArePlaces
<1> QED BY <1>1, <1>5, <1>6

LEMMA ShiftAgrees ==
    ASSUME StacksAgree, NEW item \in Items, item.type_id \notin Nonterminals \cup Markers,
           pt_map_token(item.type_id) # "END", NEW s,
           s = <<item>> \o SubSeq(ext_stack, 1, TopTerminal - 1) \o <<HandleMarker>>
               \o SubSeq(ext_stack, TopTerminal, Len(ext_stack))
    PROVE  Shape(s) /\ Owned(s, 1, sem_an_stack, 1)
<1> DEFINE i == TopTerminal
           t == InsertAt(ext_stack, i, HandleMarker)
<1>1. ext_stack \in Seq(Items) /\ Len(ext_stack) \in Nat /\ Len(sem_an_stack) \in Nat
  BY LenProperties DEF StacksAgree, Shape, Analyzers
<1>2. /\ i \in 1 .. Len(ext_stack) /\ i \in 1 .. 2
      /\ ext_stack[i].type_id \notin Below
      /\ i = 2 <=> ext_stack[1].type_id \in Nonterminals
  BY TopOfShape DEF StacksAgree
<1> HIDE DEF i, t
<1>3. i \in 1 .. Len(ext_stack) + 1
  BY <1>1, <1>2
<1>4. s = <<item>> \o t /\ t \in Seq(Items)
  BY <1>1, <1>3, ShiftPutsIn DEF i, t
<1>5. Shape(s)
  <2>1. Shape(<<item>> \o t)
    BY <1>2, ShapeShifted DEF StacksAgree, t
  <2> QED BY <1>4, <2>1
<1>6. Owned(t, 1, sem_an_stack, 1)
  <2>1. ~IsNonterminal(HandleMarker) /\ HandleMarker \in Items
    BY MarkerIsItem DEF IsNonterminal, Nonterminals
  <2>2. Owned(ext_stack, 1, sem_an_stack, 1)
    BY DEF StacksAgree
  <2> QED BY <1>1, <1>3, <2>1, <2>2, TerminalPutIn DEF t
<1>7. Owned(InsertAt(t, 1, item), 1, sem_an_stack, 1)
  <2>1. ~IsNonterminal(item)
    BY DEF IsNonterminal
  <2>2. Len(t) \in Nat
    BY <1>4, LenProperties
  <2>3. 1 \in 1 .. Len(t) + 1
    BY <2>2
  <2> QED BY <1>1, <1>4, <1>6, <2>1, <2>3, TerminalPutIn
<1>8. <<item>> \o t = InsertAt(t, 1, item)
  BY <1>4, EndsArePlaces
<1> QED BY <1>4, <1>5, <1>7, <1>8

\* The code of a reduction runs into what the new analyzer stands for.
LEMMA RunDelivers ==
    ASSUME NEW takes \in Seq(Types), NEW w \in Seq(Types), NEW code \in Seq(Instruction), NEW leaves,
           Computes(takes, code, leaves)
    PROVE  Run(takes \o w, code) = leaves \o w
<1>1. PICK after : Reaches(Machine(takes \o w, << >>), code, Machine(leaves \o w, after))
  BY DEF Computes
<1>2. Len(code) \in Nat
  BY LenProperties
<1>3. Run(takes \o w, code) = Machine(leaves \o w, after).stack
  BY <1>1, <1>2, RunEndsThere
<1> QED BY <1>3 DEF Machine

EntryOf(r) ==
    Analyzer(r.sem_action, IF r.for_nt = "NT_LIST" THEN "LIST" ELSE "EXPR", Evaluate(r).value)

LEMMA EntryOfReduction ==
    ASSUME StacksAgree, static_var_decl \in BOOLEAN, NEW r \in find_rule, Evaluate(r).ret = "SUCCESS"
    PROVE  /\ EntryOf(r) \in Entries /\ EntryOf(r).value.value_type = Kind(r.for_nt)
           /\ \E takes : /\ Takes(r, takes) /\ Evaluate(r).code \in Seq(Instruction)
                         /\ Computes(takes, Evaluate(r).code, TypesLeftBy(EntryOf(r).value))
<1> DEFINE out == Evaluate(r)
           e == EntryOf(r)
<1>1. Evaluates(r)
  BY EveryHandleEvaluates
<1>2. PICK takes : /\ Takes(r, takes)
                   /\ r.for_nt = E => Delivers(takes, out)
                   /\ r.for_nt = L => DeliversList(takes, out)
  BY <1>1 DEF Evaluates
<1>3. r.for_nt \in {E, L} /\ r.sem_action \in Actions
  BY <1>1 DEF Evaluates, find_rule, Actions, Nonterminals, E, L
<1> HIDE DEF out, e
<1>4. out.ret = "SUCCESS"
  BY DEF out
<1>5. /\ e.value.value_type = IF r.for_nt = "NT_LIST" THEN "LIST" ELSE "EXPR"
      /\ e.value.type = out.value
  BY DEF e, EntryOf, Analyzer, out
<1>6. CASE r.for_nt = E
  <2>1. out.value \in Types /\ out.code \in Seq(Instruction) /\ Computes(takes, out.code, <<out.value>>)
    BY <1>2, <1>4, <1>6 DEF Delivers
  <2>2. e = Analyzer(r.sem_action, "EXPR", out.value)
    BY <1>6 DEF e, EntryOf, out, E
  <2>3. e \in Entries
    BY <1>3, <2>1, <2>2 DEF Entries
  <2>4. e.value.value_type = "EXPR" /\ Kind(r.for_nt) = "EXPR"
    BY <1>5, <1>6 DEF E, Kind
  <2>5. TypesLeftBy(e.value) = <<e.value.type>>
    BY <2>3, <2>4, EntryLeaves
  <2>6. Computes(takes, out.code, TypesLeftBy(e.value))
    BY <1>5, <2>1, <2>5
  <2> QED BY <1>2, <2>1, <2>3, <2>4, <2>6 DEF out, e
<1>7. CASE r.for_nt = L
  <2>1. out.value \in Seq(Types) /\ out.code \in Seq(Instruction) /\ Computes(takes, out.code, Reverse(out.value))
    BY <1>2, <1>4, <1>7 DEF DeliversList
  <2>2. e = Analyzer(r.sem_action, "LIST", out.value)
    BY <1>7 DEF e, EntryOf, out, L
  <2>3. e \in Entries
    BY <1>3, <2>1, <2>2 DEF Entries
  <2>4. e.value.value_type = "LIST" /\ Kind(r.for_nt) = "LIST"
    BY <1>5, <1>7 DEF L, Kind
  <2>5. TypesLeftBy(e.value) = Reverse(e.value.type)
    BY <2>3, <2>4, EntryLeaves
  <2>6. Computes(takes, out.code, TypesLeftBy(e.value))
    BY <1>5, <2>1, <2>5
  <2> QED BY <1>2, <2>1, <2>3, <2>4, <2>6 DEF out, e
<1> QED BY <1>3, <1>6, <1>7

LEMMA RuleLength == \A r \in rules : Len(r.production) \in Nat
<1> SUFFICES ASSUME NEW r \in rules PROVE Len(r.production) \in Nat
  OBVIOUS
<1>1. \/ \E x : r.production = <<x>>
      \/ \E x, y : r.production = <<x, y>>
      \/ \E x, y, z : r.production = <<x, y, z>>
      \/ \E x, y, z, w : r.production = <<x, y, z, w>>
  BY RuleCases
<1> QED BY <1>1

LEMMA ReduceAgrees ==
    ASSUME StacksAgree, static_var_decl \in BOOLEAN, NEW r \in find_rule, Evaluate(r).ret = "SUCCESS",
           NEW s, s = <<Item(r.for_nt, NoToken)>> \o SubSeq(ext_stack, Len(r.production) + 2, Len(ext_stack)),
           NEW a, a = <<EntryOf(r)>> \o SubSeq(sem_an_stack, Popped(r) + 1, Len(sem_an_stack))
    PROVE  /\ Shape(s) /\ Analyzers(a) /\ Owned(s, 1, a, 1)
           /\ Run(OnData(sem_an_stack), Evaluate(r).code) = OnData(a)
<1> DEFINE e == EntryOf(r)
           n == Len(r.production)
           p == Popped(r)
           item == Item(r.for_nt, NoToken)
<1>1. e \in Entries /\ e.value.value_type = Kind(r.for_nt)
  BY EntryOfReduction
<1>2. PICK takes : /\ Takes(r, takes) /\ Evaluate(r).code \in Seq(Instruction)
                   /\ Computes(takes, Evaluate(r).code, TypesLeftBy(e.value))
  BY EntryOfReduction
<1>3. /\ p + 1 \in 1 .. Len(sem_an_stack)
      /\ n + 1 \in 1 .. Len(ext_stack) /\ n + 2 \in 1 .. Len(ext_stack)
      /\ ext_stack[n + 1].type_id = "HANDLE_MARKER"
      /\ Owned(ext_stack, n + 2, sem_an_stack, p + 1)
      /\ r.for_nt \in Nonterminals
  BY EveryHandleEvaluates DEF Evaluates, HandleOf
<1>4. item \in Items /\ item.type_id = r.for_nt /\ IsNonterminal(item)
  <2>1. item \in Items /\ item.type_id = r.for_nt
    BY <1>3, MarkerIsItem
  <2> QED BY <1>3, <2>1 DEF IsNonterminal
<1>5. ext_stack \in Seq(Items) /\ sem_an_stack \in Seq(Entries \cup {Parent})
  BY DEF StacksAgree, Shape, Analyzers
<1>6. n \in Nat
  BY RuleLength DEF find_rule
<1> HIDE DEF e, n, p, item
<1>7. Shape(<<item>> \o SubSeq(ext_stack, (n + 1) + 1, Len(ext_stack)))
  BY <1>3, <1>4, ShapeReduced DEF StacksAgree
<1>8. (n + 1) + 1 = n + 2
  BY <1>6
<1>9. Shape(s)
  BY <1>7, <1>8 DEF item, n
<1>10. Owned(s, 1, a, 1)
  <2>1. e \in Entries \cup {Parent} /\ e.value.value_type = Kind(item.type_id)
    BY <1>1, <1>4
  <2>2. Owned(<<item>> \o SubSeq(ext_stack, n + 2, Len(ext_stack)), 1,
              <<e>> \o SubSeq(sem_an_stack, p + 1, Len(sem_an_stack)), 1)
    BY <1>3, <1>4, <1>5, <2>1, HandleReplaced
  <2> QED BY <2>2 DEF item, n, e, p
<1> DEFINE w == OnData(SubSeq(sem_an_stack, p + 1, Len(sem_an_stack)))
<1>11. /\ w \in Seq(Types)
       /\ Analyzers(a) /\ OnData(a) = TypesLeftBy(e.value) \o w
  <2>1. Analyzers(sem_an_stack)
    BY DEF StacksAgree
  <2>2. a = <<e>> \o SubSeq(sem_an_stack, p + 1, Len(sem_an_stack))
    BY DEF e, p
  <2> QED BY <1>1, <1>3, <2>1, <2>2, AnalyzersBelow
<1>12. takes \in Seq(Types) /\ OnData(sem_an_stack) = takes \o w
  BY <1>2 DEF Takes, p
<1> HIDE DEF w
<1>13. Run(takes \o w, Evaluate(r).code) = TypesLeftBy(e.value) \o w
  BY <1>2, <1>11, <1>12, RunDelivers
<1> QED BY <1>9, <1>10, <1>11, <1>12, <1>13

LEMMA BottomSubSeq ==
    ASSUME NEW S, NEW a \in Seq(S), Len(a) = 2
    PROVE  SubSeq(a, 2, Len(a)) = <<a[2]>>
<1>1. SubSeq(a, 2, Len(a)) = <<a[2]>> \o SubSeq(a, 2 + 1, Len(a))
  <2>1. 2 \in 1 .. Len(a) /\ Len(a) \in 2 .. Len(a)
    OBVIOUS
  <2> QED BY <2>1, SubSeqRecursiveFirst
<1>2. SubSeq(a, 2 + 1, Len(a)) = << >>
  BY SubSeqEmpty
<1>3. <<a[2]>> \in Seq(S)
  BY ElementOfSeq
<1>4. <<a[2]>> \o << >> = <<a[2]>>
  BY <1>3, ConcatEmptySeq
<1> QED BY <1>1, <1>2, <1>4

\* At the end of an expression one value is left, above the parent.
LEMMA FinishAgrees ==
    ASSUME StacksAgree, Head(ext_stack).type_id = "NT_EXPRESSION",
           GET_ACTION(ext_stack[TopTerminal].type_id, token.id) = "SUCCESS"
    PROVE  /\ Len(sem_an_stack) = 2 /\ sem_an_stack[2] = Parent
           /\ Value(1) \in Types /\ OnData(sem_an_stack) = <<Value(1)>>
<1> DEFINE s == ext_stack
           a == sem_an_stack
<1>1. /\ s \in Seq(Items) /\ Len(s) \in Nat /\ Len(s) # 0 /\ 1 \in 1 .. Len(s)
      /\ a \in Seq(Entries \cup {Parent}) /\ Len(a) \in Nat /\ 1 \in 1 .. Len(a)
      /\ a[Len(a)] = Parent
  <2>1. s \in Seq(Items) /\ Len(s) # 0 /\ a \in Seq(Entries \cup {Parent}) /\ Len(a) # 0 /\ a[Len(a)] = Parent
    BY DEF StacksAgree, Shape, Analyzers
  <2>2. Len(s) \in Nat /\ Len(a) \in Nat
    BY <2>1, LenProperties
  <2> HIDE DEF s, a
  <2> QED BY <2>1, <2>2
<1>2. s[1].type_id = E /\ E \in Nonterminals
  <2>1. Head(s) = s[1]
    BY <1>1
  <2> QED BY <2>1 DEF E, Nonterminals
<1>3. TopTerminal = 2 /\ 2 \in 1 .. Len(s) /\ s[2].type_id \notin Below
  BY <1>2, TopOfShape DEF StacksAgree
<1>4. Len(s) = 2
  <2>1. pt_map_token(s[2].type_id) = "END"
    BY <1>3, ActionsMean
  <2>2. s[2].type_id \in Nonterminals \cup Markers
    BY <1>3, <2>1 DEF StacksAgree, Shape
  <2>3. s[2].type_id = "END_MARKER"
    BY <1>3, <2>2 DEF Below, Markers
  <2> QED BY <1>3, <2>3 DEF StacksAgree, Shape
<1> HIDE DEF s, a
<1>5. 1 + 1 \in 1 .. Len(a) /\ Stands(1, E) /\ Owned(s, 1 + 1, a, 1 + 1)
  <2>1. Owned(s, 1, a, 1)
    BY DEF StacksAgree, s, a
  <2> QED BY <1>1, <1>2, <2>1, PassedOn DEF s, a
<1>6. Owned(s, 2 + 1, a, 2)
  <2>1. Owned(s, 2, a, 2) /\ 2 \in 1 .. Len(a)
    BY <1>5
  <2>2. s[2].type_id \notin Nonterminals
    BY <1>3 DEF Below
  <2> QED BY <1>3, <2>1, <2>2, PassedOn DEF s, a
<1>7. Len(a) = 2
  <2>1. PICK owner : Owns(owner, s, 2 + 1, a, 2)
    BY <1>6 DEF Owned
  <2>2. \A x \in 2 .. Len(a) - 1 : owner[x] \in 2 + 1 .. Len(s)
    BY <2>1 DEF Owns
  <2>3. ~(2 < Len(a))
    <3> SUFFICES ASSUME 2 < Len(a) PROVE FALSE
      OBVIOUS
    <3>1. 2 \in 2 .. Len(a) - 1
      BY <1>1
    <3> QED BY <1>4, <2>2, <3>1
  <2>4. Len(a) \in Nat /\ 1 + 1 \in 1 .. Len(a)
    BY <1>1, <1>5
  <2>5. \A l \in Nat : 1 + 1 \in 1 .. l /\ ~(2 < l) => l = 2
    OBVIOUS
  <2> QED BY <2>3, <2>4, <2>5
<1>8. Value(1) \in Types /\ TypesLeftBy(a[1].value) = <<Value(1)>>
  BY <1>1, <1>5, OperandIs DEF a
<1>9. OnData(a) = <<Value(1)>> \o OnData(SubSeq(a, 2, Len(a)))
  <2>1. OnData(SubSeq(a, 1, Len(a))) = TypesLeftBy(a[1].value) \o OnData(SubSeq(a, 1 + 1, Len(a)))
    <3>1. 1 < Len(a) /\ Analyzers(a)
      BY <1>7 DEF StacksAgree, a
    <3> QED BY <1>1, <3>1, AnalyzersBelow
  <2>2. SubSeq(a, 1, Len(a)) = a
    BY <1>1, SubSeqFull
  <2>3. 1 + 1 = 2
    OBVIOUS
  <2> QED BY <1>8, <2>1, <2>2, <2>3
<1>10. SubSeq(a, 2, Len(a)) = <<Parent>>
  BY <1>1, <1>7, BottomSubSeq
<1>11. <<Value(1)>> \o << >> = <<Value(1)>>
  <2>1. <<Value(1)>> \in Seq(Types)
    BY <1>8
  <2> QED BY <2>1, ConcatEmptySeq
<1>12. OnData(a) = <<Value(1)>>
  BY <1>9, <1>10, <1>11, OnDataOfParent
<1> QED BY <1>1, <1>7, <1>8, <1>12 DEF a

LEMMA StartAgrees ==
    ASSUME NEW s, s = <<Item("END_MARKER", NoToken)>>, NEW a, a = <<Parent>>
    PROVE  Shape(s) /\ Analyzers(a) /\ Owned(s, 1, a, 1) /\ OnData(a) = << >>
<1> DEFINE item == Item("END_MARKER", NoToken)
<1>1. item \in Items /\ item.type_id = "END_MARKER"
  <2>1. "END_MARKER" \in Markers
    BY DEF Markers
  <2> QED BY <2>1, MarkerIsItem
<1> HIDE DEF item
<1>2. s \in Seq(Items) /\ Len(s) = 1 /\ s[1] = item /\ Len(a) = 1
  BY <1>1 DEF item
<1>3. \A k \in 1 .. Len(s) : k = 1 /\ s[k].type_id = "END_MARKER"
  BY <1>1, <1>2
<1>4. Shape(s)
  BY <1>2, <1>3 DEF Shape, Markers, Nonterminals
<1>5. Owns([x \in 1 .. 0 |-> 1], s, 1, a, 1)
  <2>1. Len(a) - 1 = 0 /\ 1 .. 0 = {}
    BY <1>2
  <2>2. \A l \in 1 .. Len(s) : ~IsNonterminal(s[l])
    BY <1>3 DEF IsNonterminal, Nonterminals
  <2> QED BY <1>2, <2>1, <2>2 DEF Owns
<1>6. Owned(s, 1, a, 1)
  BY <1>5 DEF Owned
<1> QED BY <1>4, <1>6, OnDataOfParent

-----------------------------------------------------------------------------
(* The inductive invariant: while it parses, both stacks agree, and the    *)
(* emitted code has left on the data stack what the analyzers stand for.   *)

Parsing ==
    /\ position \in Nat
    /\ token \in Tokens
    /\ StacksAgree
    /\ data_stack = OnData(sem_an_stack)

Agreement ==
    /\ source \in Seq(TokenType)
    /\ static_var_decl \in BOOLEAN
    /\ pc # "done" => Parsing
    /\ ResultHandedOver

LEMMA AgreementAtStart == Init => Agreement
<1> SUFFICES ASSUME Init PROVE Agreement
  OBVIOUS
<1>1. Shape(ext_stack) /\ Analyzers(sem_an_stack) /\ Owned(ext_stack, 1, sem_an_stack, 1)
      /\ OnData(sem_an_stack) = << >>
  BY StartAgrees DEF Init
<1>2. StacksAgree
  BY <1>1 DEF StacksAgree
<1>3. source \in Seq(TokenType) /\ static_var_decl \in BOOLEAN
  BY InputsAssumption DEF Init
<1>4. position \in Nat /\ token \in Tokens
  BY MarkerIsItem DEF Init
<1>5. ResultHandedOver
  BY DEF Init, ResultHandedOver
<1>6. data_stack = OnData(sem_an_stack)
  BY <1>1 DEF Init
<1> QED BY <1>2, <1>3, <1>4, <1>5, <1>6 DEF Agreement, Parsing

LEMMA NextTokenIsToken ==
    ASSUME source \in Seq(TokenType), position \in Nat
    PROVE  NextToken \in Tokens /\ [NextToken EXCEPT !.id = "UNARY_MINUS"] \in Tokens
<1>1. NextToken \in Tokens
  <2>1. CASE position < Len(source)
    <3>1. Len(source) \in Nat
      BY LenProperties
    <3>2. position + 1 \in 1 .. Len(source)
      BY <2>1, <3>1
    <3>3. source[position + 1] \in TokenType
      BY <3>2, ElementOfSeq
    <3>4. source[position + 1] \in Tokens
      BY <3>3 DEF TokenType, Tokens, TerminalIds
    <3> QED BY <2>1, <3>4 DEF NextToken
  <2>2. CASE ~(position < Len(source))
    <3>1. EOF \in Tokens
      BY DEF EOF, Tokens, TerminalIds
    <3> QED BY <2>2, <3>1 DEF NextToken
  <2> QED BY <2>1, <2>2
<1>2. \A tok \in Tokens : [tok EXCEPT !.id = "UNARY_MINUS"] \in Tokens
  BY DEF Tokens, TerminalIds
<1> QED BY <1>1, <1>2

\* sem_expr_result in place of the topmost analyzer
LEMMA UnderNewTop ==
    ASSUME NEW S, NEW a \in Seq(S), Len(a) = 2, NEW e
    PROVE  Len(<<e>> \o Tail(a)) = 2 /\ (<<e>> \o Tail(a))[2] = a[2]
<1>1. Len(Tail(a)) = 1 /\ Tail(a)[1] = a[2]
  <2>1. a # << >>
    OBVIOUS
  <2>2. Len(Tail(a)) = Len(a) - 1 /\ \A k \in 1 .. Len(Tail(a)) : Tail(a)[k] = a[k + 1]
    BY <2>1, HeadTailProperties
  <2>3. Len(Tail(a)) = 1
    BY <2>2
  <2>4. \A k \in 1 .. 1 : Tail(a)[k] = a[k + 1]
    BY <2>2, <2>3
  <2>5. 1 \in 1 .. 1 /\ 1 + 1 = 2
    OBVIOUS
  <2> QED BY <2>3, <2>4, <2>5
<1>2. Tail(a) \in Seq(S \cup {e}) /\ <<e>> \in Seq(S \cup {e}) /\ Len(<<e>>) = 1
  OBVIOUS
<1> DEFINE t == Tail(a)
           o == <<e>>
<1> HIDE DEF t, o
<1>3. /\ Len(o \o t) = Len(o) + Len(t)
      /\ \A k \in 1 .. Len(o) + Len(t) : (o \o t)[k] = IF k <= Len(o) THEN o[k] ELSE t[k - Len(o)]
  BY <1>2, ConcatProperties DEF t, o
<1>4. Len(o) = 1 /\ Len(t) = 1 /\ t[1] = a[2]
  BY <1>1, <1>2 DEF t, o
<1>5. 2 \in 1 .. 1 + 1 /\ ~(2 <= 1) /\ 2 - 1 = 1
  OBVIOUS
<1> QED BY <1>3, <1>4, <1>5 DEF t, o

LEMMA AgreementKept == Agreement /\ [Next]_vars => Agreement'
<1> SUFFICES ASSUME Agreement, [Next]_vars PROVE Agreement'
  OBVIOUS
<1>1. source \in Seq(TokenType) /\ static_var_decl \in BOOLEAN
  BY DEF Agreement
<1>2. source' = source /\ static_var_decl' = static_var_decl
  BY DEF Next, vars, GetToken, Shift, Push, Reject, Reduce, ReduceFails, Finish
<1>3. source' \in Seq(TokenType) /\ static_var_decl' \in BOOLEAN
  BY <1>1, <1>2
<1>4. (pc = "act" \/ pc = "get_token") => Parsing
  BY DEF Agreement
\* A step that goes on with a stack of its own
<1>5. ASSUME pc' # "done", Parsing' PROVE Agreement'
  BY <1>3, <1>5 DEF Agreement, ResultHandedOver
<1>6. ASSUME pc' = "done", ret_code' # "SUCCESS" PROVE Agreement'
  BY <1>3, <1>6 DEF Agreement, ResultHandedOver
<1>7. CASE GetToken
  <2>1. Parsing
    BY <1>4, <1>7 DEF GetToken
  <2>2. /\ ext_stack' = ext_stack /\ sem_an_stack' = sem_an_stack /\ data_stack' = data_stack
        /\ token' = IF NextToken.id = "SUB" /\ last_token \in UnaryContext
                    THEN [NextToken EXCEPT !.id = "UNARY_MINUS"]
                    ELSE NextToken
    BY <1>7 DEF GetToken
  <2>3. CASE NextToken.id = "LEX_ERROR"
    <3>1. pc' = "done" /\ ret_code' = "LEX_ERROR"
      BY <1>7, <2>3 DEF GetToken
    <3> QED BY <1>6, <3>1
  <2>4. CASE NextToken.id # "LEX_ERROR"
    <3>1. pc' = "act" /\ position' = position + 1
      BY <1>7, <2>4 DEF GetToken
    <3>2. position \in Nat /\ StacksAgree /\ data_stack = OnData(sem_an_stack)
      BY <2>1 DEF Parsing
    <3>3. NextToken \in Tokens /\ [NextToken EXCEPT !.id = "UNARY_MINUS"] \in Tokens
      BY <1>1, <3>2, NextTokenIsToken
    <3>4. token' \in Tokens
      BY <2>2, <3>3
    <3>5. position' \in Nat
      BY <3>1, <3>2
    <3>6. StacksAgree'
      BY <2>2, <3>2 DEF StacksAgree
    <3>7. data_stack' = OnData(sem_an_stack')
      BY <2>2, <3>2
    <3>8. Parsing'
      BY <3>4, <3>5, <3>6, <3>7 DEF Parsing
    <3> QED BY <1>5, <3>1, <3>8
  <2> QED BY <2>3, <2>4
<1>8. CASE Shift
  <2>1. Parsing /\ GET_ACTION(ext_stack[TopTerminal].type_id, token.id) = "HANDLE"
    BY <1>4, <1>8 DEF Shift, Acting, Action
  <2>2. /\ ext_stack' = <<Item(token.id, token)>> \o SubSeq(ext_stack, 1, TopTerminal - 1)
                        \o <<HandleMarker>> \o SubSeq(ext_stack, TopTerminal, Len(ext_stack))
        /\ pc' = "get_token"
        /\ position' = position /\ token' = token /\ sem_an_stack' = sem_an_stack
        /\ data_stack' = data_stack
    BY <1>8 DEF Shift, HandleMarker
  <2>3. position \in Nat /\ token \in Tokens /\ StacksAgree /\ data_stack = OnData(sem_an_stack)
    BY <2>1 DEF Parsing
  <2>4. pt_map_token(token.id) # "END"
    BY <2>1, ActionsMean
  <2>5. Shape(ext_stack') /\ Owned(ext_stack', 1, sem_an_stack, 1)
    BY <2>2, <2>3, <2>4, TokenIsItem, ShiftAgrees
  <2>6. StacksAgree'
    BY <2>2, <2>3, <2>5 DEF StacksAgree
  <2>7. Parsing'
    BY <2>2, <2>3, <2>6 DEF Parsing
  <2> QED BY <1>5, <2>2, <2>7
<1>9. CASE Push
  <2>1. Parsing /\ GET_ACTION(ext_stack[TopTerminal].type_id, token.id) = "PUSH"
    BY <1>4, <1>9 DEF Push, Acting, Action
  <2>2. /\ ext_stack' = <<Item(token.id, token)>> \o ext_stack
        /\ pc' = "get_token"
        /\ position' = position /\ token' = token /\ sem_an_stack' = sem_an_stack
        /\ data_stack' = data_stack
    BY <1>9 DEF Push
  <2>3. position \in Nat /\ token \in Tokens /\ StacksAgree /\ data_stack = OnData(sem_an_stack)
    BY <2>1 DEF Parsing
  <2>4. pt_map_token(token.id) # "END"
    BY <2>1, ActionsMean
  <2>5. Shape(ext_stack') /\ Owned(ext_stack', 1, sem_an_stack, 1)
    BY <2>2, <2>3, <2>4, TokenIsItem, PushAgrees
  <2>6. StacksAgree'
    BY <2>2, <2>3, <2>5 DEF StacksAgree
  <2>7. Parsing'
    BY <2>2, <2>3, <2>6 DEF Parsing
  <2> QED BY <1>5, <2>2, <2>7
<1>10. CASE Reject
  <2>1. pc' = "done" /\ ret_code' # "SUCCESS"
    BY <1>10 DEF Reject, Return
  <2> QED BY <1>6, <2>1
<1>11. CASE Reduce
  <2>1. PICK r \in find_rule :
            /\ Evaluate(r).ret = "SUCCESS"
            /\ ext_stack' = <<Item(r.for_nt, NoToken)>>
                            \o SubSeq(ext_stack, Len(r.production) + 2, Len(ext_stack))
            /\ sem_an_stack' = <<EntryOf(r)>> \o SubSeq(sem_an_stack, Popped(r) + 1, Len(sem_an_stack))
            /\ data_stack' = Run(data_stack, Evaluate(r).code)
    BY <1>11 DEF Reduce, EntryOf
  <2>2. pc' # "done" /\ position' = position /\ token' = token /\ pc = "act"
    BY <1>11 DEF Reduce, Acting
  <2>3. position \in Nat /\ token \in Tokens /\ StacksAgree /\ data_stack = OnData(sem_an_stack)
    BY <1>4, <2>2 DEF Parsing
  <2>4. /\ Shape(ext_stack') /\ Analyzers(sem_an_stack') /\ Owned(ext_stack', 1, sem_an_stack', 1)
        /\ Run(OnData(sem_an_stack), Evaluate(r).code) = OnData(sem_an_stack')
    BY <1>1, <2>1, <2>3, ReduceAgrees
  <2>5. StacksAgree'
    BY <2>4 DEF StacksAgree
  <2>6. Parsing'
    BY <2>1, <2>2, <2>3, <2>4, <2>5 DEF Parsing
  <2> QED BY <1>5, <2>2, <2>6
<1>12. CASE ReduceFails
  <2>1. pc' = "done" /\ ret_code' # "SUCCESS"
    BY <1>12 DEF ReduceFails, Return
  <2> QED BY <1>6, <2>1
<1>13. CASE Finish
  <2>1. CASE Head(ext_stack).type_id = "NT_EXPRESSION"
    <3>1. /\ pc = "act" /\ GET_ACTION(ext_stack[TopTerminal].type_id, token.id) = "SUCCESS"
          /\ pc' = "done"
          /\ sem_an_stack' = <<Analyzer("sem_expr_result", "ID", "EXPR_VALUE")>> \o Tail(sem_an_stack)
          /\ expr_value' = [stored |-> Head(data_stack), declared |-> Value(1)]
          /\ data_stack' = Tail(data_stack)
      BY <1>13, <2>1 DEF Finish, Acting, Action, Return, sem_expr_result
    <3>2. StacksAgree /\ data_stack = OnData(sem_an_stack)
      BY <1>4, <3>1 DEF Parsing
    <3>3. /\ Len(sem_an_stack) = 2 /\ sem_an_stack[2] = Parent
          /\ Value(1) \in Types /\ OnData(sem_an_stack) = <<Value(1)>>
      BY <2>1, <3>1, <3>2, FinishAgrees
    <3>4. Head(data_stack) = Value(1) /\ Tail(data_stack) = << >>
      BY <3>2, <3>3
    <3>5. data_stack' = << >> /\ expr_value'.stored = Value(1) /\ expr_value'.declared = Value(1)
      BY <3>1, <3>4
    <3>6. Len(sem_an_stack') = 2 /\ sem_an_stack'[2] = Parent
      <4>1. sem_an_stack \in Seq(Entries \cup {Parent})
        BY <3>2 DEF StacksAgree, Analyzers
      <4> QED BY <3>1, <3>3, <4>1, UnderNewTop
    <3>7. ResultHandedOver'
      BY <3>3, <3>5, <3>6 DEF ResultHandedOver
    <3> QED BY <1>3, <3>1, <3>7 DEF Agreement
  <2>2. CASE Head(ext_stack).type_id # "NT_EXPRESSION"
    <3>1. pc' = "done" /\ ret_code' # "SUCCESS"
      BY <1>13, <2>2 DEF Finish, Return
    <3> QED BY <1>6, <3>1
  <2> QED BY <2>1, <2>2
<1>14. CASE UNCHANGED vars
  <2>1. /\ pc' = pc /\ ret_code' = ret_code /\ position' = position /\ token' = token
        /\ ext_stack' = ext_stack /\ sem_an_stack' = sem_an_stack
        /\ data_stack' = data_stack /\ expr_value' = expr_value
    BY <1>14 DEF vars
  <2>2. (pc # "done" => Parsing) /\ ResultHandedOver
    BY DEF Agreement
  <2>3. ResultHandedOver'
    BY <2>1, <2>2 DEF ResultHandedOver
  <2>4. Parsing => Parsing'
    BY <2>1 DEF Parsing, StacksAgree
  <2> QED BY <1>3, <2>1, <2>2, <2>3, <2>4 DEF Agreement
<1> QED BY <1>7, <1>8, <1>9, <1>10, <1>11, <1>12, <1>13, <1>14 DEF Next

(* ext_stack_reduce may pop one analyzer for each nonterminal it removes:  *)
(* at every moment of the parsing the analyzers on Parser.sem_an_stack are *)
(* those of the nonterminals on the extended stack, in their order and of  *)
(* their kinds, above the analyzer of the statement, whatever the tokens.  *)
THEOREM AnalyzersFollowNonterminals == Spec => []AnalyzersMatchNonterminals
<1>1. Agreement => AnalyzersMatchNonterminals
  <2> SUFFICES ASSUME Agreement, Running PROVE AnalyzersMatchNonterminals
    BY DEF AnalyzersMatchNonterminals
  <2>1. StacksAgree
    BY DEF Agreement, Parsing, Running
  <2>2. Len(ext_stack) \in Nat
    BY <2>1, LenProperties DEF StacksAgree, Shape
  <2> QED BY <2>1, <2>2, OwnedMatches DEF StacksAgree
<1> QED BY <1>1, AgreementAtStart, AgreementKept, PTL DEF Spec

(* The code an expression emits leaves on the data stack the values the    *)
(* pending analyzers stand for, of the types they claim; what is left in   *)
(* the end is one value, popped into EXPR_VALUE, of the type the statement *)
(* is told.  For any variables, functions and tokens.                      *)
THEOREM CodeLeavesWhatAnalyzersClaim == Spec => []DataStackMatchesAnalyzers
<1>1. Agreement => DataStackMatchesAnalyzers
  <2> SUFFICES ASSUME Agreement PROVE DataStackMatchesAnalyzers
    OBVIOUS
  <2>1. ResultHandedOver
    BY DEF Agreement
  <2>2. Running => data_stack = OnData(sem_an_stack)
    BY DEF Agreement, Parsing, Running
  <2> QED BY <2>1, <2>2 DEF DataStackMatchesAnalyzers, OnData, Left
<1> QED BY <1>1, AgreementAtStart, AgreementKept, PTL DEF Spec
=============================================================================
