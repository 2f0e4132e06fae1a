-------------------------------- MODULE Magic -------------------------------
(***************************************************************************)
(* datalog_program_magic_transform of lib/magic.c: a program and a goal    *)
(* become a program that derives only what the goal asks for.              *)
(*                                                                         *)
(* The transformation works through a queue of predicates with an          *)
(* adornment, one letter for the subject and one for the object: b when a  *)
(* caller has a value for it, f when not.  Each rule of such a predicate   *)
(* is rewritten to derive the adorned predicate from a magic fact, which   *)
(* says for which values it is asked, and gives magic rules for the        *)
(* predicates it uses.  A step transforms one rule.                        *)
(*                                                                         *)
(* The name that format_name spells from a prefix, a predicate and an      *)
(* adornment is the triple of them: a program that spells such names       *)
(* itself is outside the model.                                            *)
(***************************************************************************)
EXTENDS Integers, Sequences, FiniteSets, SequencesExt

CONSTANTS
    Var,        \* the variables of rules
    Values,     \* subjects and objects of facts
    Predicates, \* the predicates that programs name
    TrueValue,  \* "true", the object of a magic fact with one argument
    Inputs,     \* [rules, facts, goal]: a program, a store for it, and a query
    Rounds      \* after how many rounds to look at what is derived: Nat, or for TLC a number that is enough

\* An atom is a triple [s, p, o] that may be negated; its predicate is a name.
Atom(s, p, o, negated) == [s |-> s, p |-> p, o |-> o, negated |-> negated]

Atoms == [s : Var \union Values, p : Predicates, o : Var \union Values, negated : BOOLEAN]

VarsOf(a) == {a.s, a.o} \intersect Var

\* The variables of the positive ones among some subgoals of a rule.
PositiveVars(rule, subgoals) == UNION {VarsOf(rule.body[k]) : k \in {i \in subgoals : ~rule.body[i].negated}}

\* Safe: each variable of the head and of a negated subgoal is in a positive one.
datalog_rule_validate(rule) ==
    /\ VarsOf(rule.head) \subseteq PositiveVars(rule, DOMAIN rule.body)
    /\ \A k \in DOMAIN rule.body :
          rule.body[k].negated => VarsOf(rule.body[k]) \subseteq PositiveVars(rule, DOMAIN rule.body)

\* The programs that are transformed: their rules are safe, also when each
\* subgoal is evaluated in its turn.
WellFormed ==
    /\ Var \intersect (Values \union {TrueValue}) = {}
    /\ TrueValue \notin Values
    /\ Rounds \subseteq Nat
    /\ Inputs \subseteq [rules : Seq([head : Atoms, body : Seq(Atoms)]),
                         facts : SUBSET (Values \X Predicates \X Values), goal : Atoms]
    /\ \A call \in Inputs : \A n \in DOMAIN call.rules :
          LET rule == call.rules[n]
          IN  /\ datalog_rule_validate(rule)
              /\ \A k \in DOMAIN rule.body :
                    rule.body[k].negated => VarsOf(rule.body[k]) \subseteq PositiveVars(rule, 1..(k - 1))

ASSUME MagicAssumption == WellFormed

VARIABLES
    input,      \* the call
    queue,      \* adorned predicates, [name, adornment]
    processed,  \* how many of them are done
    r,          \* the rule at which the current one is, counted from 1
    magic_prog, \* the rules so far
    result      \* "none" while the loop runs, then "program" or "NULL"

magicVars == <<input, queue, processed, r, magic_prog, result>>

format_name(prefix, name, adornment) == <<prefix, name, adornment>>

\* The name of a predicate that a program or a fact uses.
Plain(name) == format_name("", name, "")

\* A rule or a goal of the input with its predicates as names.
Subgoal(a, name) == Atom(a.s, name, a.o, a.negated)

is_idb_predicate(p) == \E n \in DOMAIN input.rules : input.rules[n].head.p = p

-----------------------------------------------------------------------------
(* Adornments *)

Adornment(s, o) ==
    CASE s /\ o -> "bb" [] s /\ ~o -> "bf" [] ~s /\ o -> "fb" [] OTHER -> "ff"

SubjectBound(adornment) == adornment \in {"bb", "bf"}
ObjectBound(adornment) == adornment \in {"bb", "fb"}

\* The variables that the caller of a rule gives values to.
GivenVars(rule, adornment) ==
    ((IF SubjectBound(adornment) THEN {rule.head.s} ELSE {})
        \union (IF ObjectBound(adornment) THEN {rule.head.o} ELSE {})) \intersect Var

\* Mutation: every subgoal of the rule counts as evaluated before.
BoundByAll(rule, adornment, j) ==
    GivenVars(rule, adornment) \union UNION {VarsOf(rule.body[k]) : k \in DOMAIN rule.body \ {j}}

\* The variables that have a value when subgoal j is reached; those of a negated
\* subgoal count too.
BoundVars(rule, adornment, j) ==
    GivenVars(rule, adornment) \union UNION {VarsOf(rule.body[k]) : k \in 1..(j - 1)}

SubAdornment(rule, adornment, j) ==
    LET Bound(term) == term \notin Var \/ term \in BoundVars(rule, adornment, j)
    IN  Adornment(Bound(rule.body[j].s), Bound(rule.body[j].o))

-----------------------------------------------------------------------------
(* The rules that one rule becomes *)

\* The arguments of a predicate that are bound, as a fact.
make_magic_fact(name, adornment, s, o) ==
    LET p == format_name("magic_", name, adornment)
    IN  CASE adornment = "bf" -> Atom(s, p, TrueValue, FALSE)
          [] adornment = "fb" -> Atom(o, p, TrueValue, FALSE)
          [] adornment = "bb" -> Atom(s, p, o, FALSE)

make_adorned_subgoal(rule, adornment, k) ==
    LET a == rule.body[k]
    IN  Subgoal(a, IF is_idb_predicate(a.p) THEN format_name("", a.p, SubAdornment(rule, adornment, k))
                   ELSE Plain(a.p))

\* The magic fact that supports what a rule becomes, if its head has one.
MagicSupport(rule, current) ==
    IF current.adornment = "ff" THEN <<>>
    ELSE <<make_magic_fact(current.name, current.adornment, rule.head.s, rule.head.o)>>

\* The support and the first n subgoals.
Prefix(rule, current, n) ==
    MagicSupport(rule, current) \o [k \in 1..n |-> make_adorned_subgoal(rule, current.adornment, k)]

\* A subgoal that is itself derived is asked for when the ones before it hold.
MagicRule(rule, current, j) ==
    [head |-> make_magic_fact(rule.body[j].p, SubAdornment(rule, current.adornment, j),
                              rule.body[j].s, rule.body[j].o),
     body |-> Prefix(rule, current, j - 1)]

RewrittenRule(rule, current) ==
    [head |-> Subgoal(rule.head, format_name("", current.name, current.adornment)),
     body |-> Prefix(rule, current, Len(rule.body))]

\* Mutation: a predicate is queued under the first adornment it is met with only.
EnqueueName(q, name, adornment) ==
    IF \E n \in DOMAIN q : q[n].name = name THEN q
    ELSE Append(q, [name |-> name, adornment |-> adornment])

enqueue_adorned(q, name, adornment) ==
    IF Contains(q, [name |-> name, adornment |-> adornment]) THEN q
    ELSE Append(q, [name |-> name, adornment |-> adornment])

\* Subgoal j in the two loops over the body: a derived one is queued, and asked
\* for by a magic rule.
Ask(at, rule, current, j) ==
    LET a == rule.body[j]
        adornment == SubAdornment(rule, current.adornment, j)
    IN  IF ~is_idb_predicate(a.p) THEN at
        ELSE [queue |-> enqueue_adorned(at.queue, a.p, adornment),
              program |-> IF adornment = "ff" THEN at.program ELSE Append(at.program, MagicRule(rule, current, j))]

\* What one rule adds to the queue and to the program.
transform_rule(rule, current) ==
    LET at[j \in 0..Len(rule.body)] ==
            IF j = 0 THEN [queue |-> queue, program |-> magic_prog] ELSE Ask(at[j - 1], rule, current, j)
        all == at[Len(rule.body)]
    IN  [queue |-> all.queue, program |-> Append(all.program, RewrittenRule(rule, current))]

-----------------------------------------------------------------------------
(* The loop *)

MagicInit ==
    /\ input \in Inputs
    /\ queue = enqueue_adorned(<<>>, input.goal.p, Adornment(input.goal.s \notin Var, input.goal.o \notin Var))
    /\ processed = 0
    /\ r = 1
    /\ magic_prog = <<>>
    /\ result = "none"

Running == result = "none" /\ processed < Len(queue)

current_pred == queue[processed + 1]

OfCurrent == input.rules[r].head.p = current_pred.name

\* A rule of the current predicate.
TransformRule ==
    /\ Running
    /\ r <= Len(input.rules)
    /\ OfCurrent
    /\ LET done == transform_rule(input.rules[r], current_pred)
       IN  queue' = done.queue /\ magic_prog' = done.program
    /\ r' = r + 1
    /\ UNCHANGED <<input, processed, result>>

\* Mutation: the loop stays at a rule of another predicate.
StayAtRule ==
    /\ Running
    /\ r <= Len(input.rules)
    /\ ~OfCurrent
    /\ UNCHANGED <<input, queue, processed, r, magic_prog, result>>

SkipRule ==
    /\ Running
    /\ r <= Len(input.rules)
    /\ ~OfCurrent
    /\ r' = r + 1
    /\ UNCHANGED <<input, queue, processed, magic_prog, result>>

NextPredicate ==
    /\ Running
    /\ r > Len(input.rules)
    /\ processed' = processed + 1
    /\ r' = 1
    /\ UNCHANGED <<input, queue, magic_prog, result>>

\* No memory: everything is freed, and there is no program.
Fails ==
    /\ result = "none"
    /\ magic_prog' = <<>>
    /\ queue' = <<>>
    /\ result' = "NULL"
    /\ UNCHANGED <<input, processed, r>>

Returns ==
    /\ result = "none"
    /\ processed = Len(queue)
    /\ result' = "program"
    /\ UNCHANGED <<input, queue, processed, r, magic_prog>>

\* A pass of the loop, or its end.
Step == TransformRule \/ SkipRule \/ NextPredicate \/ Returns

MagicNext == Step \/ Fails

MagicSpec == MagicInit /\ [][MagicNext]_magicVars

\* The caller's thread runs on; nothing says that memory runs out.
FairMagicSpec == MagicSpec /\ WF_magicVars(Step)

-----------------------------------------------------------------------------
(* What a program derives *)

\* What a program derives is not stored as well, and only stored predicates are
\* negated.  The rewritten program reads no stored facts of a predicate with rules.
Separate ==
    \A call \in Inputs :
        LET heads == {call.rules[n].head.p : n \in DOMAIN call.rules}
        IN  /\ \A f \in call.facts : f[2] \notin heads
            /\ \A n \in DOMAIN call.rules : \A k \in DOMAIN call.rules[n].body :
                  call.rules[n].body[k].negated => call.rules[n].body[k].p \notin heads

\* Variables replaced by values.
Ground(a, b) ==
    LET Value(term) == IF term \in Var THEN b[term] ELSE term
    IN  <<Value(a.s), a.p, Value(a.o)>>

\* One round: the heads of the rules whose bodies hold.  Negated predicates are
\* stored ones.
Consequences(rules, known) ==
    LET Holds(rule, b) == \A k \in DOMAIN rule.body : (Ground(rule.body[k], b) \in known) = ~rule.body[k].negated
        Heads(rule) == {Ground(rule.head, b) : b \in {g \in [Var -> Values] : Holds(rule, g)}}
    IN  UNION {Heads(rules[n]) : n \in DOMAIN rules}

\* All that follows from the facts.
Model(rules, facts) ==
    LET round[n \in Nat] == IF n = 0 THEN facts
                            ELSE LET known == round[n - 1] IN known \union Consequences(rules, known)
    IN  UNION {round[n] : n \in Rounds}

Named(rules) ==
    [n \in DOMAIN rules |->
        [head |-> Subgoal(rules[n].head, Plain(rules[n].head.p)),
         body |-> [k \in DOMAIN rules[n].body |-> Subgoal(rules[n].body[k], Plain(rules[n].body[k].p))]]]

Stored == {<<f[1], Plain(f[2]), f[3]>> : f \in input.facts}

\* The fact with which a caller asks its goal.
Seed ==
    LET adornment == queue[1].adornment
        fact == make_magic_fact(input.goal.p, adornment, input.goal.s, input.goal.o)
    IN  IF adornment = "ff" THEN {} ELSE {<<fact.s, fact.p, fact.o>>}

-----------------------------------------------------------------------------
(* Properties *)

\* Under every adornment, the rewritten program derives exactly those facts of
\* the original one that its magic facts ask for; in particular all the answers
\* of the goal.  It asks for none it does not need through a rule.
Exact ==
    result = "program" =>
        LET original == Model(Named(input.rules), Stored)
            rewritten == Model(magic_prog, Stored \union Seed)
        IN  \A n \in DOMAIN queue :
                LET name == queue[n].name
                    adornment == queue[n].adornment
                    Asks(f) == \/ adornment = "ff"
                               \/ LET m == make_magic_fact(name, adornment, f[1], f[3])
                                  IN  <<m.s, m.p, m.o>> \in rewritten
                IN  is_idb_predicate(name) =>
                        {<<f[1], f[3]>> : f \in {g \in rewritten : g[2] = format_name("", name, adornment)}}
                            = {<<f[1], f[3]>> : f \in {g \in original : g[2] = Plain(name) /\ Asks(g)}}

\* The rewritten rules are safe, as datalog_rule_validate demands of rules.
Safe == \A n \in DOMAIN magic_prog : datalog_rule_validate(magic_prog[n])

\* The transformation ends, also when predicates use each other in a cycle.
Terminates == <>(result # "none")
=============================================================================
