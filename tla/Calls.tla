-------------------------------- MODULE Calls --------------------------------
(* One call from Lua of something bound with sol2: a function, an overload   *)
(* set, a member function or variable, constructors, initializers or         *)
(* factories, with or without protect and policies. The call resolves its    *)
(* candidates, checks and reads the arguments, runs the C++ function, which  *)
(* may throw, pushes the result and applies the policies; Lua may collect    *)
(* garbage between any two steps, and after the call for good.               *)
EXTENDS Arguments, FiniteSets

CONSTANTS Menu,     \* the calls to try, as records
          CallCorners   \* the legal but breaking cases that are let in

VARIABLES
    call,      \* the call: how, into, sigs, policies, gives, args
    pc,
    stack,     \* the stack of the call, values [kind, from]: from is the number of
               \* the argument, 0 for the object the call makes, -1 otherwise
    cand,      \* the candidate that is looked at, then the one that runs
    got,       \* what the parameters were given
    made,      \* the object the call makes: its memory, its metatable, its life
    pinned,    \* a registry reference holds the made object
    uses,      \* the user values: who keeps whom alive
    dead,      \* the objects Lua collected
    threw,     \* the C++ function, or a copy of its result, threw
    outcome

callVars == <<call, pc, stack, cand, got, made, pinned, uses, dead, threw, outcome>>

Constructing(c) == c.how \in {"constructors", "plain", "initializers"}
Resolves(c) == c.how \in {"overload", "factories"} \/ Constructing(c)

\* into is where the program binds it: a usertype, or a table of its own, with
\* set_function or with set. "function" is a plain pointer; set takes lambdas and
\* other functors as set_function does.
\* Stack indices are positive, -1 is the top; who returns self has one.
Policies == [self : BOOLEAN, target : {-1} \cup (Nat \ {0}), deps : SUBSET (Nat \ {0})]

ASSUME MenuAssumption ==
    \A c \in Menu :
        /\ c.how \in {"function", "protect", "method", "setter", "overload", "factories",
                       "constructors", "plain", "initializers"}
        /\ c.into \in {"usertype", "set_function", "set"}
        /\ c.into = "set_function" => c.how = "function" /\ c.policies = << >>
        /\ c.how = "constructors" => c.into = "usertype"
        /\ c.how = "plain" => c.into = "set"
        /\ c.sigs \in Seq(Seq(Parameters)) /\ c.args \in Seq(ArgumentKinds)
        /\ c.policies \in Seq(Policies)
        /\ c.sigs # << >> /\ (~Resolves(c) => Len(c.sigs) = 1)
        /\ c.gives \in (IF Constructing(c) THEN {"nothing"} ELSE {"nothing", "value", "reference", "object"})
        /\ \A i \in DOMAIN c.policies :
              c.policies[i].self => c.policies[i].target = -1 /\ c.args # << >>

-----------------------------------------------------------------------------
(* Where the arguments of each kind of call start.                           *)
\* With T:new() the class comes first. A class that was never registered has
\* nil for its table, and nil equals a nil argument.
Syntax(c) ==
    IF c.args # << >> /\ c.args[1] \in (IF c.how = "plain" THEN {"class", "nil"} ELSE {"class"}) THEN 1 ELSE 0

MatchStart(c) ==
    CASE c.how = "overload" -> 1
      [] c.how = "factories" -> 2
      [] c.how \in {"plain", "initializers"} -> 1 + Syntax(c)
      [] c.how = "constructors" -> 2 + Syntax(c)

CallStart(c) ==
    CASE c.how \in {"function", "protect"} -> 1
      [] c.how = "method" -> 2
      [] c.how = "setter" -> 3
      [] c.how = "initializers" -> MatchStart(c) + 1
      [] OTHER -> MatchStart(c)

ArgCount(c) ==
    CASE c.how = "overload" -> Len(c.args)
      [] c.how = "factories" -> Len(c.args) - 1
      [] Constructing(c) -> Len(c.args) - Syntax(c)

\* Policies keep the stack of the call, but an overload set does not pass that on.
CleanStack(c) == c.policies = << >> \/ c.how = "overload"

\* The build checks the arguments of every call (SOL_SAFE_FUNCTION_CALLS), as
\* protect always asks; but none are checked where exceptions propagate.
Checked == "propagate_exceptions" \notin CallCorners

-----------------------------------------------------------------------------
(* The independent account of a call: the arguments that belong to each      *)
(* parameter, and whether a candidate accepts them.                          *)
Skipped(c) ==
    CASE c.how \in {"function", "protect", "overload"} -> 0
      [] c.how \in {"method", "factories"} -> 1
      [] c.how = "setter" -> 2
      [] OTHER -> IF c.args # << >> /\ c.args[1] = "class" THEN 1 ELSE 0

ArgAt(c, i) == IF i \in DOMAIN c.args THEN c.args[i] ELSE "none"
Before(c, sig, p) == Skipped(c) + ArityOfFirst(sig, p - 1)

\* The arguments, by number, that parameter p stands for.
Own(c, sig, p) ==
    LET n == Before(c, sig, p)
        w == IF sig[p].name = "variadic_args" THEN Len(c.args) - n ELSE Width(sig[p])
    IN  [j \in 1 .. w |-> IF n + j \in DOMAIN c.args THEN n + j ELSE -1]

\* What a parameter promises to take: a pair takes one of each.
Promises(name) == (IF name = "stream" THEN {"file"} ELSE Accepts(name)) \ {"bare"}
Takes(p, kinds) ==
    CASE p.name = "pair" -> kinds[1] \in Promises(p.of[1]) /\ kinds[2] \in Promises(p.of[2])
      [] p.name = "variant" -> kinds[1] \in Promises(p.of[1]) \cup Promises(p.of[2])
      [] p.name = "optional" -> kinds[1] \in Promises(p.of[1]) \cup {"nil", "none"}
      [] p.name \in Transparent -> TRUE
      [] OTHER -> kinds[1] \in Promises(p.name)

Suits(c, sig, p) ==
    LET own == Own(c, sig, p)
    IN  Takes(sig[p], [j \in DOMAIN own |-> ArgAt(c, Before(c, sig, p) + j)])

Fits(c, sig) ==
    /\ Resolves(c) => RuntimeVariadics(sig) \/ FreeArity(sig) = Len(c.args) - Skipped(c)
    /\ \A p \in DOMAIN sig : Suits(c, sig, p)

-----------------------------------------------------------------------------
(* The corners a call needs.                                                 *)
CornersOf(c) ==
    LET Some(P(_, _)) == \E i \in DOMAIN c.sigs : \E p \in DOMAIN c.sigs[i] : P(c.sigs[i], p)
        Stream(sig, p) == sig[p].name = "stream"
        LatePair(sig, p) == sig[p].name = "pair" /\ ArityOfFirst(sig, p - 1) > 0
        OptionalReference(sig, p) == sig[p].name = "optional" /\ sig[p].of[1] \in References /\ p < Len(sig)
        BadOptional(sig, p) == sig[p].name = "optional" /\ Len(c.sigs) = 1 /\ ~Suits(c, sig, p)
    IN  UNION {IF Some(Stream) THEN {"stream_parameter"} ELSE {},
               IF Some(LatePair) THEN {"late_pair"} ELSE {},
               IF Some(OptionalReference) THEN {"optional_reference"} ELSE {},
               IF Some(BadOptional) THEN {"bad_optional"} ELSE {},
               IF \E i \in DOMAIN c.args : c.args[i] = "bare" THEN {"bare_userdata"} ELSE {},
               IF c.how = "plain" THEN {"plain_constructors"} ELSE {},
               IF c.how = "initializers" /\ Len(c.sigs) = 1 /\ ~Fits(c, c.sigs[1]) THEN {"initializer_fails"} ELSE {},
               IF c.how = "overload" /\ c.policies # << >> THEN {"policy_over_overload"} ELSE {},
               IF c.how = "constructors" /\ c.policies # << >> THEN {"policy_over_constructors"} ELSE {},
               IF Len(c.policies) > 1 THEN {"two_policies"} ELSE {}}

-----------------------------------------------------------------------------
Entry(kind, from) == [kind |-> kind, from |-> from]
Unmade == [memory |-> "none", tabled |-> FALSE, destroyed |-> 0]

CallsInit ==
    /\ call \in {c \in Menu : CornersOf(c) \subseteq CallCorners}
    /\ pc = "start"
    /\ stack = [i \in DOMAIN call.args |-> Entry(call.args[i], i)]
    /\ cand = 1
    /\ got = << >>
    /\ made = Unmade
    /\ pinned = FALSE
    /\ uses = [o \in 0 .. Len(call.args) |-> {}]
    /\ dead = {}
    /\ threw = FALSE
    /\ outcome = "none"

Top == IF stack = << >> THEN Entry("none", -1) ELSE Last(stack)

\* Lua unwinds the call. What lua_error jumps over is not destroyed where Lua
\* is compiled as C: the reference to the new userdata stays in the registry.
Ended(how, thrown) ==
    /\ pc' = "ended"
    /\ outcome' = how
    /\ stack' = IF how = "returned" THEN <<Top>> ELSE << >>
    /\ pinned' = (how = "error" /\ pinned /\ ~thrown /\ "longjmp" \in CallCorners)

Fail == Ended("error", FALSE) /\ UNCHANGED <<call, cand, got, made, uses, dead, threw>>

\* Mutant: every new userdata has its metatable before it is constructed.
AllocatedTabled(tabled) ==
    /\ made' = [memory |-> "raw", tabled |-> TRUE, destroyed |-> 0]
    /\ stack' = <<Entry("T", 0)>> \o stack
    /\ pinned' = TRUE

\* A new userdata goes below the arguments; the constructor's caller holds a
\* reference to it.
Allocated(tabled) ==
    /\ made' = [memory |-> "raw", tabled |-> tabled, destroyed |-> 0]
    /\ stack' = <<Entry(IF tabled THEN "T" ELSE "bare", 0)>> \o stack
    /\ pinned' = TRUE

\* A member's self is checked and must not be nil.
StartMember ==
    /\ pc = "start"
    /\ call.how \in {"method", "setter"}
    /\ IF KindAt(stack, 1) \in Accepts("class*") \ {"nil"}
       THEN /\ pc' = "check"
            /\ UNCHANGED <<call, stack, cand, got, made, pinned, uses, dead, threw, outcome>>
       ELSE Fail

\* The memory of the object is there before a constructor is chosen.
StartConstructing ==
    /\ pc = "start"
    /\ call.how \in {"constructors", "plain"}
    /\ pc' = "match"
    /\ Allocated(FALSE)
    /\ UNCHANGED <<call, cand, got, uses, dead, threw, outcome>>

StartFunction ==
    /\ pc = "start"
    /\ call.how \in {"function", "protect", "overload", "factories", "initializers"}
    /\ pc' = IF Resolves(call) THEN "match" ELSE "check"
    /\ UNCHANGED <<call, stack, cand, got, made, pinned, uses, dead, threw, outcome>>

\* Mutant: a sole candidate is taken whatever the number of arguments.
RefusedUncounted(sig, n, sole, walk) == ~walk.ok /\ ~sole

\* A candidate is passed over for the number of the arguments, unless it has
\* optional parameters, or for their types, unless it is the only one.
Refused(sig, n, sole, walk) ==
    \/ ~RuntimeVariadics(sig) /\ FreeArity(sig) # n
    \/ ~sole /\ ~walk.ok

RightCount(sig) == RuntimeVariadics(sig) \/ FreeArity(sig) = ArgCount(call)

Match ==
    /\ pc = "match"
    /\ cand \in DOMAIN call.sigs
    /\ LET sig == call.sigs[cand]
           sole == Len(call.sigs) = 1
           walk == IF ~sole /\ RightCount(sig) THEN CheckTypes(sig, stack, MatchStart(call)) ELSE Walk
       IN  IF Refused(sig, ArgCount(call), sole, walk)
           THEN /\ cand' = cand + 1
                /\ stack' = stack \o walk.left
                /\ UNCHANGED <<pc, made, pinned>>
           ELSE /\ pc' = "check"
                /\ cand' = cand
                /\ IF call.how = "initializers" THEN Allocated(TRUE)
                   ELSE stack' = stack \o walk.left /\ UNCHANGED <<made, pinned>>
    /\ UNCHANGED <<call, got, uses, dead, threw, outcome>>

NoMatch == pc = "match" /\ cand \notin DOMAIN call.sigs /\ Fail

\* A failed check raises an error through the handler of the call; its result
\* is not looked at, and an optional's check has another handler.
Raises(walk) == ~walk.ok /\ ~walk.silent

Check ==
    /\ pc = "check"
    /\ LET walk == IF Checked THEN CheckTypes(call.sigs[cand], stack, CallStart(call)) ELSE Walk
       IN  IF Raises(walk) THEN Fail
           ELSE /\ pc' = "run"
                /\ stack' = stack \o walk.left
                /\ got' = GetTypes(call.sigs[cand], stack', CallStart(call))
                /\ UNCHANGED <<call, cand, made, pinned, uses, dead, threw, outcome>>

\* Trampolines turn exceptions into errors. A usertype calls its members through
\* one; in a table of its own a plain function pointer, protect, initializers and
\* whatever has policies are called without.
Caught(c) ==
    \/ c.into # "set"
    \/ c.how \notin {"function", "protect", "initializers"} /\ c.policies = << >>
Thrown ==
    /\ threw' = TRUE
    /\ Ended(IF Caught(call) THEN "error" ELSE "escaped", TRUE)
    /\ UNCHANGED <<call, cand, got, made, uses, dead>>

Throw ==
    /\ pc = "run"
    /\ Caught(call) \/ "untrampolined_throws" \in CallCorners
    /\ call.how = "initializers" => "initializer_fails" \in CallCorners
    /\ Thrown

Run ==
    /\ pc = "run"
    /\ pc' = "push"
    /\ made' = IF Constructing(call) THEN [made EXCEPT !.memory = "built"] ELSE made
    /\ UNCHANGED <<call, stack, cand, got, pinned, uses, dead, threw, outcome>>

Cleaned == IF CleanStack(call) THEN << >> ELSE stack

\* Mutant: the metatable goes to what is on top after a clean call too: nothing.
TabledTop == Top.from = 0 /\ ~CleanStack(call)

\* The constructed object gets its metatable only now. The caller pushes the
\* object for that if the stack was cleaned; otherwise the metatable goes to
\* whatever is on top of the stack.
Tabled == CleanStack(call) \/ Top.from = 0

PushConstructed ==
    /\ pc = "push"
    /\ Constructing(call)
    /\ made' = [made EXCEPT !.tabled = @ \/ Tabled]
    /\ stack' = Append(Cleaned, Entry(IF made'.tabled THEN "T" ELSE "bare", 0))
    /\ pinned' = FALSE
    /\ pc' = "policies"
    /\ UNCHANGED <<call, cand, got, uses, dead, threw, outcome>>

\* An object returned by value is pushed as a userdata of its own, which has its
\* metatable before the value is copied into it.
PushObject ==
    /\ pc = "push"
    /\ ~Constructing(call)
    /\ call.gives = "object"
    /\ made' = [memory |-> "raw", tabled |-> TRUE, destroyed |-> 0]
    /\ stack' = Append(Cleaned, Entry("T", 0))
    /\ pc' = "copy"
    /\ UNCHANGED <<call, cand, got, pinned, uses, dead, threw, outcome>>

\* A reference is pushed as a userdata that holds a pointer.
PushResult ==
    /\ pc = "push"
    /\ ~Constructing(call)
    /\ call.gives # "object"
    /\ stack' = (CASE call.gives = "reference" -> Append(Cleaned, Entry("T", 0))
                   [] call.gives = "value" -> Append(Cleaned, Entry("int", -1))
                   [] call.gives = "nothing" -> Cleaned)
    /\ pc' = "policies"
    /\ UNCHANGED <<call, cand, got, made, pinned, uses, dead, threw, outcome>>

CopyThrows ==
    IF "copy_throws" \in CallCorners /\ (Caught(call) \/ "untrampolined_throws" \in CallCorners)
    THEN BOOLEAN ELSE {FALSE}
Copy ==
    /\ pc = "copy"
    /\ \E fails \in CopyThrows :
          IF fails THEN Thrown
          ELSE /\ made' = [made EXCEPT !.memory = "built"]
               /\ pc' = "policies"
               /\ UNCHANGED <<call, stack, cand, got, pinned, uses, dead, threw, outcome>>

-----------------------------------------------------------------------------
(* Policies. [self, target, deps]: returns_self(_with), or dependencies of   *)
(* what is at the target index on the values at other indices.               *)
IsUserdata(e) == e.kind \in UserdataKinds

\* Mutant: only the first of the values is kept.
KeptOne(s, deps) == {FromAt(s, CHOOSE i \in deps : \A j \in deps : i <= j)} \ {-1}
\* What the fresh table of dependencies keeps alive.
Kept(s, deps) == {FromAt(s, i) : i \in deps} \ {-1}

\* The table replaces the user value that was there.
HandlePolicy(s, u, p) ==
    LET t == IF p.self THEN Append(s, IF s = << >> THEN Entry("none", -1) ELSE s[1]) ELSE s
        i == IF p.target = -1 THEN Len(t) ELSE p.target
    IN  IF p.deps # {} /\ i \in DOMAIN t /\ IsUserdata(t[i]) /\ t[i].from >= 0
        THEN [stack |-> t, uses |-> [u EXCEPT ![t[i].from] = Kept(t, p.deps)]]
        ELSE [stack |-> t, uses |-> u]

ApplyPolicies ==
    /\ pc = "policies"
    /\ LET done[n \in 0 .. Len(call.policies)] ==
              IF n = 0 THEN [stack |-> stack, uses |-> uses]
              ELSE HandlePolicy(done[n - 1].stack, done[n - 1].uses, call.policies[n])
       IN  /\ stack' = done[Len(call.policies)].stack
           /\ uses' = done[Len(call.policies)].uses
    /\ pc' = "return"
    /\ UNCHANGED <<call, cand, got, made, pinned, dead, threw, outcome>>

\* Only what is on top is returned, if anything was pushed.
Return ==
    /\ pc = "return"
    /\ IF call.gives = "nothing" /\ ~Constructing(call) /\ ~\E i \in DOMAIN call.policies : call.policies[i].self
       THEN /\ pc' = "ended"
            /\ outcome' = "returned"
            /\ stack' = << >>
            /\ UNCHANGED pinned
       ELSE Ended("returned", FALSE)
    /\ UNCHANGED <<call, cand, got, made, uses, dead, threw>>

-----------------------------------------------------------------------------
(* Lua's side: garbage, and the end of the script's interest in the result.  *)
Reached ==
    LET roots == {stack[i].from : i \in DOMAIN stack} \cup (IF pinned THEN {0} ELSE {})
        Grow(S) == S \cup UNION {uses[o] : o \in S \ {-1}}
    IN  Grow(Grow(Grow(roots)))

Objects == {i \in DOMAIN call.args : call.args[i] \in UserdataKinds}
           \cup (IF made.memory # "none" THEN {0} ELSE {})

\* Collecting the made object runs the destructor its metatable names.
Collect(o) ==
    /\ pc # "gone"
    /\ o \in (Objects \ Reached) \ dead
    /\ dead' = dead \cup {o}
    /\ made' = IF o = 0 /\ made.tabled THEN [made EXCEPT !.destroyed = @ + 1] ELSE made
    /\ UNCHANGED <<call, pc, stack, cand, got, pinned, uses, threw, outcome>>

Drop ==
    /\ pc = "ended"
    /\ stack # << >>
    /\ stack' = << >>
    /\ UNCHANGED <<call, pc, cand, got, made, pinned, uses, dead, threw, outcome>>

\* Nothing is left to collect.
Finish ==
    /\ pc = "ended"
    /\ stack = << >>
    /\ Objects \ Reached \subseteq dead
    /\ pc' = "gone"
    /\ UNCHANGED <<call, stack, cand, got, made, pinned, uses, dead, threw, outcome>>

CallsNext ==
    \/ StartMember \/ StartConstructing \/ StartFunction
    \/ Match \/ NoMatch \/ Check \/ Throw \/ Run
    \/ PushConstructed \/ PushObject \/ PushResult \/ Copy \/ ApplyPolicies \/ Return
    \/ \E o \in 0 .. Len(call.args) : Collect(o)
    \/ Drop \/ Finish

CallsSpec == CallsInit /\ [][CallsNext]_callVars

-----------------------------------------------------------------------------
(* Properties.                                                               *)

\* Overload resolution, the arity test and the checks of the call together are
\* first come, first serve: the candidate that runs accepts the arguments and no
\* earlier one does, and a call is refused only if none does, or if its self is
\* not an object.
FirstMatchRuns ==
    /\ pc = "run" => /\ Fits(call, call.sigs[cand])
                     /\ \A j \in 1 .. cand - 1 : ~Fits(call, call.sigs[j])
    /\ outcome = "error" /\ ~threw =>
          \/ \A j \in DOMAIN call.sigs : ~Fits(call, call.sigs[j])
          \/ call.how \in {"method", "setter"} /\ ArgAt(call, 1) \notin ClassKinds

\* The checker and the getters of each parameter agree, each with its own record
\* of the slots used, on which arguments are its own, whatever the parameters
\* before it found; none of them is collected before the function returns.
ArgumentsInPlace ==
    pc = "run" =>
        /\ got = [p \in DOMAIN call.sigs[cand] |-> Own(call, call.sigs[cand], p)]
        /\ \A p \in DOMAIN got : \A j \in DOMAIN got[p] : got[p][j] \notin dead

\* The argument a policy's index means: a new userdata comes before the first.
Meant(c, i) == IF Constructing(c) THEN i - 1 ELSE i

\* A call ends in an error or returns what it promises: a constructed object is
\* whole, with its metatable, returns_self returns the first argument itself,
\* and an exception never leaves through Lua's frames.
AnswersAsPromised ==
    /\ outcome # "escaped"
    /\ outcome = "returned" /\ stack # << >> =>
          IF \E i \in DOMAIN call.policies : call.policies[i].self THEN Top.from = Meant(call, 1)
          ELSE IF Constructing(call) \/ call.gives = "object"
               THEN Top = Entry("T", 0) /\ made.memory = "built" /\ made.tabled
          ELSE Top = IF call.gives = "reference" THEN Entry("T", 0) ELSE Entry("int", -1)

\* Whatever fails half way, memory that was never constructed is not destroyed,
\* no object is destroyed twice, a built object that Lua collected has been
\* destroyed, and nothing stays in the registry after the call.
ObjectsSound ==
    /\ made.destroyed > 0 => made.memory = "built" /\ made.destroyed = 1
    /\ 0 \in dead /\ made.memory = "built" => made.destroyed = 1
    /\ pc \in {"ended", "gone"} => ~pinned

\* What a policy says to keep lives as long as what should keep it: the result
\* of the call, or the value at the target index.
DependenciesKept ==
    outcome = "returned" =>
        \A n \in DOMAIN call.policies :
            LET p == call.policies[n]
                keeper == IF p.target = -1 THEN Top.from ELSE Meant(call, p.target)
            IN  (p.target = -1 => IsUserdata(Top)) /\ keeper \in Reached =>
                    {Meant(call, i) : i \in p.deps} \cap dead = {}
=============================================================================
