# sol3 in TLA+

A verification development for sol3 (the EASTL fork), the header-only C++/Lua
binding of `include/sol`. It models the parts of the library that keep state
across calls, checks them with TLC on small instances and proves the central
safety properties of nine of them with TLAPS for every value of the constants.

Unless they begin with a directory, the names of source files below are in
`src/include/sol`.

## 1. The system

sol3 is a set of C++ templates over the Lua C API. It has no thread, queue or
scheduler of its own. What makes it hard is that the same fact is kept in several
places, on both sides of the language border, and that three parties change
those places in any order: the C++ program (constructors, assignments,
destructors, calls), Lua scripts (lookups, assignments, loops, calls into C++)
and Lua's collector (which runs `__gc` functions whenever it pleases).

The state is in four places:

* the **registry**: slots that references own, and names of metatables;
* the **Lua stacks**: results, iterators and stack references are *indices* into
  them, kept valid by the order in which C++ objects are created and destroyed;
* **userdata and metatables**: memory blocks whose inner layout is recomputed
  on each access, and tables of closures that point at C++ objects;
* the **C++ objects** that hold registry slots, stack indices or raw pointers.

### Inventory

| component (files) | state it keeps | operations | what is hard | what makes it correct | module |
|---|---|---|---|---|---|
| references (`reference.hpp`, `make_reference.hpp`, `object*.hpp`) | `luastate`, `ref`; registry slots | construct, copy, move, assign across threads and states, reset, destroy | aliasing, release before read, adoption of a thread that is collected | each slot has one owner; handles behave as values | `Handles`, `Reference` |
| userdata memory (`stack_core.hpp`) | one block per userdata | allocate, place, find, destroy | padding computed twice, by different functions, for any base address | sections fit, are disjoint and aligned, are found again | `UserdataLayout` |
| calls and results (`protected_function*.hpp`, `unsafe_function*.hpp`, `protected_handler.hpp`, `function_result.hpp`, `load_result.hpp`, script functions of `state_view.hpp`) | stack, handler slot; `index`, `returncount`, `popcount`, `err` of each result | call, return, error, script, load, move, convert, destroy, push | indices over a moving stack, counts taken before the outcome is known | each result reads what its call returned; nothing is left or taken too much | `LuaStack`, `FunctionCall` |
| coroutines and threads (`coroutine.hpp`, `thread.hpp`) | cached `stats`, the Lua thread, results on it | construct, copy, move, resume, yield, return, fail, `status` | the status is cached per object, a resume changes what indices mean | the cached status is the truth; results stay readable | `Coroutine` |
| usertypes (`usertype_storage.hpp`, `usertype.hpp`, `usertype_core.hpp`, `metatable.hpp`) | a storage, five metatables per class, the named table, registry names | register, bind, bind again, look up, assign, unregister, collect | the same binding in a map and in five tables; names shared by successive registrations; collector order | every object sees the last binding; no closure points at a freed one | `UsertypeStorage` |
| containers (`usertype_container*.hpp`) | the C++ container, iterators in Lua | get, set, add, insert, erase, find, index_of, clear, pairs, next | five code paths for one contract; iterators across changes | same effect for every sort of container; loops visit each element once | `ContainerContract`, `Container` |
| tables and proxies (`table_core.hpp`, `table_proxy.hpp`, `stack_field.hpp`, `stack_probe.hpp`) | none: a table handle and keys | get, set, traverse, create, override, probe, clear | every level of a path is pushed, and popped by a count kept apart from it | reads agree, writes land where the path leads, the stack is as before | `TableAccess` |
| iteration over tables (`pairs_iterator.hpp`, `table_iterator.hpp`, `for_each`) | key and table at absolute stack indices | begin, `++`, end, move, destroy | nesting, copies, failing `next`, leftovers of `__pairs` | the stack is as before; each pair once; every loop ends | `TableIteration` |
| strings (`unicode.hpp`, the string parts of `stack_push.hpp` and `stack_get_unqualified.hpp`) | none | decode and encode UTF-8, -16, -32; count, write, read | ill-formed input, cut-off sequences, two passes over one text | nothing is written past what was counted; the text says the same | `Unicode`, `Text` |
| values (`stack_push.hpp`, `stack_get_*.hpp`, `stack_check_*.hpp`, `inheritance.hpp`) | none beyond the values | push, check, get, check and get, pop | integer widths, nested types, a check and a reading that choose apart, base classes | round trips; every question gets the answer the value has | `Values` |
| calls from Lua into C++ (`call.hpp`, `stack.hpp`, `argument_handler.hpp`, `policies.hpp`, `protect.hpp`, `raii.hpp`) | the userdata being made, its registry slot | match, check, read, run, push, policies; errors and collections between | records of used slots; half-made objects; stack indices of policies | the first overload that fits runs on its own arguments; objects are destroyed once | `Arguments`, `Calls` |
| optional (`optional_implementation.hpp`) | flag and storage, or a pointer | construct, assign, swap, take, map, and_then, or_else, compare | the flag and the object's lifetime are changed apart; copies that throw | the flag tells whether an object lives; each is destroyed once | `Maybe`, `Optional` |
| ownership of userdata (`userdata.hpp`, `unique_usertype_traits.hpp`) | which object is destroyed, and when | push by value, pointer, smart pointer; collect | half-made objects, addresses found again | destroyed exactly once | parts: `Calls`, `UserdataLayout`, `Values` |
| trampolines, exceptions (`trampoline.hpp`, `protect.hpp`) | none | catch, call the handler, raise | frames unwound by another language's mechanism | an exception becomes an error | parts: `Calls` |
| environments, stack references and variadic arguments, loading and panics | none, or an index | - | - | - | not modelled |
| packaged coroutines | - | - | - | - | the file is `#if 0` |
| configuration, compatibility, traits, tests, examples, scripts | none at run time | - | - | - | not modelled |

How they interact: everything that outlives a call is a *reference*; a
*function* or *coroutine* is a reference with an error handler, and the result of
its call is an index on the stack of the reference's thread (`Coroutine` uses
the assignment rule of `Reference` and the stack operations of `LuaStack`).
*Usertypes* and *containers* live in userdata blocks of `UserdataLayout`; their
methods are reached through the metatables of `UsertypeStorage`. A container's
iterator keeps its container alive by a registry slot, made like a reference.
A *loop* over a table keeps its key on the stack its body works on, so
`TableIteration` extends `TableAccess`: the body's reads and writes are those
operations. A *call* from Lua reads its arguments as `Arguments` describes; what a
single value becomes on the way is `Values`, for strings `Text`. An *optional*
is what every checked reading returns.

Hazards at each line, with the properties that answer them, are in
`PROJECT.json`; the three no property answers say why.

## 2. How the modules are written

One action is one operation of the code with everything it does. The programs
that call the library are part of the models (C++ objects are made, moved and
destroyed in every order that C++ allows), restricted only where the
documentation restricts them; each restriction is named with its guard.

**Corners.** Some operations are legal C++ and change state in a way that
breaks a property. A run that mixed them with the others would show that one
thing over and over. Each is therefore a string of the constant `Corners`
(`ValueCorners` in `Values`, `CallCorners` in `Calls`): the guard of the operation admits the case only when
the string is in the set, and the code of the case is fully modelled. Passing
runs and theorems have the empty set, which is the statement "a program that
never does this ...". To see a case, add its string to the configuration:
the property named below then fails.

| corner | module | with it |
|---|---|---|
| `self_copy` | Reference | `h = h` releases its slot and then reads it: `IsHandles` |
| `empty_of_coroutine` | Reference | a `main_reference` assigned an empty reference that lives on a coroutine adopts the coroutine: `MainHandlesOnMain` |
| `assign_over_held` | FunctionCall | `result = f()` forgets what `result` held: `NothingLost` |
| `convert_failed_load` | FunctionCall | an unsafe result made of a chunk that failed to compile never pops the message: `NothingLost` |
| `status_left_behind` | Coroutine | a move keeps the destination's `stats`, so an object whose coroutine ended refuses the next one: `StatusAgrees` |
| `own_below` | Coroutine | values below a coroutine that starts are counted as its results: `ResultsRead` |
| `result_kept` | Coroutine | a result kept across the next call of its coroutine reads that call's values: `ResultsRead` |
| `push_after_error` | Coroutine | what is pushed on a failed thread goes with the result: `StackShared` (with `MaxStack = 3`) |
| `handler_elsewhere` | Coroutine | a call fails while the handler's reference is on another thread than the coroutine: what lies on top there is called instead, and the handler stays: `StackShared` |
| `collect_after_register` | UsertypeStorage | the `__gc` of an old storage clears the names of the new one: `NamesLeadToClass` |
| `set_while_unregistered` | UsertypeStorage | a field set meanwhile hides the next registration's: `LookupsAgree` |
| `object_sets_other` | UsertypeStorage | `obj[k] = v` for a key that is not a string changes one copy of two: `LookupsAgree` |
| `nil_by_index` | Container | `c[#c] = nil` erases under index 1 only: `WritesAsPromised` |
| `below_start` | Container | writes below a list's first index hit its first element: `WritesAsPromised` |
| `map_insert` | Container | `insert` on a map uses the value as key and value: `WritesAsPromised` |
| `empty_forward_list` | Container | `c[1] = v` on an empty `forward_list`, documented to insert at the end, inserts after `end()`, which is undefined: `WritesAsPromised` |
| `array_in_coroutine` | Container | an array's loop made in a coroutine pins a value of the main thread: `LoopsAgree` |
| `pushed_key_below` | TableAccess | `valid` and `get_type` of a proxy look a later key that is no string up one slot too high: `ReadsAgree` |
| `stack_table_proxy` | TableAccess | `valid` and `push` of a proxy of a stack table look elsewhere: `ReadsAgree` |
| `global_pushed_key` | TableAccess | a proxy of the globals whose first key is no string indexes whatever is on top: `ReadsAgree` |
| `create_unstored` | TableAccess | a plain read with `create_if_nil` makes tables and does not store them: `CreatesAllTheWay` |
| `create_over_value` | TableAccess | an optional read with `create_if_nil` replaces a value that is no table: `CreatesAllTheWay` |
| `metatable_without_pairs` | TableIteration | the metatable stays below the loop: `StackAccounted` |
| `no_base_library` | TableIteration | without a global `next` two values stay: `StackAccounted` |
| `pairs_two_results` | TableIteration | a `__pairs` that returns no first key: slots of three values are removed all the same: `StackAccounted` |
| `next_fails` | TableIteration | a `next` that fails ends the loop without a word: `VisitsEachOnce` |
| `value_above_key` | TableIteration | a value the body leaves above the key is taken for the key: `StackAccounted` |
| `move_assign_over`, `postfix_increment`, `ends_out_of_order` | TableIteration | two objects pop the same slots, or each other's: `StackAccounted` |
| `callback_throws` | TableIteration | an exception leaves `for_each` with its table on the stack: `StackAccounted` |
| `ill_formed_utf32`, `trailing_surrogate` | Text | what is pushed is not what the text says: `Transcoded` |
| `ill_formed_long` | Text | the counting pass and the writing pass differ for ill-formed text: `WithinRoom` |
| `no_terminator` | Text | a decoder reads past a view whose end is not zero: `Transcoded` |
| `swap_one_empty` | Optional | the value changes places, the flags do not: run `optional_swap` |
| `convert_assign_engaged` | Optional | a converting assignment constructs over the value it has just assigned: `EachDestroyedOnce` |
| `convert_move_empty` | Optional | moving from an empty optional of another type constructs from storage in which nothing lives: `FlagsTellLifetimes` |
| `ref_convert_empty` | Optional | an optional reference made of an empty optional of another type holds the address of `*rhs`, where nothing lives: `KeepsPromise` |
| `ref_convert_assign_empty` | Optional | an optional reference assigned an empty optional of another type throws instead of being reset: run `optional_ref_assign` |
| `stream_parameter` | Calls | the checker of `FILE*` leaves or takes a slot and refuses files: `FirstMatchRuns` |
| `late_pair` | Calls | a pair that is not the first parameter is checked at its index twice over: `FirstMatchRuns` |
| `optional_reference` | Calls | an optional of a table or function counts a slot when it is absent: `ArgumentsInPlace` |
| `bad_optional` | Calls | an optional of the wrong type fails silently and the function runs: `FirstMatchRuns` |
| `bare_userdata` | Calls | a userdata without metatable passes for every class: `FirstMatchRuns` |
| `plain_constructors` | Calls | constructors set as a plain function read their arguments from below: `FirstMatchRuns` |
| `initializer_fails`, `copy_throws` | Calls | a userdata that has its `__gc` and no object in it: `ObjectsSound` |
| `policy_over_overload`, `policy_over_constructors` | Calls | policies refer to slots that were cleaned away, or that are not the object: `AnswersAsPromised` |
| `two_policies` | Calls | the second policy replaces the first one's table: `DependenciesKept` |
| `propagate_exceptions` | Calls | where exceptions propagate nothing is checked: `FirstMatchRuns` |
| `longjmp` | Calls | with Lua compiled as C an error jumps over the new userdata's reference: `ObjectsSound` |
| `untrampolined_throws` | Calls | an exception leaves through Lua's frames, contrary to `exceptions.rst:48`, where a function is bound without a trampoline: `protect`, policies, function pointers, plain initializers: `AnswersAsPromised` |
| `unfit` | Values | an unsigned number that `lua_Integer` does not hold is not read back: `RoundTrips` |
| `fraction` | Values | a number with a fraction passes for an integer: `AnswersFit` |
| `loose_elements` | Values | a container's elements, an optional's value are not checked: `AnswersFit` |
| `overlap` | Values | the alternatives of a variant are tried from either end: `RoundTrips` |
| `holes` | Values | an empty optional ends the container it is an element of: `RoundTrips` |
| `several_values` | Values | elements of several values pop slots that were never pushed: `LeftAlone` |
| `short_table` | Values | an array keeps what it was made of where the table ends early: `AnswersFit` |
| `exhaustive_scalar` | Values | the exhaustive check indexes whatever it is given: `AnswersFit` |
| `exhaustive_before`, `variant_record` | Values | records count elements, or every alternative tried: `LeftAlone` |
| `shared_base`, `shared_over_value`, `handle_of_another` | Values | a smart pointer is read as it lies there, adjusted to no base and whatever holds it: `AnswersFit` |
| `empty_smart_pointer` | Values | an empty smart pointer is pushed as nil, which its check refuses: `RoundTrips` |
| `unchecked` | Values | a reading without its check: `AnswersFit` |

`UserdataLayout` has no corners but a constant: with `AlignMemory = FALSE`
(`SOL_NO_MEMORY_ALIGNMENT`) the deleter of a unique usertype is looked for one pointer
too far, and `SectionsFound` fails.

**Mutants.** An operator headed "Mutant" is the definition before or after it
with a plausible mistake. Nothing uses it; it documents which mistake in the
code which property would notice (`PROJECT.json`, `mutants`).

**Deadlock** is checked except where the system may really stop: a container
that a script let go and Lua collected, a program that an exception ended
(`Optional`), a call that is over and whose garbage is collected (`Calls`).

## 3. The modules

### Reference and Handles

`Reference` is `basic_reference<main_only>`: `lstate[h]` is `luastate`, `ref[h]`
is `stateless_reference::ref`, `registry[g]` the slots of a Lua state, `alive` the
threads that the collector has not taken. Registry slots follow `luaL_ref` and
`luaL_unref`: a released slot yields the free-list link (`Junk`) when read.

| action | code |
|---|---|
| `FromStack`, `Pinned` | `basic_reference(L, index)`, `(L, lua_nil)` |
| `CopyTo`, `MoveTo` | the constructors that name a thread; `lua_xmove` between threads of one state |
| `CopyConstruct`, `MoveConstruct` | copy and move, from either class; a main handle picks the main thread |
| `CopyAssign`, `MoveAssign` | `copy_assign_complex`, `move_assign`, branch for branch, in the order release, read, store |
| `Reset` | `reset`, `= lua_nil`, `~basic_reference` |
| `Collect` | Lua takes a coroutine to which no slot refers |

`Handles` is the promise: handles are values, an assignment changes its target
(and may empty a moved-from source) and nothing else. `Reference` implements it
under `val[h] = Value(h)`, checked as the property `IsHandles`.
Preconditions: a handle whose thread has been collected is not touched
(`Usable`; `documentation/source/threading.rst` offers `main_` handles for that),
a constructor that names a thread is given one of the source's state.

Run `kept` (with `UserdataLayout`): three plain and one main handle, two states, one with
a collectable coroutine that can itself be referred to; four slots, one for
each handle, so no leak can hide behind a full registry and all sharing is
possible. Four handles allow a source, a target, a bystander and a main handle.

### UserdataLayout

Addresses are numbers; `block` records what an allocation function chose
(`Place...`), the getters and `__gc` functions are the operators `Find...`.
A behaviour allocates one block at any address and frees it: blocks do not
interact. `WorstSpace` is `aligned_space_for`, both branches.

Run `kept`: alignments 1 to 64 (below, at and above `max_align_t`), sizes
that are and are not multiples of them, every remainder of the base address
modulo the largest alignment. Addresses enter the code only modulo an
alignment, so larger ones add nothing.

### FunctionCall (with LuaStack)

`stack` is the Lua stack of one frame, a sequence of values; `result[r]` is the
result object with the fields of the code. `order`, `own` and `given` are
history: which results hold values, what the program itself pushed between
them, and what each call returned. `LuaStack` gives the API functions their
effect on a sequence, `StackRemove` is `stack::remove` with its fast path.

| action | code |
|---|---|
| `CallProtected`, `CallAligned` | `basic_protected_function::call`, function pushed or already there, with and without handler, then `invoke` and `~protected_handler` |
| `CallUnsafe`, `UnsafeScript` | `basic_function::call`, `unsafe_script` |
| `CallTyped` | `call<Ret...>` when it succeeds |
| `DoString`, `Load`, `ScriptThrows` | `do_string` and the like, `load`, `script_throw_on_error` |
| `Default`, `MoveConstruct`, `MoveAssign`, `Destroy` | the three result classes and their conversions |
| `PushOwn`, `PopOwn`, `PushResult` | the program's own use of the stack, `stack::push` of a result |

Preconditions: results that hold values die newest first, as locals do; an unsafe
result moreover only on top (`protected_function.rst`, `function.rst`).
Not modelled: C++ exceptions that cross `lua_pcall` (`protected_function.hpp:350-376`)
and `lua_error` out of the frame, which abandon the frame; typed calls that fail;
`dump`; handlers that live on the stack; how error handlers are kept (they are
references). In `script_throw_on_error` the rotation at
`state_handling.hpp:166` does nothing when the failed result is on top, which
it is in `safe_script`.

Run `call_results`: two protected results, an unsafe one and a load result, up
to two values for each call and three on the stack: enough for a result below,
the one in question and a value above, with and without a handler.

### Coroutine

`thread[t]` is a Lua thread: its status, the stack below a suspended frame
(`base`) and the frame (`frame`); `Seen` is what `lua_gettop` counts. `co[c]` is a
`basic_coroutine` with its cached `stats` and its `error_handler`, a reference that
holds a function or not and has a thread of its own (`Handlers`): the program
gives it, a copy shares it, a move makes it anew for the coroutine's thread
(`HandlerMoved`), an assignment of a function keeps the thread the target's had
(`HandlerAssigned`). `result[r]` is a
`protected_function_result` on a thread. `informed` and `given` are history:
which objects have been told of the last call (directly, or by copy or move from
one that was), what each call yielded.

Actions: `Construct`, `Default`, `CopyConstruct`, `MoveConstruct`, `CopyAssign`,
`MoveAssign`, `DestroyCoroutine`, `Call` (operator()), `CallTyped`,
`DestroyResult`, `PushOwn`, `PopOwn`. Assigning between threads follows
`Reference!AssignPinned`: the target stays on its thread, and so does its handler, if
each has one; a coroutine that had no thread takes the source's, while its handler
may stay where it was. A call that fails then pushes the handler there and the
message on its own thread (`HandlerAstray`). Precondition: one
coroutine for each thread, as the documentation and the examples have it (a
second one would resume the first, dropping its own function).

Run `coroutine_calls`: two objects, two threads, a result on each, up to two
values, one of a failing call's own below its message: a copy and its original, a call
through either, on one thread or two, with the handler on the same thread or not.

### UsertypeStorage

One class in one Lua state. `table` are the metatables, `registry` their names,
`named` the class table, `storage` the `usertype_storage` userdata with
`string_keys`, `auxiliary_keys`, `base_index` and the flag that makes lookups
slow, `gcTable` the storage under the global `gc_table` name; `binding[b]` is a
`binding_base`, freed or not. `want` is history: what the program last bound.

Actions: `Register` (`register_usertype`, including the clearing of a storage it
finds), `Unregister`, `CollectStorage` (`destroy_usertype_storage`), `SetString`,
`SetIndex`, `SetOther`, `SetPlain` (fields of an unregistered class), `Push` (an
object gets its metatable), `CollectObject`, `Assign` (`obj[k] = v`). Lookups are
operators: `Lookup`, `NamedLookup`, `Stored`, `IndexCall`.
Not modelled: base classes, call construction, `__newindex` and static
fallbacks bound by the user, automatic operators, a user's `__gc`, closures
that a script has taken out of a table, and what `maybe_get_usertype_storage`
(`usertype_storage.hpp:926`) leaves on the stack when it finds no storage.

Run `usertype_lookups`: two kinds of objects (with and without destructor; the
others are like them), one string key and one other, two storages so that a
registration can follow another, two objects so that they can belong to
different ones, three bindings so that one can be freed while another lives.

### Container and ContainerContract

A container is a sequence of nodes (`order`) with their contents (`data`): an
iterator is a node, an index is a place, and the two part when elements come and
go. `loop[i]` is the `iter` of `pairs()`, with `since` and `seen` as history.
Each kind selects the code its C++ type does: random access, a walk of a list,
`insert_after` of a forward_list, a fixed array, lookups of a set and a map.

Actions: `Set` (nil erases or writes a default), `Add`, `Insert`, `Erase`,
`Clear`, `Pairs`, `NextPair`, `Leave`, `Drop` and `Collect`; `Get`, `At`, `Find`,
`IndexOf` are operators. `ContainerContract` says what
`documentation/source/containers.rst` promises of the changing operations;
`WritesAsPromised` requires every one of them to implement it.
Not modelled: unordered and multi-key containers, move-only and const elements,
conversions that fail, inserts and erases beyond the ends (undefined in the code:
preconditions), `pairs` of a map (`next_associative` names member functions where
members are meant and cannot be instantiated; it would also make the iterator
of `begin()` twice), `empty` of an array (`usertype_container.hpp:1551` answers
`extent > 0`).

Run `container_contract`: all six kinds, up to three elements (a first, a last and
one between), one loop, two values, three keys, indices from 0 to one past the
bound. Two loops do not interact: an iterator changes nothing of the container.

### TableAccess

An operation is a function from one machine (stack, tables, error) to the next,
written as the code nests it: `push_pop` around the whole, a walk along the keys of
the path, a count of what is to be popped. `Starts` are the three sorts of tables
that select different code: a registry reference (pushed and popped), an object
already on the stack, and the global table, whose string keys need no table.
Keys divide into those the Lua API takes by value and those that are pushed first
and thereby move every relative index.

| action | code |
|---|---|
| `Set` | `set`, `traverse_set`, `proxy = value`, in the modes none, `create_if_nil`, `update_if_empty`, `override_value` |
| `GetOrCreate` | `traverse_get<optional<table>>(create_if_nil, ...)` |
| `PushField`, `PopField` | `stack::push` of a proxy, and the program popping it |
| `Clear` | `clear` |

Readings change nothing and are operators (`TraverseGet`, `TraverseGetOptional`,
`ProxyProbe`, `ProxyPush`) that `ReadsAgree` compares with following the keys one
by one (`Lookup`) in every state. An operation that raises a Lua error abandons
the frame and is no step.

Run `tables_access`: three tables, paths of up to three keys (a first, a middle
and a last one use different code), one key of each sort, tables that contain each
other or themselves, one value of the program's on the stack, so that a table can
also lie there.

### TableIteration

`loop[l]` is a `pairs_iterator`, a `basic_table_iterator` or a `for_each` with the
index it remembers; `order`, `own`, `visited` and `stayed` are history (the loops
under way, the body's values between them, the keys shown, the keys that were
there throughout). `left` counts the statements a body has yet to run: a body is
finite.

Actions: `Begin`, `Advance`, `Finish` (at the end, or left by `break`), `MovePairs`,
and the statements of a body: `BodySets`, `BodyClears` (as in `TableAccess`),
`BodyPushes`, `BodyPops`. Precondition: no field appears in a table while it is
walked, as Lua demands.

Run `tables_loops`: two nested loops over two tables (the same one twice, or one
with `__pairs` inside one without), two keys, bodies of two statements with one
value of their own; the innermost of two loops does not write.

### Unicode and Text

`Unicode` has the decoders and encoders as operators, bit by bit as the code
computes them, with what lies beyond the text as a parameter, since three of them
look for the end only before the first unit. `Text` is a conversion: `Push`
chooses between the buffer on the C++ stack and counting first, `CountUnit` and
`WriteUnit` are rounds of the two loops, likewise for reading (`Get`, `CountRead`,
`CopyRead`, `GetChar`); `needed` and `room`
are what was counted and reserved. `Says8`, `Says16`, `Says32` are the reference:
the code points of the well-formed parts, by the tables of the Unicode standard.

Run `crossing` (with `Values` and `Calls`; each behaviour is one text, one value or one call):
every UTF-16 and UTF-32 text of up to three units
and every Lua string of up to four bytes, made of the least, greatest and
neighbouring members of each class of units. Three units are a surrogate pair and
a neighbour; four bytes the longest sequence. The buffer is 8 bytes, so that
texts of two units fit it and texts of three do not.

### Values

A run of this module is one value: pushed from C++ or made by Lua, and then asked
for in every order by the questions of `told`: its check, `get`, `check_get`, the
unqualified check-and-get, and `pop`. Types are records with types inside
(optionals, variants, tuples, pairs, sequences, arrays, maps, the exhaustive check of
`as_container`-like tables, pointers, shared pointers and handles to classes with bases);
`PushOf`, `Checks`, `GetOf` and `UnqualifiedCheckGet` follow the specializations of
`unqualified_pusher`, `unqualified_checker`, `unqualified_getter` and
`unqualified_check_getter`. `Means` is the independent account: what a Lua value is
as a value of the type. `missing` counts slots lost below the value or left above it.

Integers are 6 bits wide (`lua_Integer` and the widest C++ type), floating point
numbers have 4 digits and are counted in halves: that is enough for numbers that are
not exact, tie, overflow `llround`, or fit only one of the two. Builds differ in
`SOL_SAFE_NUMERICS` (`precision`), `SOL_STRINGS_ARE_NUMBERS` and
`SOL_ALL_INTEGER_VALUES_FIT`. The classes are a base, a second base at an offset,
and a class derived from both, registered with one, both or no bases.

### Arguments and Calls

`Arguments` is `stack::check` and `stack::get` over a parameter list: each walk
carries its own record of used slots, the checkers of optionals, pairs and
variants recurse into it, `Share` says what each type uses up and `Leftover` what a
checker leaves. A walk is a recursive function of the number of parameters passed.
`MenuAssumption` says which calls are calls at all: a function that is no overload set
has one signature, stack indices of policies are positive, or -1 for a target
(counting from the top is not modelled otherwise), and `returns_self` has a self. `Calls` is one call from Lua:

| action | code |
|---|---|
| `StartFunction`, `StartMember`, `StartConstructing` | the `lua_call_wrapper` selected by what was bound |
| `Match`, `NoMatch` | `overload_match_arity` and `construct_match`: arity, then the types unless it is the only candidate |
| `Check`, `Run`, `Throw` | `stack::call`: check, read, call |
| `PushConstructed`, `PushObject`, `PushResult`, `Copy` | what is left on the stack, and when an object gets its metatable |
| `ApplyPolicies` | `policies`, `returns_self`, `self_dependency`, `stack_dependencies` |
| `Return` | the trampoline returns, or turns an exception into an error |
| `Collect`, `Drop`, `Finish` | Lua's collector between any two steps; the script drops the result |

Run `crossing`: `MCCalls` lists some 48 000 calls: every parameter list of a menu of 23
(each class of parameter alone, before and behind another), alone and as one of
two candidates, for arguments of ten kinds; members, constructors, initializers,
factories; policies. More than two candidates add nothing: the loop over them
keeps no state but the position.

### Optional and Maybe

`mem` holds the optionals that own: whether they are alive, their flag, what lives in
their storage, and the balance of objects constructed and destroyed; `ptr` the
optionals of references. Copies may throw at every place where they are made;
inside a `noexcept` function that ends the program. `Maybe` is the contract:
each optional holds a value or nothing, and every operation is told by that.
`Optional` implements it under the mapping from flag and storage (`KeepsPromise`).

Run `optional_lifetimes`: three optionals of one type (source, target, bystander), one of
a type that converts to it, three of references, two values; no deadlock check: a
program that ended takes no step. Run `optional_swap`: the swap of an
optional that holds a value with one that does not. Run `optional_order`: the operators,
which order an empty optional before any other (as `AnswersAgree` has it too), against
the comment on them, which has it the other way round. Run `optional_ref_assign`: the
converting assignment of an optional reference from an empty optional, which
throws (`rhs.value()`), against the comment that it resets.

## 4. Runs

| run | expects | states | shows |
|---|---|---|---|
| `kept` | pass | 7 239 | slots have one owner each, none leaks, main handles stay on the main thread, handles behave as values; sections of userdata fit, are disjoint, aligned, and found again |
| `call_results` | pass | 58 952 | results read what was returned, nothing is lost or taken |
| `coroutine_calls` | pass | 1 062 121 | cached status is the truth, results read what was yielded |
| `usertype_lookups` | pass | 17 314 | every object sees the last binding, nothing stale or dangling, names lead to the class |
| `container_contract` | pass | 53 886 | one contract for every kind, loops and indices agree |
| `tables_access` | pass | 4 433 | every way of reading a path agrees, writes land, the stack is as before |
| `tables_loops` | pass | 32 868 | nested loops keep the stack, show each key once, and end |
| `crossing` | pass | 893 253 | texts and values survive the border, nothing is written past its room, every conversion ends; the right candidate runs on its own arguments, objects are destroyed once, and not too early |
| `optional_lifetimes` | pass | 7 000 | flags tell lifetimes, the contract is kept |
| `optional_swap` | violation | | a swap with an empty optional moves the value and not the flags |
| `optional_order` | violation | | an empty optional is less than any that holds a value, the reverse of `optional_implementation.hpp:1446-1448` |
| `optional_ref_assign` | violation | | an optional reference assigned an empty optional of another type throws and is not reset, contrary to `optional_implementation.hpp:2177-2178` |

States are counted after symmetry, where a configuration declares it; symmetric
sets are of interchangeable model values, and no run with symmetry checks
liveness. To check one: `tlc -config MCContainer.cfg MCContainer`. To check the
proofs: `tlapm ReferenceProofs.tla`.

**Fairness.** The library schedules nothing: whether a handle is ever destroyed, a
coroutine resumed or a storage collected is up to the program, the script and
Lua, and nothing is assumed about them. Two things are loops of the library's
own, and there a step that can be taken is taken, since it is the next
instruction of the one thread there is:

* `MCCrossing` assumes weak fairness of the rounds of a conversion
  (`WF_vars(TextNext)`): `ConversionEnds` says that each loop advances through every text,
  ill-formed or cut off, but for a lone surrogate at the end of UTF-16, which the
  corner `trailing_surrogate` is about.
* `TableIteration` assumes weak fairness of `GoesOn`: a body that has run its
  statements pops its values, and the loop is advanced or left. That bodies are
  finite is a bound on the program (`left`). `LoopsEnd` says that then the loop ends,
  although what the body writes and nests lies on the stack that `lua_next` uses.

## 5. Proofs

For every value of the constants, from the named assumptions of the modules
(which TLC evaluates on every run):

* **ReferenceProofs** - `TypeCorrect`, `SlotsOwnedExactlyOnce` (which implies the
  run's `Ownership`), `MainHandlesStayOnMain`. The inductive invariant is the type
  invariant with the ownership properties together: that a slot is not given back
  twice needs that it is in use and owned, and that the slot `luaL_ref` picks is
  nobody's needs that every owned slot is in use. `UnrefEffect` says what a release
  does; each constructor and assignment branch is then one step. Self-assignment
  is included: it loses the object, not the slot. The theorem on main handles
  assumes that no empty reference of a coroutine is assigned to them.
* **DataProofs**, tables - `ReadsFollowPaths` (the run's `ReadsAgree`), `WritesAlwaysLand`
  (`WritesLand`), `CreatesWhereNothingIs` (`CreatesAllTheWay`): for paths of every length
  through any tables, if the program performs none of the three corners of the
  proxies (`Straight`); the last without the two corners of `create_if_nil` too
  (`Additive`). The work is in the walks. Each is a recursive function of the number
  of keys taken; along it, either everything down to level n is on the stack with
  the value of n keys on top (`Arrived`), or the walk ended: with an error raised
  (`Gone`), or with the levels it counted still to be popped (`Probing`, `Reaching`).
  The induction is `Steps`: a set of numbers that has 0, and with each number the
  next, has them all, since a number it lacked would have a least. Of the state,
  reads need no more than that the stack is a sequence. Writes need the invariant
  that fields hold numbers or tables that are there (`Fits`) and that the tables on
  the stack are there (`Standing`), since a table made on the way is one that was
  not; along a walk that writes, the keys down to the first that is missing lead
  where they led, below it hang the tables made so far, each reached by one path,
  and of what was there only the one field changed (`Grown`). That a table used as a
  key would be freed while the key is still there is why the assumption on
  `TableAccess` has keys that are no tables.
* **DataProofs**, loops - `LoopsAccountForTheStack` (the run's `StackAccounted`) and
  `LoopsVisitEachOnce` (`VisitsEachOnce`), for any number of keys and tables and any nesting, if
  the program performs none of the corners of `TableIteration` and of the proxies
  (`Orderly`). `StackAccounted` says what the whole stack is; a step sees only its top.
  The invariant therefore has the heights between: a function that gives for each
  level n the stack up to the n-th loop and its body's values (`Laying`), with each
  loop's remembered indices those of its own layer (`Seated`). An operation of the
  innermost loop then changes the last layer and leaves the rest (`LayingOver`,
  `LayingUnder`), and that the absolute indices a destructor removes are the top ones
  is `Seated`. `Rests` says of each of the three kinds what a begin or a step leaves, from
  the layer below it up. What a loop shows needs the other half, `ShownSound`: what
  stays in the table and was not shown comes after the key it rests on and is
  still there, so the field `lua_next` finds is the next of them. The tables of the
  loops under way are there (`Objects`), since the loops keep them from the collector.
* **DataProofs**, userdata - `WorstSpaceSuffices` is arithmetic: for each
  alignment that is a power of two up to 64, the space from any address is that
  from its remainder, so the maximum over the remainders is enough; above
  `max_align_t` the sum taken at address 1 is. `SectionsStayInBlock`,
  `SectionsLieRight`, `SectionsAreFound` (with alignment on, which is needed) and
  `TypeCorrect` follow, since a block never changes.
* **FunctionCallProofs** - `Invariance`, `TypeCorrect`, `StackAccounted` (the run's
  `NothingLost`), `ValuesKept` (`ValuesStay`), `OneHolder` (`HeldOnce`), for programs
  without the corners. The stack is the concatenation of own and returned values
  in `order`; a proof by induction over that concatenation is not available, so the
  invariant says the same with indices: `NothingLost` gives each held result the
  place where its values end, and `Ascending` adds that later results end higher, for
  any two of them and not only for neighbours. `HeldSound` is what the destructors
  rely on: a held result has a Lua state, and an unsafe one pops what it returned.
  A call adds at the top, a destruction removes the topmost result, and all
  lower places keep their content.
* **CrossingProofs**, calls - `FirstMatchAlwaysRuns` (the run's `FirstMatchRuns`),
  `ArgumentsAlwaysInPlace` (`ArgumentsInPlace`), `AnswersAlwaysAsPromised`
  (`AnswersAsPromised`), `ObjectsAlwaysSound` (`ObjectsSound`), `DependenciesAlwaysKept`
  (`DependenciesKept`): for any number of candidates, with parameters of any number
  and type, any arguments and policies, for calls without the corners. Two facts
  about the walks carry them. `ListChecked`: the walk of the checkers finds a list good
  just if each parameter takes the arguments that are its own. `ListRead`: the getters
  of a list that was found good get just those arguments. Both step along the
  number of parameters, from the lemmas on one parameter (`ParameterChecked`,
  `OwnRead`): a walk is where the arguments taken so far end, or beyond them all
  (`Aligned`), which is why an optional at the end may use a slot or not.
  The inductive invariant `CallInv` says of the stages of a call: while a candidate is
  sought none before it fits, and the stack is as the call found it above the
  object that is made (`Untouched`), without which the walks would look at other
  values than the independent account `Fits`; after the function the result is on
  top, the arguments are where the policies look for them unless the stack was
  cleaned, and then nothing is dead yet (`Resulting`); after the policies each
  one's keeper has what it keeps in its user value (`Keeps`), and that nothing kept is
  dead then holds for the collector too (`Returned`). The last needs that user values
  refer only to arguments or to the object. `MadeTyped` and `Over` tie the destructor's
  runs to metatable and memory.
* **CrossingProofs**, texts - `Utf16RoundTrip`, `Utf8RoundTrip`: every code point that is no
  surrogate is encoded into units from which the decoder reads it, whatever
  follows; `Utf8Sound`: whatever the UTF-8 decoder accepts is a code point spelled as
  the encoder spells it. The lemmas split a code point into its groups of six bits;
  the rest is arithmetic on them. `NothingPastItsRoom` (the run's `WithinRoom`), without the
  corners: what the counting pass found is enough for the pass that writes. A sum
  over the units of a text would need induction; instead the invariant carries a
  record of the places the counting pass came through with the total at each
  (`Tally`). The pass that writes starts where the record starts and takes the same
  steps (`Replayed`), so it is always at a place of the record with that place's
  total written, and no total exceeds the last. What the two passes decode is the
  same since every unit decides its own step: in a text that is counted no
  surrogate is alone (`PushUtf16`), and of Lua's bytes every step goes forwards
  (`ReadUnit`, from `Utf8Sound`). A text that is not counted needs four bytes for each
  unit at most.
* **OptionalProofs** - `FlagsTell` and `DestroyedOnce`, for any number of optionals and
  without the corners. The invariant says that the flag of each optional tells
  whether an object lives in its storage and that the balance is the number of
  flags set; each operation is a composition of `Built`, `Unbuilt`, `Reset` and
  assignments, with one lemma for each. `Answers` (the run's `AnswersAgree`) needs no
  more than the invariant and the order of the values.
* **CoroutineProofs** - `StatusesAgree`, `ResultsReadBack`, `StacksShared`, without the
  corners. `StacksSound` says of each thread what is on its stack: the values of
  its one result with the program's own above them, or after a failure the
  message on top of everything, which the result then pops. `InformedRight` is
  `StatusAgrees` of the objects that know of every call. Neither is inductive alone:
  a destructor pops the right number only if its result lies where its index
  says, and a resume starts from an empty thread only if what was suspended left
  nothing (`base`).
* **UsertypeStorageProofs** - `LookupsStayCurrent` (`LookupsAgree`), `NothingEverDangles`
  (`NothingDangles`), `NamesStay` (`NamesLeadToClass`), without the corners. The invariant
  describes the registration in use, `Serving`: each of its fast tables has under
  each key the binding the storage has, or a value a script put there since, in
  which case the table's index asks the storage (`StringSound`, `OtherSound`); each
  binding is alive and of one key, so that freeing one key's frees no other's
  (`BindingsSound`). All other metatables have default entries only (`Plain`), and all
  other storages were cleared (`OthersCleared`): that is why what an old object asks
  cannot dangle.
* **ContainerProofs** - `ReadsAlwaysAgree`, `LoopsAlwaysAgree`, `OperationsKeepContract`
  (`WritesAsPromised`), without the corners. The invariant: a container with lookup is
  ordered by key (`Sorted`), so that search by order and search by equality find the
  same place; an element of a sequence is its own key (`Paired`); what a loop has
  seen is exactly what lies before its iterator, and for random access its key is
  the iterator's place (`LoopSound`). `WithAt` and `WithoutAt` describe what inserting and
  erasing do to a sequence; every changing operation is one of them, an
  overwriting or a clearing, and each is proved to be what the contract says.
  The contract counts indices from 1, as `containers.rst` does: that theorem assumes
  the default `SOL_CONTAINER_START_INDEX`; the other two hold for every first index.

**Refinements proved.** A step of the code is a step of its abstract specification or
changes nothing of what that sees:

* `HandlesImplementValues` (the run's `IsHandles`): `Reference` implements `Handles`, unless
  a program copy-assigns a handle to itself. `Ownership` is what makes it work: the
  value of a third handle is the content of a slot, which no one else releases or
  is given. `AssignmentKeepsPin` is the action property `ObjectAssignmentKeepsPin`; for a
  `main_reference` it needs that main handles stay on the main thread.
* `Promise` (`KeepsPromise`): `Optional` implements `Maybe`, the optionals that own and those
  that refer alike; an operation that throws changes nothing.
* `OperationsKeepContract`: `Container` implements `ContainerContract`.

**Assumptions.** "Without the corners" is `Corners = {}` (`CallCorners = {}`), as in the runs: it excludes the
operations of the table in section 2. The preconditions that section 3 names for each
module (how a program uses its objects, and what is not modelled) are guards of the
actions, and hold in the runs and the theorems alike. The theorems on `Reference`
assume only the absence of the one corner that breaks them. The other hypotheses
are the named assumptions on constants, which hold of the values in every run.

**Model-checked only.** What is left of the invariants are those of `Values` and
`Transcoded` of `Text`. The induction theorems of the proof library take an operator as
parameter, which the provers at hand cannot instantiate; where a walk is a
recursive function of a number, `Steps` takes their place. It does not help with
definitions that recurse over data: the `RECURSIVE` operators of `Values`, where a type
has types inside to any depth. `Transcoded` compares with the code points a
whole text says. Also beyond the prover: liveness and `ENABLED` (`LoopsEnd`,
`ConversionEnds`).

## 6. Plan

Theorems next: `Transcoded` of `Text`, with the code points a text says as a function of
the place in it.

Models next: ownership of references to elements of containers
(`usertype_container.hpp:603`) and the marking of userdata between registrations
(`usertype_storage.hpp:409`), with Lua's finalization order; failing typed calls
(`protected_function.hpp:319`); stack references and variadic arguments; registry
slots of `auxiliary_keys` (`usertype_storage.hpp:806`); base classes in
`UsertypeStorage`.

## 7. Not modelled

* Environments: one call of the Lua API that sets an upvalue.
* Stack references, variadic arguments and results: an index without ownership; what
  matters is the discipline of indices that `FunctionCall` and `TableIteration`
  model for the objects that pop.
* Opening a state, loaders, `require`, panics, garbage collection control: no state of
  the library's own.
* Packaged coroutines (`packaged_coroutine.hpp`): the file is `#if 0`.
* Configuration, compatibility shims and type traits: compile time, or functions
  of the Lua API that the models take as given.
* The generator of the single header, tests and examples.
* Parts of modelled components: see the notes of `PROJECT.json`.
