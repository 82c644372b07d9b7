# A verification project for the transpiration front end

The repository holds the front end of a transpiler for encrypted computation: an
abstract syntax tree (AST) for a small C-like language, a parser that builds it, visitors
that walk it, and the beginning of a lowering to MLIR. It is sequential C++ without
persistence: no threads, no messages, no files that survive a run. What is hard in it is
ownership (nodes change hands as raw pointers and as `unique_ptr`s), state that two
components must keep in step (stacks against recursion, scopes against visits, parent
pointers against owners), iterators over children that may be missing, and errors thrown
in the middle of a construction. The repository has no tests for any of it.

## 1. Inventory

| component | state | operations | interacts with |
|---|---|---|---|
| Tokenizer (`ast/parser/tokenizer.cc`, `tokens.cc`, `push_back_stream.cc`) | characters pushed back, line and column, queue of tokens | `++it`, lookup of the longest operator, strings, comments | read by the parser, one token ahead |
| Expression parser (`parser.cc` 278-751, `utils/operator.cc`) | operand stack and operator stack of every active call | `parseExpression` and what it calls | reads the tokenizer, recurses into itself, creates nodes |
| Statement parser (`parser.cc` 39-69, 180-241, 753-1060) | the active productions with their half-built children | `parse`, `parseStatement`, one production per statement | calls the expression parser, then the parent setting pass |
| AST nodes (`ast/*.cc`) | slots with children, parent pointer, node number | constructors, setters, take functions, vector operations, clone, copy, move, delete | everything below works on them |
| Child iteration (iterator classes in `include/.../ast/*.h`) | position in a node's children | `begin`, `end`, `*`, `++` | the loops of all visitors |
| Parent setting pass (`utils/parent_setting_visitor.cc`) | stack of ancestors | `visit` | run by `parse` over the finished tree |
| Scopes (`utils/scope.cc`, `scoped_visitor.cc`) | tree of scopes with their names, current and root scope | enter, exit, declare, resolve, take the root | base of the visitors that need names |
| Lowering (`utils/abc_ast_to_mlir_visitor.cc`) | the block operations go to | one `visit` per node class | MLIR's builder |
| Variable map (`utils/variable_map.h`) | values and a set of changed variables | get, add, assign, update, erase | no caller yet |
| JSON (`toJson`, `fromJson`, `parser.cc` 71-178) | none | conversion both ways | the node classes |
| Printing (`print_visitor.cc`, `program_print_visitor.cc`) | indentation | conversion to text | the node classes |
| Data types, errors, AST dialect | none | values, wording, declarations | everywhere |

What makes each of them correct, and what is hard:

* **Expression parser.** The tree is the one precedence, associativity and brackets give
  the text. Every node made with `new` has one owner at every moment. The reduction never
  runs off the operand stack; the loop ends.
* **Statement parser.** A program becomes its own tree (the `else` at the nearest `if`,
  lists in order), a text is refused only where it stops being a program, nothing is lost
  between productions, and an exception loses no more than what the innermost function
  holds by a raw pointer.
* **AST nodes.** One owner per node after any sequence of operations; node numbers
  identify nodes; parent pointers point to owners or are null.
* **Child iteration.** A loop visits every child once, in order, whichever slots are empty,
  and meets no empty slot (which is not so: section 6).
* **Parent setting pass.** The stack is the path to the root; at the end every node points
  to its owner (which is not so for a `Call` and its arguments: section 6); the pass fails only
  where an older pointer contradicts it and comes to an end.
* **Scopes.** Names mean what lexical scoping says they mean, when visits repeat, when one
  visitor walks twice, and after a walk that was cut short by an exception.
* **Tokenizer.** The longest operator wins and whatever was pushed back is read again, in
  order, with the right position.
* **Lowering.** What reaches the client's block is a whole tree; every operation lands in a
  region of its parent's; an exception does no more than it must to the trees that follow.
* **Variable map.** Whoever walks the changed entries finds a value for each and misses no
  change; what `has` said stays true.
* **JSON.** A tree that was written is read again as itself, or for a reason is not; what is
  read can be written.

`PROJECT.json` lists the hazards at their lines with the properties that cover them, and says in
a note where a property describes what the code does wrong, or names it as an exception, instead of
ruling it out.

## 2. Modules

| module | models | role |
|---|---|---|
| `ExpressionParser` | `parseExpression`, `parseTarget`, `parseLiteral`, `parseExpressionList`, `parseOperator`, `comparePrecedence` | specification |
| `ExpressionGrammar` | nothing of the code: the tree a text denotes, as a recursive function of the parts of the text | reference, properties |
| `StatementParser` | `parse`, `parseStatement`, all productions for statements | specification |
| `StatementTexts` | nothing of the code: the texts that a tree stands for | reference, property |
| `StatementGrammar` | nothing of the code: a grammar, and what it lets follow the beginning of a text, as a recursive function | reference, properties |
| `Ownership` | `unique_ptr`: every node has one owner | definition used by both parsers |
| `PushBackStream` | the class of that name: an operation takes a stream and returns one | instantiated by `Tokenizer` |
| `Tokenizer` | `tokens_iterator`, `tokenize` and its scanners, `getOperator` | specification |
| `TokenGrammar` | nothing of the code: what the lexemes of a text are, said of positions in the text without recursion | reference, properties |
| `NodeClasses` | the classes: slots, who may be in them, which operations reach them | table used by four modules |
| `AstNodes` | the life cycle of nodes | specification, properties |
| `ChildIteration` | a range-for loop over one node | specification, properties |
| `ParentSettingVisitor` | the pass run by `parse` | specification, properties |
| `LexicalScopes` | nothing of the code: lexical scoping of nodes | abstract specification |
| `ScopedVisitor` | `ScopedVisitor` and `Scope` | specification, implements `LexicalScopes` |
| `Lowering` | `AbcAstToMlirVisitor` | specification, properties |
| `VariableMap` | `VariableMap`, `ScopedIdentifier` | specification, properties |
| `NodeJson` | `toJson`, `parseJson`, `fromJson` | operators, properties |
| `..._proofs` | | theorems and their proofs; `Ownership_proofs` has lemmas about owners and trees for both parsers, `ScopedVisitor_proofs` has the theorems about `VariableMap`, too |
| `MC...` | | constants for TLC |

**ExpressionParser.** The variables `operands` and `operator_stack` are the two local
stacks; suspended calls are records in `callers`, `held` is what `parseTarget` has collected
and `pc` says where in the loop the active call is. One action is one branch of the loop or
one round of an inner loop (`Reduce` is a round of the `while` at parser.cc:290, `CleanUp` one
at :429, `ApplyUnary` and `EndIteration` are the check at :407, which every iteration ends
with). A node is an entry of `heap` with its children, the position of its token and the depth
of the recursion. The text is chosen a token at a time when the iterator reaches it, so
one run checks every text over the tokens. Popping an empty `std::stack` is undefined
behaviour: the model stops there (`pc = "undefined"`). Operators are strings; literals
have a kind but no value; a negated number is a node of kind `negative`.

**StatementParser.** `frames` are the active productions; each is at a stage and holds the
children it owns. `Expected` is the table of all `parseTokenValue`, `parseDatatype` and
`parseIdentifier` calls with the stage that follows each; every other action is a
decision in the code. An expression is one symbol, whose production returns or
throws and leaves the iterator on a token that cannot continue it, which is what
`ExpressionParser` shows of it (texts with `++` or `--` are left out, because
`parseExpression` does not return from them). A frame at stage `semicolon` is
`parseStatement` with a raw pointer in its hand. What an expression, a target or a parameter had
in raw pointers when an exception left it is a frame at stage `raw` on top of the others, with
one node for all of it (`ThrowRaw`). `++it` can throw from the tokenizer: `RefuseLexeme` is that
exception behind any token a production passes, `LoseParameter` the one behind the comma of a parameter,
and inside an expression or a target it is one of the errors of `RejectExpression` and `RejectTarget`.
(`ExpressionParser` reads tokens only, and the first lexeme of a text is refused before there is
anything to lose.) The two calls of `parseTokenValue(comma)`
in `parseForStatement` are the IF in `NextListed`: its condition never holds, since a second
statement is never parsed successfully.

**PushBackStream and Tokenizer.** A stream is a record: what the input function has given, the
characters pushed back, and the two counters. `Read` and `PushBack` are the class's operations.
One action of `Tokenizer` is one round of a scanner's loop: it reads a character, which comes
from the stack or is chosen now, and pushes characters back as the code does (`Munch` is a
round of `getOperator`, `WordEnds` the end of `fetch_word` with its look at `..`). Letters
are four, digits one, the keyword is `if`; a character from 0x80 on is one character `high`,
which ends the text as the end itself does, because `char` is signed. `endptr` points into a
temporary when the suffix `f` was cut off: whether that float is refused is a choice.

**NodeClasses and AstNodes.** A class is a record: what its vector and its members may
hold, which members have setters and take functions, whether the constructor calls
`setParent`, whether assignment copies the base class. `AstNodes` has one action per
operation, for all classes at once. Nodes are numbered in the order in which their
constructors run, clones in the order their copy constructors run (`Copies`). What a node owns
all the way down, `Below`, is defined without recursion: the nodes that no closed set without
them separates from it. Left out, as bounds on the caller: null entries passed to constructors
of vectors, assignment between a node and its own ancestor, moving a node into its own subtree
(all undefined or leaking by definition of `unique_ptr`).

**ChildIteration.** `Dereference` has one operator per iterator class with the cases of its
`operator*`, `End` and `Increment` the variants the classes have. `Fail` is an
exception of `operator*` or a null reference.

**ParentSettingVisitor.** `owner` is an arbitrary tree, `calls` an arbitrary set of `Call`
nodes, `parent` starts null or right for each node. `frames` are the active `visit`s.
`VisitCall` is what the missing `visit(Call &)` of the `Visitor` template leads to.

**ScopedVisitor.** Nodes that open a scope are the tree `Encloser`; a walk enters any child
of the current node any number of times, since derived visitors do (an interpreter runs a
loop's body again). `Abort` is an exception that unwinds the visits without `exitScope`.
`Lexical` maps the scope objects to `LexicalScopes`: what a node declared is the union over
the scopes it opened.

**Lowering.** `frames` are the active visits, each with the child it is at; `block` is the
visitor's insertion block, which `recursive_visit` and `visit(Block &)` save, set and restore.
The tree is chosen as the walk reaches it, missing children included. MLIR is external: an
operation has as many regions as it was made with, and a region holds blocks in the order of
their creation; `RegionOf` says which region the code asks for. A client hands over one tree
after another and goes on after an exception.

**VariableMap.** A `ScopedIdentifier` is an object, a Scope and a name; two Scopes may be of one
node, because each walk of a visitor makes new ones. The hash tables compare the nodes' names,
`has` compares the Scopes, and each operation is written with the comparison its code uses.
`baseline` (the values at the last reset) and `checked` (what `has` was true of) are
history variables for the properties. Reading what is not there ends the behaviour. The names `MapInit`,
`MapNext`, `MapSpec` and so on keep it apart from `ScopedVisitor` where both are extended, and so do
`LoopSpec` of `ChildIteration` and `JsonSpec` of `NodeJson` from `ParentSettingVisitor`.

**NodeJson.** `Json` says of each class which fields it writes and how `fromJson` reads them;
`ToJson` and `FromJson` are the two conversions, exceptions included, over trees with missing
children. A loop over a JSON value (`Elements`) meets the elements of an array, the values of an
object in the order of its keys, nothing of null, and a text itself. The text of the JSON is the library's.

How they fit together. `StatementParser` uses of `ExpressionParser` that it returns and where
it leaves the iterator; both use of `Tokenizer` a sequence of tokens that ends. `ParentSettingVisitor`
starts from what `parse` builds: parents that are null or, where a constructor or `clone` set them, owners
(`BuildKeepsOwners`). `VariableMap` relies on what `ScopedVisitor` shows of
Scopes: one per node in one walk, and others in the next.

## 3. Runs

| run | bounds | shows |
|---|---|---|
| `expressions` | texts of up to 6 over 13 tokens (every bracket, two binary levels, sign, prefix), of up to 5 over 18 tokens, one of each kind; 8 nodes | `MatchesGrammar`: a text of the grammar is accepted as the tree of the grammar. `OperatorStacksRise`: the stack discipline behind it. `SingleOwner`: no node lost or doubly owned. `UnderflowNeedsMissingOperand`: the only texts that underflow lack a left operand. `EndsUnlessPostFix`: the parse ends unless it meets `++` or `--` |
| `statements` | all tokens up to 8 symbols; `if`/`else`/`return` up to 14; `for` up to 12 | `TreeSpellsText`, `RejectsOnlyNonPrograms`: what is accepted and as what. `NodesAreHeld`, `LeaksOneRawTree`: who owns the nodes, and what an exception loses. `Termination` |
| `tokens` | every text of up to 2 characters; texts of up to 7 over the characters of each scanner | `StreamIsPosition`: what was pushed back is what was read, and the counters are right. `TokensTileText`: no character lost or read twice. `LongestMatch`. `FailsOnlyOnBadText`. `Termination` |
| `nodes` | 4 nodes, vectors of 2, five classes | `OneOwner`: ownership is a forest. `SharedIdsAreAssignments`, `ParentsChangeToOwners`, `BuildKeepsOwners` |
| `walks` | every tree of 5 nodes, every set of calls, all earlier parents | the parent setting pass: `StackIsPath`, `ParentsAfterWalk`, `FailsOnlyOnArguments`, `ParentsAreKept` |
| `walks`, the loop | every class, vectors of up to 4, every pattern of empty slots | `VisitsChildren`, `FailsOnlyOnLeadingNull` |
| `walks`, JSON | every tree of two levels, and in a program; about 10000 values that no `toJson` wrote, with fields of the wrong type, and objects of nodes, empty objects or texts for arrays | `RoundTrip`, `AcceptedIsWritable` |
| `scopes` | 4 openers, one name, two walks, exceptions anywhere | `PathIsInnermost`, `ScopesFormTree`, `ResolvesLexically`, and the refinement `LexicalSpec` |
| `scopes`, the map | two maps, three Scopes of two nodes, one name, two values | `ChangedHaveEntries`, `ChangesAreMarked`, `CheckedStaysValid` |
| `lowering` | two trees of 5 nodes in all, of any class, vectors of 2, any child missing | `RootHoldsWholeTrees`, `LostAfterNestedThrow`: where the operations are, also after exceptions. `EndsUnlessList` |
| `v_PrefixTakesNextOperand`, `v_EmptySlotsAreHidden`, `v_ParentsHaveTheChild`, `v_OptionalValuesAreRead`, `v_OperandsHaveRegions` | as above, or smaller | one disagreement between text and code each, see section 6 |

`walks` and `scopes` hold components that share no state; the first choice of such a run is which of them
runs (`MCTreeWalks`, `MCScopes`), so that their states are added and not multiplied.

Why the bounds suffice. Six tokens hold two operators of different levels around a bracket, an
index or a list, or a `rotate` call, which needs exactly six; five tokens of any kind hold
every pair of neighbours inside a bracket or between operands, and errors show at a token and
its neighbours. In `statements` eight symbols
reach every statement including a `for`; the longer sources are there for the
dangling `else` (13 symbols) and a `for` with statements in its header (11). In `tokens` the
longest operator has three characters, so six hold one between two others; seven hold a string
with an escape and an operator behind it. In `nodes` four constructors
allow an owner, a child, its copy and a further owner, and the five classes are one for each
combination of features in `NodeClasses` that matters (vector, open vector, adopting
constructor, copied base, vector and member, leaf); the proofs cover the rest. Five nodes make every shape of
tree up to a call inside a call with arguments. One name suffices for scopes and for the
variable map because names do not influence each other; two Scopes of one node and one of
another are what the two comparisons tell apart. In `lowering` five nodes make an exception
two levels down with a second tree to lose. A node's JSON depends on it and its children only: two levels.

Deadlock is checked where the system always ends in a stuttering `Finished`; it is off for
`expressions` and its `v_` run (the postfix loop stops at the bound `MaxNodes`),
`nodes` (all nodes deleted and the counter at its bound) and `scopes` (the last walk is over, or
a missing entry was read). In `walks` it is
the absence of deadlock, with a loop over children that only ever shrinks, that shows the end of the pass.

Fairness. `FairSpec` asks only that the single sequential program keeps running while it
can (weak fairness of all its steps together); in `lowering` the client need not hand over another tree.
In `statements` the steps that end in a refused lexeme are outside the fairness: a parse must end without such help.
No liveness is claimed for the caller-driven modules `AstNodes`, `ScopedVisitor` and `VariableMap`.

Conditions inside properties that are there because the code needs them: `MatchesGrammar`
leaves out texts with a prefix operator or sign behind an operator (`LatePrefix`, see
section 6); `EndsUnlessPostFix` excepts `++` and `--`, `EndsUnlessList` expression lists and
ternary operators; `ResolvesLexically` speaks of a visitor's first walk, because
a second walk opens a second scope for the outermost node; `TreeSpellsText` allows the comma
between parameters to be missing or trailing, as the code does; `RejectsOnlyNonPrograms`
excepts the second statement in a list of a `for`, which the code never accepts;
`LostAfterNestedThrow` says exactly which trees are lost after an exception; `RoundTrip` promises
to read back only trees without the classes that have no `fromJson` and without members that it
counts on (`MayLack`), and asks of no tree that it be refused; `FailsOnlyOnLeadingNull` and
`ParentsAfterWalk` are silent about a leading empty entry and about Calls with their arguments, where
the code departs from its documentation (section 6); `SingleOwner` leaves out, once an exception is thrown,
the literal that `parseLiteral` throws away because of a minus; `FailsOnlyOnBadText` leaves open words that end in `f`.

## 4. Proofs

All are for every value of the constants; they rest on the named assumptions of the modules
(`SourcesAssumption`, `BoundsAssumption`, `ClassesAssumption`, ...), which TLC evaluates too.

`ExpressionParser_proofs`, for texts of any length over any set of tokens:

* `TypeCorrect`: `Spec => []TypeOK`. Every entry of a stack, a frame or a target refers to a
  node that exists. The inductive invariant is `TypeOK` with the places that the reduction and the
  return of a call depend on (the last consumed token is an operator while reducing; a finished
  call has one operand), because `op1` and `operands[1]` would have no type otherwise.
* `StacksRise`: `Spec => []OperatorStacksRise`. The property is inductive once `TypeCorrect` is
  known (`RiseStep`): a binary operator is pushed only when `MustReduce` is false, so it binds more
  tightly than the top, or lands on an empty stack; a unary one binds more tightly than any binary
  top, and may repeat; every other step pops, leaves the stacks alone, or
  moves a whole stack into and out of the frame of a call.
* `OperandsSuffice`: `Spec => []UnderflowNeedsMissingOperand`. `Enough` says how many operands there
  are for the operators on the stack, for the active call and for each suspended one: as many while
  the next operand is awaited, one more after it was read and while reducing, and a unary operator is
  on top for one iteration only. It is assumed of texts in which no operator lacks its left operand,
  which is a property of what was read and stays false once it is false.
* `NodesHaveOneOwner`: `Spec => []SingleOwner`. `Accounted` maps every place that can own a node (the
  stacks and lists of the active and of all suspended calls, and the nodes) to what it holds, and
  says that all together hold every node once. An action moves nodes from one place to another, or
  makes a node that holds what two places held; those moves are the lemmas of `Ownership_proofs`. An
  exception leaves the places as they were, so the account is closed after it, too, but for the literal
  behind a minus (`LiteralIsLost`), which no place had yet.

* `ExpressionsAreRead`: `Spec => []MatchesGrammar`, the correctness of the parser: see below.

The argument for `ExpressionsAreRead`. The grammar splits a text at the operator applied last and
knows nothing of stacks, so the invariant has to say, for a text read half way, what part of the tree
each stack holds. `ReadsGrammar` has three parts besides types, owners and `OperatorStacksRise`:

* `Understandable`: if the text so far is `Regular` (every token may stand behind the one before it,
  and there is no late prefix) then it is `Understood` with some `marks`, which say for
  every call where its bracket opened and where its current element began. `Active` says of the running call, place by
  place in the loop, what it has read: its operands are the trees of the stretches between its operators
  (`Pieces`), and every operator inside an operand binds at least as tightly as the one behind the operand and more
  tightly than the one in front of it (`Below`). `Suspended` says the same of every waiting call up to its bracket, of
  the targets of an index, and of the elements a list has gathered.
* `DepthIsCalls`: as many brackets are open as calls wait. The text is a whole expression only when they
  are all closed, so it is the outermost call that returns the tree.
* `Reasons`: a parse that ended without a tree ended at a token that cannot stand where it stands.
  Without it the theorem would speak only of the texts that happen to be accepted.

The lemmas come in the order of the proof. The reading of a part depends on that part only (so what was
read stays read when the text goes on, `Extended`); one lemma for each production of the grammar; what
has a tree is `Regular` (so the hypothesis of `MatchesGrammar` gives that of `Understandable`, at every
earlier moment too); how a tree is made by a binary operator, a prefix, a bracket, an index and a list. Then every
step of the parser uses one of them: `Reduce` joins two stretches at the last operator of both, since those inside the
left one bind at least as tightly and those inside the right one more tightly. Induction over the length of a part
is carried out by looking at the shortest part that has it wrong. The parts of the invariant were
checked by TLC on the sources of the run before they were proved.

`StatementParser_proofs`, for texts of any length over any set of tokens:

* `EveryNodeIsHeld`: `Spec => []NodesAreHeld`. The inductive invariant `Sound` is the shape of the frames (which
  stages may wait for a call, and where a frame may have children) together with the same account
  of owners: a production that returned with a child left in its frame would lose it, so the shape
  is what makes the account inductive.
* `AtMostOneRawTreeLeaks`: `Spec => []LeaksOneRawTree`. While the parser runs, and where it threw without
  losing a node of an inner function, the frames are `Sound`; `Torn` says of a state that an exception left with a
  frame of stage `raw` that the frames below it are what they were. Every reachable state is one or the other
  (`SoundOrTorn`), and either way each node is held once (`Keeping`) and only the frame on top may hold by a
  raw pointer (`LastLeaks`, `TornLeaks`). The trees below the nodes that productions hold have every node once (`Trees`, `Forest`), so what is
  not freed is the one tree of that frame; this is an induction over the numbers
  of the nodes, carried out by looking at the smallest node that has it wrong.
* `AcceptedTreeSpellsText`: `Spec => []TreeSpellsText`. The inductive invariant `SpellsInv` is `Sound` and that
  some function `T` gives every node its texts such that `Speaks` holds: `consumed` is a text that each waiting
  production had read when it called the next one (`Waiting`), one after the other, and then what the last one has
  read (`Said`). Whether an `if` is finished is known only at the token behind it, so `Speaks` asks this
  of each of the `Closings`: of any text of the last frame, and, when that token is `else`, of one that the `else`
  could not belong to. A branch without braces has no `{` of its own (`Braceless`): its Block speaks
  for the statement in it. A step reads a symbol, goes on, calls, or returns a node, and there
  is one lemma for each (`SpeaksRead`, `SpeaksStay`, `SpeaksCall`, `SpeaksReturn`); making a node leaves the texts of
  the older ones alone (`Continues`), since the children of a node are older than it (`Sound` again).

`StatementGrammar_proofs`, for texts of any length over any set of tokens:

* `OnlyNonProgramsAreRejected`: `Spec => []RejectsOnlyNonPrograms`. The inductive invariant `RejectInv` is `SpellsInv`,
  that the text consists of tokens, and, while the parser runs, `Marked` (a text ends in `secret` only where a type
  is awaited) and `Awaits`.

The argument. `Viable` takes derivatives: the forms that the grammar lets follow a text, one symbol after the other
(`Derive`). The parser has no such set of forms, but frames. So `Awaits` gives each active production a set of forms
that is to follow it (`Stacked`): nothing behind the outermost one, and behind a called one that which its caller
goes on with (`Waits`). `Active` says for every stage of a production with which forms it goes on itself. `Tracks` then
relates the two: whatever the grammar lets follow the text at a symbol that the current token may begin, the active production
lets follow, too. Three lemmas carry it over a step, one for the steps that read a token (`OnRead`), one for those
that go on without reading (`OnStay`), and one for calls (`OnCall`); `StepReturn` does so when a production returns. Where the parser throws, the active
production lets nothing follow at the current token, so the grammar does not either (`StepReject`, `RejectsRight`).

Two things make it more than a table. The grammar is ambiguous in the dangling `else`: forms of an outer `if` may begin
with `else`, too, and are lost when the inner one takes it. `ElseWaits` says of the set of forms
that is to follow a production that behind an `else` they go on with a statement and then a form of the same set, which
is what the inner `if` goes on with. And the second statement in a
list of a `for` begins at its comma (`Astray`): from there on nothing is tracked, and the invariant says instead
that the parser fails at once, which is the exception that `RejectsOnlyNonPrograms` names.

`AstNodes_proofs`, for any number of nodes, any classes and vectors of any length:

* `OwnershipIsForest`: `Spec => []OneOwner`. The inductive invariant `IndInv` is the forest with the types
  and with a slot for each member. The operations are put together from two, each a lemma about
  any set of nodes with slots: `Replace` (the slots of one node get other contents while nodes
  go) and `Duplicate` (a closed set of nodes is copied). That ownership has no circle is shown by taking
  the nodes of a circle in the new state and making from it a circle in the old one.
* `OnlyAssignmentsShareIds`: `Spec => []SharedIdsAreAssignments`, from `IndInv` and that numbers are
  below the counter (`NumbersStep`): each operation keeps numbers, gives fresh ones, or copies one
  between Assignments.
* `ParentsAreWrittenRight`: `Spec => ParentsChangeToOwners`, from `IndInv` and that every node has a
  pointer: the owner a copy is told is the copy of the owner (`ChosenOwner`).
* `BuildingKeepsOwners`: `Spec => BuildKeepsOwners`, which is what lets the parser rely on parent pointers.

`ParentSettingVisitor_proofs`, for trees of any size: `TypeCorrect`, `StackFollowsVisits` (`StackIsPath`),
`ParentsAreSet` (`ParentsAfterWalk`), `FailureHasReason` (`FailsOnlyOnArguments`) and `ParentsStay`
(`ParentsAreKept`). `ParentsAreSet` says that a node which is no Call and no argument of one points to its owner, and
any other to an ancestor or to none. A node is pending while it, or a node around it, is among the children some active loop
has not reached; the inductive invariant says that pending nodes have their old parent pointers and
all others are set. Ancestors are defined by closed sets, so that no induction is needed.

`ScopedVisitor_proofs`, for any tree of openers and any number of walks, with repeated and aborted visits:

* `TypeCorrect`, `ScopesAreTrees` (`ScopesFormTree`), `ScopesAreNested` (`PathIsInnermost`), and
  `ImplementsLexicalScopes`: `Spec => LexicalSpec`, the refinement. The strengthening needed is that there is a
  root scope whenever a node is open. Opening a node that was open before finds its scope, a step that changes
  only the path of the abstract specification; declaring changes the union over the node's scopes by one name.
* `NamesResolveLexically`: `Spec => []ResolvesLexically`. It needs `FirstWalk`: in the first walk the
  parent of a scope is a scope of the enclosing opener, and no opener has two scopes. Following the
  parents then passes the open nodes, innermost first, and ends at the root (`OutwardPath`).

In the same module, for `VariableMap` with any maps, Scopes, names and values: `MarksAreEntries`, `NoChangeIsMissed` and
`CheckedIsFound`, the three properties of the run. The inductive invariant is about one map at a time and
adds that no two entries are of one identifier. Nothing of one machine is used for the other.

`Tokenizer_proofs`, for texts of any length over any of the characters:

* `PositionIsKept`: `Spec => []StreamIsPosition`. A character may be pushed back only if it is the one before the
  position, so the inductive invariant says of the scanners that go back more than one character
  that what they have collected is the text before the position.
* `TokensAreTheText` (`TokensTileText`), `LongestOperatorWins` (`LongestMatch`) and `FailureHasReasonInText`
  (`FailsOnlyOnBadText`). `Scanning` says, for each scanner, what the text behind the last token looks like up
  to the position: a gap; a gap and a slash; a gap and the beginning of a word, a string or a comment; a gap
  and an operator, with everything longer than the match refuted so far. The text only grows, and a lexeme that was
  complete stays one (`Longer`).

Only model-checked: `RoundTrip` and `AcceptedIsWritable` of `NodeJson`, whose conversions are RECURSIVE operators,
which the provers cannot unfold; the liveness properties (fairness and ENABLED are out of reach of the prover);
`VisitsChildren` and `FailsOnlyOnLeadingNull` of `ChildIteration`, and `RootHoldsWholeTrees` and `LostAfterNestedThrow` of
`Lowering`, whose proofs were not attempted.

## 5. Not modelled

* Printing: `PrintVisitor` and `ProgramPrintVisitor` turn a tree into text; indentation is their only state.
* Data types, errors: values and wording. The AST dialect is input for a generator; what it says of
  regions is used by `v_OperandsHaveRegions`.
* In the modelled components: values of literals, names and error texts; `parsedNodes` (a list that
  only the two-argument `parse` hands out); failure of `new`; the second constructor of
  `tokens_iterator`, over a deque of tokens, which has no caller; attributes and types of MLIR operations;
  the order of hash tables; and of the scoped visitor `setRootScope` and
  `overrideCurrentScope`, which only derived classes outside the repository could call (hence "partly").

## 6. Disagreements found while modelling

Shown by runs that expect a violation:

* `a && !b` applies `!` to `a`: the check after each token looks only for a non-empty operand
  stack (`v_PrefixTakesNextOperand`). The precedence table ranks `!` above every binary operator.
* The operands of an `OperatorExpression` go to the regions 1 to n of an operation that has n regions, 0 to n - 1
  (`v_OperandsHaveRegions`): the last one does not exist. A comment says that region 0 is not used for operands;
  the dialect gives the operation no other region.
* A leading empty entry of a vector of children is dereferenced by a range-for (`v_EmptySlotsAreHidden`), although
  abstract_node.h:28-30 says that a child that is null is not exposed.
* The arguments of a `Call` get a parent that does not have them as children (`v_ParentsHaveTheChild`), although
  abstract_node.h:128 demands it: the pass is run by `visit(AbstractNode &)`, and a `Call` is not dispatched there.
* A `Return` or a `VariableDeclaration` without a value is written but not read back (`v_OptionalValuesAreRead`), although
  return.h:11 and variable_declaration.h:12 call the value optional.

Stated as exceptions inside passing properties:

* `a++` never ends: the postfix branch does not advance the iterator, although a
  comment gives `i++, j++` as an example (`EndsUnlessPostFix`).
* The pass throws at an argument of a `Call` that has the right parent already (`FailsOnlyOnArguments`).
* A second statement in a `for`'s list is always refused
  (`RejectsOnlyNonPrograms`); two Assignments may share a node number (`SharedIdsAreAssignments`);
  setters leave parents alone (`BuildKeepsOwners` names the operations that do not spoil them);
  a visitor's second walk opens a second outermost scope (`ResolvesLexically`).
* A byte from 0x80 on ends the text without an error (`TokensTileText`), and whether a float is accepted
  depends on memory that was freed (`FailsOnlyOnBadText`).
* Lowering never returns from an `ExpressionList` or a `TernaryOperator` (`EndsUnlessList`), refuses every secret
  type, and after an exception from below the top of a tree it loses all later trees
  (`LostAfterNestedThrow`).
* Unary, operator and ternary expressions are written as JSON and never read again, nor are a `For` or an
  `If` without a block they need (`RoundTrip`).
* `parseJson` is documented to return null for what it does not know (parser.cc:78), and throws
  (`AcceptedIsWritable` covers what it lets through).

## 7. Plan

Done, in this order: expression parser, nodes, child iteration, parent pass, scopes, statement
parser, tokenizer, lowering, variable map, JSON; proofs about seven components. Left:

1. Proofs: `VisitsChildren` and `FailsOnlyOnLeadingNull` of `ChildIteration`, `RootHoldsWholeTrees` and
   `LostAfterNestedThrow` of `Lowering`.
2. Composition of `Tokenizer` and the two parsers in one specification, instead of the contracts of section 2.
3. The hooks of `ScopedVisitor` for derived classes, once the repository has such a class.
