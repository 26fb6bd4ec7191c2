----------------------------- MODULE Simulator -----------------------------
(***************************************************************************)
(* The quorumarc-sim command (crates/quorumarc-sim/src/main.rs): it reads  *)
(* its arguments one by one, explores, and answers with an exit code.  The *)
(* continuous integration of the repository relies on that code            *)
(* (README.md:77, ci.yml:26).  What it prints is left out.                 *)
(***************************************************************************)
EXTENDS Explore, Functions

CONSTANTS CommandLines,  \* the argument lists it is started with
          Usize,         \* the words that parse as a usize, with their values
          None           \* no exit code yet

ASSUME SimulatorAssumption ==
    /\ CommandLines \subseteq Seq(STRING)
    /\ \A w \in DOMAIN Usize : Usize[w] \in Nat
    /\ DOMAIN Usize \cap {"--depth", "--require-safe", "--help", "-h"} = {}
    /\ None \notin {0, 1, 2}

VARIABLES given,         \* history: the whole command line
          arguments,     \* what is left of it
          require_safe,
          running,       \* explore has been called
          exit_code

command == <<given, arguments, require_safe, running, exit_code>>

SUCCESS == 0
FAILURE == 1
USAGE   == 2

DefaultDepth == 8

SimInit ==
    /\ system \in Systems
    /\ ExploreFrom(DefaultDepth)
    /\ given \in CommandLines
    /\ arguments = given
    /\ require_safe = FALSE
    /\ running = FALSE
    /\ exit_code = None

-----------------------------------------------------------------------------
Reading(w) ==
    /\ exit_code = None /\ ~running
    /\ arguments # <<>> /\ Head(arguments) = w

Exit(code) ==
    /\ exit_code' = code
    /\ UNCHANGED <<given, arguments, require_safe, running, vars>>

(* --depth takes the next word for its value, whatever it is.                  *)
HasValue == Len(arguments) >= 2 /\ arguments[2] \in DOMAIN Usize

(* Plausible slip: the first --depth wins. *)
DepthOnce(value) == IF depth = DefaultDepth THEN value ELSE depth

NewDepth(value) == value

TakeDepth ==
    /\ Reading("--depth")
    /\ HasValue
    /\ depth' = NewDepth(Usize[arguments[2]])
    /\ arguments' = Tail(Tail(arguments))
    /\ UNCHANGED <<given, require_safe, running, exit_code,
                   system, round, search, counts, done>>

RefuseDepth == Reading("--depth") /\ ~HasValue /\ Exit(USAGE)

(* Plausible slip: a flag is looked at and not taken. *)
PeekedFlag == arguments

AfterFlag == Tail(arguments)

TakeRequireSafe ==
    /\ Reading("--require-safe")
    /\ require_safe' = TRUE
    /\ arguments' = AfterFlag
    /\ UNCHANGED <<given, running, exit_code, vars>>

(* Help ends the command with success, whatever was or would be asked for.     *)
Help == \E w \in {"--help", "-h"} : Reading(w) /\ Exit(SUCCESS)

RefuseUnknown ==
    \E w \in Range(given) \ {"--depth", "--require-safe", "--help", "-h"} :
        Reading(w) /\ Exit(USAGE)

CallExplore ==
    /\ exit_code = None /\ ~running
    /\ arguments = <<>>
    /\ running' = TRUE
    /\ UNCHANGED <<given, arguments, require_safe, exit_code, vars>>

(* One step of explore. *)
Exploring == running /\ Next /\ UNCHANGED command

Answer == IF require_safe /\ ~IsSafe THEN FAILURE ELSE SUCCESS

Finish == exit_code = None /\ done /\ Exit(Answer)

SimNext ==
    \/ TakeDepth \/ RefuseDepth \/ TakeRequireSafe \/ Help \/ RefuseUnknown
    \/ CallExplore \/ Exploring \/ Finish

SimSpec == SimInit /\ [][SimNext]_<<vars, command>>

(* The command is one thread: while it can take a step it takes one. *)
FairSimSpec == SimSpec /\ WF_<<vars, command>>(SimNext)

-----------------------------------------------------------------------------
SimTypeOK ==
    /\ TypeOK
    /\ given \in Seq(STRING)
    /\ Len(arguments) <= Len(given)
    /\ arguments = SubSeq(given, Len(given) - Len(arguments) + 1, Len(given))
    /\ require_safe \in BOOLEAN /\ running \in BOOLEAN
    /\ exit_code \in {None, SUCCESS, FAILURE, USAGE}

Asked(w) == w \in Range(given)

(* The depth a command line asks for: the value after its last --depth.        *)
DepthAsked ==
    LET at_depth == {i \in 2..Len(given) : given[i - 1] = "--depth"}
    IN IF at_depth = {} THEN DefaultDepth
       ELSE Usize[given[CHOOSE i \in at_depth : \A j \in at_depth : j <= i]]

(* What the pipeline takes the exit code of `--depth N --require-safe` for      *)
(* (README.md:77): success says that no state within N steps has two writers,   *)
(* failure that some state has; and no success where a word was not understood. *)
(* A help request is the exception: it succeeds and says nothing.              *)
ExitCodeTellsSafety ==
    exit_code \in {SUCCESS, FAILURE} /\ ~Asked("--help") /\ ~Asked("-h") =>
        /\ Range(given) \subseteq DOMAIN Usize \cup {"--depth", "--require-safe"}
        /\ Asked("--require-safe") =>
              (exit_code = SUCCESS <=> \A s \in Within(DepthAsked) : ~Unsafe(s))
        /\ ~Asked("--require-safe") => exit_code = SUCCESS

(* The command answers, at any depth and on any model: the pipeline never hangs. *)
Answers == <>(exit_code # None)
=============================================================================
