----------------------------- MODULE SyscallRpc -----------------------------
(***************************************************************************)
(* System calls of a Worker to the main thread over shared memory           *)
(* (agent-os/packages/posix/src: rpcCall of kernel-worker.ts,               *)
(* _handleSyscall of driver.ts, the layout of syscall-rpc.ts).              *)
(*                                                                          *)
(* A step is one access to memory that the other thread sees, so that the   *)
(* words of an answer may be read while they are written.  A word holds the *)
(* call whose answer it belongs to; errno and the integer result, which are *)
(* stored and loaded one after the other, are one word.  What a system call *)
(* does is left out: its handler awaits the kernel for any time, and then   *)
(* writes the answer without giving up the main thread.  A signal for the   *)
(* process rides on an answer; its handler runs inside rpcCall and may make *)
(* calls itself.                                                            *)
(***************************************************************************)
EXTENDS Integers, Sequences, FiniteSets

CONSTANTS
    MaxCalls,     \* bound: system calls made
    MaxSignals,   \* bound: signals sent to the process
    MaxDepth      \* bound: calls inside calls, through signal handlers

ASSUME RpcConstants ==
    MaxCalls \in Nat /\ MaxSignals \in Nat /\ MaxDepth \in Nat \ {0}

VARIABLES
    state,        \* SIG_IDX_STATE: a response is ready
    words,        \* the words DATA_LEN, ERRNO with INT_RESULT, the data
    sigWord,      \* SIG_IDX_PENDING_SIGNAL, 0 for none
    stack,        \* rpcCall activations of the Worker, the current one last
    calls,        \* calls made so far
    inbox,        \* messages posted and not yet received by the main thread
    serving,      \* calls whose handler awaits the kernel
    answering,    \* the handler that writes its answer: call and next store
    pendingSigs,  \* _wasmPendingSignals of the process
    signalled,    \* history: signals sent
    delivered,    \* history: signals the trampoline was called with
    returned,     \* history: what each call returned
    late,         \* history: a call has timed out
    stray         \* history: a notify has woken another call than the answered

rpcVars == <<state, words, sigWord, stack, calls, inbox, serving, answering,
             pendingSigs, signalled, delivered, returned, late, stray>>

CallNos == 1 .. MaxCalls
Fields == {"len", "result", "data"}
NoAnswer == [f \in Fields |-> 0]
EIO == [f \in Fields |-> -1]
Idle == [call |-> 0, next |-> "data"]

RpcInit ==
    /\ state = FALSE /\ words = NoAnswer /\ sigWord = 0
    /\ stack = <<>> /\ calls = 0
    /\ inbox = <<>> /\ serving = {} /\ answering = Idle
    /\ pendingSigs = <<>> /\ signalled = 0 /\ delivered = <<>>
    /\ returned = [c \in CallNos |-> NoAnswer]
    /\ late = FALSE /\ stray = FALSE

-----------------------------------------------------------------------------
Frame == stack[Len(stack)]
At(pc) == stack # <<>> /\ Frame.pc = pc
Caller == SubSeq(stack, 1, Len(stack) - 1)
Become(frame) == stack' = Append(Caller, frame)
GoOn(pc) == Become([Frame EXCEPT !.pc = pc])

NewFrame(endless) == [call |-> calls + 1, pc |-> "post", endless |-> endless, got |-> NoAnswer]

Drivers == <<inbox, serving, answering, pendingSigs, signalled>>

\* Store IDLE; a poll(-1) may wait for ever.
BeginCall ==
    /\ stack = <<>>
    /\ calls < MaxCalls
    /\ calls' = calls + 1
    /\ \E endless \in BOOLEAN : stack' = <<NewFrame(endless)>>
    /\ state' = FALSE
    /\ UNCHANGED <<words, sigWord, Drivers, delivered, returned, late, stray>>

PostRequest ==
    /\ At("post")
    /\ inbox' = Append(inbox, Frame.call)
    /\ GoOn("wait")
    /\ UNCHANGED <<state, words, sigWord, calls, serving, answering, pendingSigs,
                   signalled, delivered, returned, late, stray>>

\* mutant: the Worker sleeps without comparing the state word
SleepForAnswer ==
    /\ At("wait")
    /\ GoOn("asleep")
    /\ UNCHANGED <<state, words, sigWord, calls, Drivers, delivered, returned, late, stray>>

\* Atomics.wait compares and falls asleep in one step.
WaitForAnswer ==
    /\ At("wait")
    /\ GoOn(IF state THEN "load result" ELSE "asleep")
    /\ UNCHANGED <<state, words, sigWord, calls, Drivers, delivered, returned, late, stray>>

\* The wait times out: EIO, unless the call may block for ever.
Timeout ==
    /\ At("asleep")
    /\ IF Frame.endless
       THEN GoOn("wait") /\ UNCHANGED <<returned, late>>
       ELSE /\ returned' = [returned EXCEPT ![Frame.call] = EIO]
            /\ late' = TRUE
            /\ stack' = Caller
    /\ UNCHANGED <<state, words, sigWord, calls, Drivers, delivered, stray>>

After(field) == CASE field = "result" -> "load len"
                  [] field = "len"    -> "load data"
                  [] field = "data"   -> "load signal"

Load(field) ==
    /\ At(CASE field = "result" -> "load result"
            [] field = "len"    -> "load len"
            [] field = "data"   -> "load data")
    /\ Become([Frame EXCEPT !.got[field] = words[field], !.pc = After(field)])
    /\ UNCHANGED <<state, words, sigWord, calls, Drivers, delivered, returned, late, stray>>

\* The trampoline runs the program's signal handler inside rpcCall.
RunTrampoline ==
    /\ delivered' = Append(delivered, sigWord)
    /\ GoOn("handler")

LoadSignal ==
    /\ At("load signal")
    /\ IF sigWord = 0 THEN GoOn("reset") /\ UNCHANGED delivered ELSE RunTrampoline
    /\ UNCHANGED <<state, words, sigWord, calls, Drivers, returned, late, stray>>

\* A handler makes calls like the program around it, one after the other, a
\* poll(-1) among them.
HandlerCall ==
    /\ At("handler")
    /\ calls < MaxCalls /\ Len(stack) < MaxDepth
    /\ calls' = calls + 1
    /\ \E endless \in BOOLEAN : stack' = Append(stack, NewFrame(endless))
    /\ state' = FALSE
    /\ UNCHANGED <<words, sigWord, Drivers, delivered, returned, late, stray>>

\* The trampoline is back, and rpcCall goes on.
HandlerReturns ==
    /\ At("handler")
    /\ GoOn("reset")
    /\ UNCHANGED <<state, words, sigWord, calls, Drivers, delivered, returned, late, stray>>

\* mutant: the answer is copied after the signal handler has run
ReturnShared ==
    /\ At("reset")
    /\ state' = FALSE
    /\ returned' = [returned EXCEPT ![Frame.call] = words]
    /\ stack' = Caller
    /\ UNCHANGED <<words, sigWord, calls, Drivers, delivered, late, stray>>

\* Store IDLE and return what was loaded.
Return ==
    /\ At("reset")
    /\ state' = FALSE
    /\ returned' = [returned EXCEPT ![Frame.call] = Frame.got]
    /\ stack' = Caller
    /\ UNCHANGED <<words, sigWord, calls, Drivers, delivered, late, stray>>

-----------------------------------------------------------------------------
Workers == <<stack, calls, delivered, returned, late, stray>>

\* The main thread starts the handler of a message.
Receive ==
    /\ answering = Idle /\ inbox # <<>>
    /\ serving' = serving \cup {Head(inbox)}
    /\ inbox' = Tail(inbox)
    /\ UNCHANGED <<state, words, sigWord, Workers, answering, pendingSigs, signalled>>

\* A handler's await is over; it keeps the main thread until it has answered.
KernelDone(c) ==
    /\ answering = Idle /\ c \in serving
    /\ serving' = serving \ {c}
    /\ answering' = [call |-> c, next |-> "data"]
    /\ UNCHANGED <<state, words, sigWord, Workers, inbox, pendingSigs, signalled>>

StoreWord(field, next) ==
    /\ answering # Idle /\ answering.next = field
    /\ words' = [words EXCEPT ![field] = answering.call]
    /\ answering' = [answering EXCEPT !.next = next]
    /\ UNCHANGED <<state, sigWord, Workers, inbox, serving, pendingSigs, signalled>>

\* The oldest pending signal, or 0, which wipes out the one of the last answer.
StoreSignal ==
    /\ answering # Idle /\ answering.next = "signal"
    /\ sigWord' = IF pendingSigs = <<>> THEN 0 ELSE Head(pendingSigs)
    /\ pendingSigs' = IF pendingSigs = <<>> THEN <<>> ELSE Tail(pendingSigs)
    /\ answering' = [answering EXCEPT !.next = "state"]
    /\ UNCHANGED <<state, words, Workers, inbox, serving, signalled>>

StoreReady ==
    /\ answering # Idle /\ answering.next = "state"
    /\ state' = TRUE
    /\ answering' = [answering EXCEPT !.next = "notify"]
    /\ UNCHANGED <<words, sigWord, Workers, inbox, serving, pendingSigs, signalled>>

Notify ==
    /\ answering # Idle /\ answering.next = "notify"
    /\ answering' = Idle
    /\ IF At("asleep") THEN GoOn("load result") ELSE UNCHANGED stack
    /\ stray' = (stray \/ (At("asleep") /\ Frame.call # answering.call))
    /\ UNCHANGED <<state, words, sigWord, calls, delivered, returned, late, inbox,
                   serving, pendingSigs, signalled>>

\* A signal for which the program has a handler of its own is queued.
SendSignal ==
    /\ answering = Idle
    /\ signalled < MaxSignals
    /\ signalled' = signalled + 1
    /\ pendingSigs' = Append(pendingSigs, signalled + 1)
    /\ UNCHANGED <<state, words, sigWord, Workers, inbox, serving, answering>>

WorkerStep ==
    \/ PostRequest \/ WaitForAnswer \/ Timeout \/ LoadSignal \/ HandlerReturns \/ Return
    \/ \E f \in Fields : Load(f)

AnswerStep ==
    \/ StoreWord("data", "len") \/ StoreWord("len", "result")
    \/ StoreWord("result", "signal") \/ StoreSignal \/ StoreReady \/ Notify

RpcNext ==
    \/ BeginCall \/ HandlerCall \/ WorkerStep
    \/ Receive \/ SendSignal \/ AnswerStep
    \/ \E c \in CallNos : KernelDone(c)

RpcSpec == RpcInit /\ [][RpcNext]_rpcVars

-----------------------------------------------------------------------------
RpcTypeOK ==
    /\ state \in BOOLEAN
    /\ words \in [Fields -> 0 .. MaxCalls]
    /\ sigWord \in 0 .. MaxSignals
    /\ Len(stack) <= MaxDepth
    /\ \A k \in DOMAIN stack : stack[k].call \in CallNos /\ stack[k].endless \in BOOLEAN
    /\ calls \in 0 .. MaxCalls
    /\ serving \subseteq CallNos
    /\ answering.call \in 0 .. MaxCalls
    /\ returned \in [CallNos -> [Fields -> -1 .. MaxCalls]]

(***************************************************************************)
(* A call returns the answer to itself, all words of it, until one has      *)
(* timed out or was woken by the notify that belongs to the answer before:  *)
(* apart from these the single buffer is safe, also for the calls that a    *)
(* signal handler makes inside another call.                                *)
(***************************************************************************)
OwnAnswer ==
    ~late /\ ~stray => \A c \in CallNos : returned[c] \in {NoAnswer, [f \in Fields |-> c]}

(***************************************************************************)
(* Under the same condition the program's handler sees the signals in the   *)
(* order they were sent, each once, although one word of shared memory      *)
(* carries them and the Worker does not clear it.                           *)
(***************************************************************************)
SignalsOnceInOrder == ~late /\ ~stray => delivered = [k \in 1 .. Len(delivered) |-> k]

\* A system call returns its own answer, although signal handlers make calls
\* of their own through the same buffer, and each signal is handled once, in
\* order (kernel-worker.ts, driver.ts).
CallsGetTheirOwn == RpcTypeOK /\ OwnAnswer /\ SignalsOnceInOrder

(***************************************************************************)
(* "Block until response" (kernel-worker.ts): a call that has not timed out *)
(* returns the answer to itself.  Violated: Atomics.wait also returns when  *)
(* the notify of the previous answer comes after the Worker has read that   *)
(* answer, and rpcCall does not look at the state word again.               *)
(***************************************************************************)
BlocksUntilResponse ==
    ~late => \A c \in CallNos : returned[c] \in {NoAnswer, [f \in Fields |-> c]}

\* A call is under way; a handler that runs inside it waits in a poll(-1).
InCall(c) == \E k \in DOMAIN stack : stack[k].call = c
HeldUp(c) == \E k \in DOMAIN stack : stack[k].call = c /\ \E m \in k + 1 .. Len(stack) : stack[m].endless

(***************************************************************************)
(* A call with a time limit returns, with its answer or with EIO, however   *)
(* long the kernel takes and however many calls its signal handlers make;   *)
(* except that it is held up as long as a handler waits in a poll(-1), for  *)
(* which the time limit of the outer call does nothing.                     *)
(***************************************************************************)
CallsReturn ==
    \A c \in CallNos :
        (\E k \in DOMAIN stack : stack[k].call = c /\ ~stack[k].endless) ~> (~InCall(c) \/ HeldUp(c))

(***************************************************************************)
(* A poll without a time limit whose answer is being written wakes up and   *)
(* returns, unless a handler that the answer's signal starts holds it up.   *)
(***************************************************************************)
AnswerWakes ==
    \A c \in CallNos :
        (answering.call = c /\ \E k \in DOMAIN stack : stack[k].call = c /\ stack[k].endless)
            ~> (~InCall(c) \/ HeldUp(c))
=============================================================================
