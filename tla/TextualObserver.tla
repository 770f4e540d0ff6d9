---------------------------- MODULE TextualObserver ----------------------------
(***************************************************************************)
(* How a command (moler/cmd/commandtextualgeneric.py) and an event            *)
(* (moler/events: TextualEvent, LineEvent, Wait4prompts) read the text of a   *)
(* device, which the connection cuts into chunks anywhere.  Both complete the *)
(* line they have not seen the end of (cache), and look at it each time it    *)
(* grows.  A command joins the lines till it finds the echo of its command    *)
(* string, then waits for its prompt.  An event takes the lines of a chunk in *)
(* order or, Wait4prompts, the newest first; an occurrence consumes the line. *)
(* Another thread pauses and resumes the event.                              *)
(*                                                                         *)
(* A text is a sequence of tokens, a regular expression a piece of text to be *)
(* found in a line.  Newline stands for "\n", "\r" and "\r\n".                *)
(***************************************************************************)
EXTENDS Naturals, Sequences, FiniteSets, SequencesExt

CONSTANTS
    Tokens,         \* what text is made of, Newline excepted
    Newline,        \* _newline_chars
    None,           \* None, and the text "None" where it is taken for a string
    Echo,           \* _cmd_escaped: the echo of the command string
    Prompt,         \* _re_prompt of the command
    Failure,        \* re_fail of the command
    Patterns,       \* a sequence: detect_patterns of a LineEvent
    Prompts,        \* a set: the prompts of Wait4prompts
    TillOccurs,     \* values of till_occurs_times, 0 for -1 (any number of times)
    MaxText,        \* bound: tokens the device sends
    MaxChunk,       \* bound: tokens in a chunk
    MaxPauses       \* bound: calls of pause()

ASSUME NewlineAssumption == Newline \notin Tokens /\ None \notin Tokens /\ None # Newline
ASSUME PatternsAssumption == Patterns \in Seq(Seq(Tokens))
ASSUME PromptsAssumption == Prompts \subseteq Seq(Tokens)
\* A prompt is some text.
ASSUME PromptAssumption == Prompt \in Seq(Tokens) /\ Prompt # <<>>
\* No text is "no fragment".
ASSUME NoneAssumption == None \notin Seq(Tokens)
ASSUME MaxChunkAssumption == MaxChunk \in Nat

VARIABLES
    kind,           \* "any", "all", "sequence" (a LineEvent's match), "prompts", "command", ...
    fullOnly,       \* process_full_lines_only
    till,           \* till_occurs_times
    sent,           \* what the device has sent so far
    chunk,          \* the chunk data_received() is about to cut, or <<>>
    cache,          \* _last_not_full_line
    todo,           \* processed: the lines data_received() has yet to look at
    paused,         \* _paused
    isDone,
    started,        \* _cmd_output_started
    failed,         \* a failure was found in the output
    pending,        \* copy_compiled_patterns: indexes of Patterns
    gathered,       \* _current_ret
    occurred,       \* _occurred: what each occurrence took
    left,           \* pauses left
    dropped,        \* history: a line's fragment was consumed by an occurrence in another line
    everPaused, late    \* history: pause() was called; occurrences since it was, while paused

vars == <<kind, fullOnly, till, sent, chunk, cache, todo, paused, isDone, started, failed, pending,
          gathered, occurred, left, dropped, everPaused, late>>

LineEvents == {"any", "all", "sequence"}
Events == LineEvents \cup {"prompts"}
Commands == {"command", "waiting command"}      \* wait_for_prompt_on_exception: the second

Idle == chunk = <<>> /\ todo = <<>>

-----------------------------------------------------------------------------
(* Text and lines.                                                          *)

\* A regular expression is found in the text.
Has(text, piece) ==
    \E i \in 0..Len(text) : i + Len(piece) <= Len(text)
                            /\ SubSeq(text, i + 1, i + Len(piece)) = piece
Newlines(text) == Cardinality({i \in DOMAIN text : text[i] = Newline})

\* The number of the line that the i-th token of a text is in.
LineNo(text, i) == Newlines(SubSeq(text, 1, i - 1)) + 1

\* The tokens that are left when the newlines are taken out: the k-th of them has, in its text,
\* the newlines of the lines before its own in front of it.
WithoutNewlines(text) ==
    LET place(k) == CHOOSE i \in DOMAIN text : text[i] # Newline /\ i = k + LineNo(text, i) - 1
    IN [k \in 1..(Len(text) - Newlines(text)) |-> text[place(k)]]

\* data.splitlines(True): the text cut after each newline.
SplitLines(text) ==
    LET places(k) == {i \in DOMAIN text : LineNo(text, i) = k}
    IN [k \in 1..LineNo(text, Len(text)) |-> SubSeq(text, Min(places(k)), Max(places(k)))]

IsFull(line) == line # <<>> /\ Last(line) = Newline
Stripped(line) == IF IsFull(line) THEN Front(line) ELSE line

\* _update_from_cached_incomplete_line: the line, and what is kept of it.
Completed(cached, piece) == IF cached = None THEN piece ELSE cached \o piece
\* Mutant: the beginning of a line is not kept.
KeepsNothing(line) == None
KeptOf(line) == IF IsFull(line) THEN None ELSE line

Init ==
    /\ kind \in Events \cup Commands
    /\ fullOnly \in IF kind \in LineEvents THEN BOOLEAN ELSE {FALSE}
    /\ till \in IF kind \in Events THEN TillOccurs ELSE {0}
    /\ sent = <<>> /\ chunk = <<>> /\ cache = None /\ todo = <<>>
    /\ paused = FALSE /\ isDone = FALSE /\ started = FALSE /\ failed = FALSE
    /\ pending = [i \in DOMAIN Patterns |-> i]
    /\ gathered = <<>> /\ occurred = <<>>
    /\ left = IF kind \in Events THEN MaxPauses ELSE 0
    /\ dropped = FALSE /\ everPaused = FALSE /\ late = 0

-----------------------------------------------------------------------------
(* data_received().                                                         *)

\* The wrapper's thread calls with the next chunk; a done observer gets none, a paused event
\* does not look at it.
Chunks == UNION {[1..n -> Tokens \cup {Newline}] : n \in 1..MaxChunk}
Receive ==
    /\ Idle /\ ~isDone
    /\ \E text \in Chunks :
        /\ Len(sent) + Len(text) <= MaxText
        /\ sent' = sent \o text
        /\ chunk' = IF paused THEN <<>> ELSE text
    /\ UNCHANGED <<kind, fullOnly, till, cache, todo, paused, isDone, started, failed, pending,
                   gathered, occurred, left, dropped, everPaused, late>>

\* _reverse_order: Wait4prompts begins with the newest line.
InOrder(lines) == IF kind = "prompts" THEN Reverse(lines) ELSE lines

\* An event cuts the whole chunk before it looks at a line.  Each line keeps its number (history).
Cut(first) ==
    LET pieces == SplitLines(chunk)
        before == Newlines(sent) - Newlines(chunk)
        line(k) == IF k = 1 THEN first ELSE pieces[k]
        lines == [k \in DOMAIN pieces |->
                    [text |-> Stripped(line(k)), full |-> IsFull(line(k)), no |-> before + k]]
    IN /\ todo' = InOrder(lines)
       /\ cache' = KeptOf(line(Len(pieces)))
       /\ chunk' = <<>>

CutLines ==
    /\ kind \in Events /\ chunk # <<>>
    /\ Cut(Completed(cache, SplitLines(chunk)[1]))
    /\ UNCHANGED <<kind, fullOnly, till, sent, paused, isDone, started, failed, pending, gathered,
                   occurred, left, dropped, everPaused, late>>

\* A command cuts a piece off and looks at it before the next.
CutPieces ==
    /\ kind \in Commands /\ chunk # <<>>
    /\ todo' = SplitLines(chunk)
    /\ chunk' = <<>>
    /\ UNCHANGED <<kind, fullOnly, till, sent, cache, paused, isDone, started, failed, pending,
                   gathered, occurred, left, dropped, everPaused, late>>

-----------------------------------------------------------------------------
(* An event.                                                                *)

\* Which of the pending patterns of a LineEvent the line takes, 0 for none.
Matching(line) ==
    LET found == {i \in DOMAIN pending : Has(line.text, Patterns[pending[i]])}
    IN CASE kind = "prompts" -> IF \E p \in Prompts : Has(line.text, p) THEN 1 ELSE 0
         [] kind = "sequence" -> IF 1 \in found THEN 1 ELSE 0
         [] OTHER -> IF found = {} THEN 0 ELSE CHOOSE i \in found : \A j \in found : i <= j

\* copy_compiled_patterns: all of them at the start of a cycle, then those not found.
NextPending(i, occurs) ==
    CASE occurs -> [k \in DOMAIN Patterns |-> k]
      [] i # 0 /\ ~occurs -> RemoveAt(pending, i)
      [] OTHER -> pending

\* The lines data_received() still looks at: none when done or paused, or, with
\* _break_processing_when_found, when there was an occurrence.
\* Mutant: a paused event goes on.
LinesLeft(occurs) == IF isDone' \/ (occurs /\ kind = "prompts") THEN <<>> ELSE Tail(todo)
RemainingLines(occurs) ==
    IF isDone' \/ paused \/ (occurs /\ kind = "prompts") THEN <<>> ELSE Tail(todo)

\* on_new_line, and event_occurred when it was the last line of the cycle: the fragment that was
\* kept is consumed, whichever line it is of.  A paused event breaks off after the line.
ProcessLine ==
    LET line == Head(todo)
        i == IF line.full \/ ~fullOnly THEN Matching(line) ELSE 0
        takes == i # 0
        occurs == takes /\ (kind \in {"any", "prompts"} \/ Len(pending) = 1)
        taken == Append(gathered, [text |-> line.text, no |-> line.no])
    IN /\ kind \in Events /\ todo # <<>>
       /\ occurred' = IF occurs THEN Append(occurred, taken) ELSE occurred
       /\ gathered' = CASE occurs -> <<>> [] takes /\ ~occurs -> taken [] OTHER -> gathered
       /\ pending' = NextPending(i, occurs)
       /\ isDone' = (till > 0 /\ Len(occurred') = till)
       /\ cache' = IF occurs \/ paused THEN None ELSE cache
       /\ todo' = RemainingLines(occurs)
       /\ dropped' = (dropped \/ (occurs /\ line.full /\ cache # None))
       /\ late' = IF occurs /\ paused THEN late + 1 ELSE late
       /\ UNCHANGED <<kind, fullOnly, till, sent, chunk, paused, started, failed, left, everPaused>>

\* pause() and resume(), by another thread, at any moment.
Pausing ==
    /\ left > 0 /\ ~paused
    /\ left' = left - 1
    /\ paused' = TRUE /\ everPaused' = TRUE /\ late' = 0

\* Mutant: the fragment survives the pause.
PauseKeepsFragment ==
    /\ Pausing
    /\ UNCHANGED <<kind, fullOnly, till, sent, chunk, cache, todo, isDone, started, failed, pending,
                   gathered, occurred, dropped>>
Pause ==
    /\ Pausing
    /\ cache' = None
    /\ UNCHANGED <<kind, fullOnly, till, sent, chunk, todo, isDone, started, failed, pending,
                   gathered, occurred, dropped>>

\* pause() comes between the test of the fragment and its use: None is put before the line.
PauseCutsLines ==
    /\ kind \in Events /\ chunk # <<>> /\ cache # None
    /\ Pausing
    /\ Cut(<<None>> \o SplitLines(chunk)[1])
    /\ UNCHANGED <<kind, fullOnly, till, sent, isDone, started, failed, pending, gathered, occurred,
                   dropped>>

Resume ==
    /\ paused
    /\ paused' = FALSE /\ late' = 0
    /\ UNCHANGED <<kind, fullOnly, till, sent, chunk, cache, todo, isDone, started, failed, pending,
                   gathered, occurred, left, dropped, everPaused>>

-----------------------------------------------------------------------------
(* A command.                                                               *)

\* on_new_line: the prompt ends the command, with the failure if there was one; a failure ends
\* a command that does not wait for its prompt.
OnNewLine(line) ==
    LET text == Stripped(line)
        ends == Has(text, Prompt)
        fails == ~ends /\ IsFull(line) /\ Has(text, Failure)
    IN /\ failed' = (failed \/ fails)
       /\ isDone' = (ends \/ (fails /\ kind = "command"))
       /\ cache' = KeptOf(line)
       /\ UNCHANGED started

\* _detect_start_of_cmd_output in a full line, which the next one is joined to if it is not there.
\* Mutant: the lines of the echo are not joined.
DetectStartInLine(line) ==
    LET found == IsFull(line) /\ Has(Stripped(line), Echo)
    IN /\ started' = found
       /\ cache' = KeptOf(line)
       /\ UNCHANGED <<failed, isDone>>
DetectStart(line) ==
    LET found == IsFull(line) /\ Has(Stripped(line), Echo)
    IN /\ started' = found
       /\ cache' = IF found THEN None ELSE Stripped(line)
       /\ UNCHANGED <<failed, isDone>>

ProcessPiece ==
    LET line == Completed(cache, Head(todo))
    IN /\ kind \in Commands /\ todo # <<>>
       /\ IF started THEN OnNewLine(line) ELSE DetectStart(line)
       /\ todo' = IF isDone' THEN <<>> ELSE Tail(todo)
       /\ UNCHANGED <<kind, fullOnly, till, sent, chunk, paused, pending, gathered, occurred, left,
                      dropped, everPaused, late>>

-----------------------------------------------------------------------------

Next ==
    \/ Receive
    \/ CutLines \/ ProcessLine \/ CutPieces \/ ProcessPiece
    \/ Pause \/ PauseCutsLines \/ Resume

Spec == Init /\ [][Next]_vars

-----------------------------------------------------------------------------
(* Properties.                                                             *)

\* The n-th line of a text, whole.
LineOf(text, n) ==
    LET places == {i \in DOMAIN text : text[i] # Newline /\ LineNo(text, i) = n}
    IN IF places = {} THEN <<>>
       ELSE SubSeq(text, Min(places), Max(places))
LinesOf(text) == 1..(Newlines(text) + 1)
FullLinesOf(text) == 1..Newlines(text)

\* What an event reports is part of one line the device has sent: fragments of two lines, or from
\* before and after a pause, are never joined (but for the "None" of PauseCutsLines).
TextWasSent(o) ==
    LET text == IF o.text # <<>> /\ Head(o.text) = None THEN Tail(o.text) ELSE o.text
    IN Has(LineOf(sent, o.no), text)

\* It reports lines in the order the device sent them, though Wait4prompts looks at the lines of a
\* chunk backwards.
InLineOrder ==
    \A k, m \in DOMAIN occurred : \A i \in DOMAIN occurred[k], j \in DOMAIN occurred[m] :
        k < m \/ (k = m /\ i < j) => occurred[k][i].no <= occurred[m][j].no

\* A cycle of "all" or "sequence" takes one line for each pattern, in their order for "sequence".
CycleIsWhole(cycle) ==
    \E order \in [DOMAIN Patterns -> DOMAIN Patterns] :
        /\ IsInjective(order)
        /\ kind = "sequence" => \A i \in DOMAIN Patterns : order[i] = i
        /\ Len(cycle) = Len(Patterns)
        /\ \A i \in DOMAIN Patterns : Has(cycle[i].text, Patterns[order[i]])

\* However the lines came, were cut, and were lost in pauses between them.
CyclesAreWhole ==
    kind \in {"all", "sequence"} => \A k \in DOMAIN occurred : CycleIsWhole(occurred[k])

\* What an event reports was sent by the device, in that order, a whole cycle at a time.
OccurrencesAreReal ==
    /\ \A k \in DOMAIN occurred : \A m \in DOMAIN occurred[k] : TextWasSent(occurred[k][m])
    /\ InLineOrder
    /\ CyclesAreWhole

\* Wherever the text was cut, an event that matches any pattern reports every line with one, and
\* the last line with a prompt is the last that Wait4prompts reports: so the device knows the state
\* it is in.  Unless the line's beginning was consumed by an occurrence in an earlier one (which
\* event_occurred does though it is to "clear already parsed fragment of line"), or in a pause.
MatchingLines(pieces, lines) == {n \in lines : \E p \in pieces : Has(LineOf(sent, n), p)}
EveryMatchOccurs ==
    Idle /\ ~isDone /\ ~dropped /\ ~everPaused =>
        /\ kind = "any" =>
            \A n \in MatchingLines(ToSet(Patterns),
                                  IF fullOnly THEN FullLinesOf(sent) ELSE LinesOf(sent)) :
                \E k \in DOMAIN occurred : occurred[k][1].no = n
        /\ LET prompts == MatchingLines(Prompts, LinesOf(sent))
           IN kind = "prompts" /\ prompts # {} =>
                occurred # <<>> /\ Last(occurred)[1].no = Max(prompts)

\* A paused event reports at most the line it was looking at.
OneLineWhilePaused == late <= 1

\* Where the text is cut does not matter to a command: it is done when its echo has been found in
\* the lines joined up to a full one, and then a prompt in a line (or a failure in a full line);
\* it has failed when a failure was found before the prompt.
EchoEnds == {i \in DOMAIN sent : sent[i] = Newline
                                /\ Has(WithoutNewlines(SubSeq(sent, 1, i)), Echo)}
Output == IF EchoEnds = {} THEN <<>> ELSE SubSeq(sent, Min(EchoEnds) + 1, Len(sent))
CommandIsWhole ==
    LET ends(n) == Has(LineOf(Output, n), Prompt)
        fails(n) == Has(LineOf(Output, n), Failure)
        found == \E n \in FullLinesOf(Output) : fails(n) /\ \A m \in 1..n : ~ends(m)
    IN kind \in Commands /\ Idle =>
        /\ started = (EchoEnds # {})
        /\ failed = found
        /\ isDone = ((\E n \in LinesOf(Output) : ends(n)) \/ (kind = "command" /\ found))
=============================================================================
