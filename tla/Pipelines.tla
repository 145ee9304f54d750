------------------------------ MODULE Pipelines ------------------------------
(***************************************************************************)
(* shell.cpp: tokenize() and parse_pipeline().  A line is the sequence of  *)
(* its words, and so is a text that goes from one program of a pipeline to *)
(* the next, or to a device.                                               *)
(***************************************************************************)
EXTENDS SequencesExt, Integers

CONSTANTS
  MaxTokens,  \* MAX_TOKENS
  MaxStages,  \* JOB_MAX_STAGES
  MaxArgs,    \* JOB_MAX_ARGS, counting the name of the program
  Short,      \* words that do not fit JOB_TOK_MAX, and what is left of them
  NOWHERE     \* no redirection; not a word

Redirections == {"<", ">"}
Operators == Redirections \union {"|", "&"}

ASSUME PipelineAssumption ==
  /\ MaxTokens \in Nat \ {0} /\ MaxStages \in Nat \ {0} /\ MaxArgs \in Nat \ {0}
  /\ NOWHERE \notin Redirections

\* tokenize(): the words after the last that it has room for are not looked at.
Tokens(line) == IF Len(line) > MaxTokens THEN SubSeq(line, 1, MaxTokens) ELSE line

\* strncpy() of JOB_TOK_MAX - 1 characters.
Kept(word) == IF word \in DOMAIN Short THEN Short[word] ELSE word

\* A pipeline_t as the loop over the words leaves it; `after' is the redirection that the
\* next word is the path of.
NoStages ==
  [stages |-> <<<<>>>>, in |-> NOWHERE, out |-> NOWHERE, background |-> FALSE,
   after |-> NOWHERE, refused |-> FALSE]

AddStage(p) ==
  IF Len(p.stages) = MaxStages THEN [p EXCEPT !.refused = TRUE]
  ELSE [p EXCEPT !.stages = Append(@, <<>>)]

AddArg(p, word) ==
  IF Len(Last(p.stages)) = MaxArgs THEN [p EXCEPT !.refused = TRUE]
  ELSE [p EXCEPT !.stages[Len(p.stages)] = Append(@, Kept(word))]

\* The word after a redirection is its path, whatever it is.
ParseWord(p, word) ==
  IF p.refused THEN p
  ELSE CASE p.after = "<" -> [p EXCEPT !.in = Kept(word), !.after = NOWHERE]
         [] p.after = ">" -> [p EXCEPT !.out = Kept(word), !.after = NOWHERE]
         [] p.after = NOWHERE ->
              CASE word = "|" -> AddStage(p)
                [] word \in Redirections -> [p EXCEPT !.after = word]
                [] word = "&" -> [p EXCEPT !.background = TRUE]
                [] OTHER -> AddArg(p, word)

Parse(line) == FoldLeft(ParseWord, NoStages, Tokens(line))

\* dispatch() does nothing with what it has refused, nor with a line like "&".
Accepted(p) == ~p.refused /\ p.after = NOWHERE /\ p.stages[1] # <<>>
=============================================================================
