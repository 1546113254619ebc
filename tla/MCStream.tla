------------------------------ MODULE MCStream ------------------------------
EXTENDS Stream

Text == [kind |-> "text"]
Usage(priced) == [kind |-> "usage", priced |-> priced]
\* A fragment of call k; Opening is one with an id and no text of the arguments yet.
Part(k, opens, closes) ==
  [kind |-> "call", of |-> k, opens |-> opens, closes |-> closes, text |-> TRUE]
Opening(k) == [Part(k, TRUE, FALSE) EXCEPT !.text = FALSE]

\* Of OpenAI's protocol: text with a price; a call in two fragments and one in one, a done
\* frame and counts; text inside a call; a reply the output cap ends in a call, before its
\* arguments and after one; an error in the stream; fragments of two calls in turns, and an
\* id on every fragment.
OpenAIReplies ==
  {<<Text, Text, Usage(TRUE)>>,
   <<Opening(1), Part(1, FALSE, TRUE), Part(2, TRUE, TRUE)>>,
   <<Part(1, TRUE, TRUE), Usage(FALSE), [kind |-> "done"]>>,
   <<Part(1, TRUE, FALSE), Text, Part(1, FALSE, TRUE), Usage(TRUE)>>,
   <<Part(1, TRUE, FALSE), [kind |-> "length"]>>,
   <<Opening(1), [kind |-> "length"]>>,
   <<Part(1, TRUE, TRUE), [kind |-> "length"]>>,
   <<Text, [kind |-> "error"]>>,
   <<Opening(1), Part(2, TRUE, TRUE), Part(1, FALSE, TRUE)>>,
   <<Part(1, TRUE, FALSE), Part(1, TRUE, TRUE)>>}

\* Of Ollama's: a call is one line.
OllamaReplies ==
  {<<Text, Usage(FALSE)>>, <<Part(1, TRUE, TRUE), Usage(FALSE)>>, <<[kind |-> "error"]>>}

MCReplies == [b \in BOOLEAN |-> IF b THEN OllamaReplies ELSE OpenAIReplies]
=============================================================================
