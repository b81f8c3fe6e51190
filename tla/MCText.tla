------------------------------- MODULE MCText -------------------------------
(* Texts of tags, nested tags, secrets and look-alikes for Text.tla. *)
EXTENDS Text

Words(alphabet, n) == UNION {[1..k -> alphabet] : k \in 0..n}

(* Attributes within and past AttributeCap, three tags deep, a tag and a   *)
(* secret behind a look-alike or an invisible character, a text past Cap.  *)
MCChosen ==
  {<<"<", "untrusted", " ", "x", ">">>, <<"<", "untrusted", " ", "x", "x", "x", ">", "x">>,
   <<"<", "<", "<", "untrusted", ">", "untrusted", ">", "untrusted", ">">>,
   <<"<", "<", "untrusted", ">", "/", "untrusted", ">", "x">>,
   <<"<", " ", "/", " ", "untrusted", " ", ">">>, <<"<", "/", "/", "untrusted", ">">>,
   <<"<", "untrusted", "x", ">">>, <<"<", "x", "untrusted", ">">>, <<"<", "x", ">">>,
   <<"wide<", "untrusted", ">", "x">>, <<"<", "zero-width", "untrusted", ">">>,
   <<"x", "half", "other half", "x">>, <<"half", "zero-width", "other half">>,
   <<"<", "untrusted", " ", "half", "other half", ">">>,
   <<"x", "x", "x", "x", "x", "x", "x", "x", "x", "half", "other half">>}

MCText == Words({"<", "/", " ", "untrusted", ">"}, 4) \cup Words({"<", "untrusted", ">"}, 6) \cup MCChosen

MCFields(texts, kinds) ==
  {[text |-> t, kind |-> k[1], declared |-> k[2], spelling |-> k[3]] : t \in texts, k \in kinds}

MCArrival ==
  MCFields(MCText, {<<"summary", TRUE, "usual">>, <<"context", TRUE, "usual">>,
                    <<"context", FALSE, "usual">>, <<"payload", TRUE, "odd">>})
    \cup MCFields(MCChosen, {<<"key", TRUE, "odd">>, <<"key", TRUE, "usual">>})

(* The threshold of the default configuration, which the rule just reaches.*)
MCPlain ==
  [trust |-> "untrusted", readable |-> TRUE, known |-> TRUE, limit |-> None, threshold |-> 8]

MCSetting ==
  {MCPlain, [MCPlain EXCEPT !.trust = "trusted"], [MCPlain EXCEPT !.trust = "deleted"],
   [MCPlain EXCEPT !.readable = FALSE], [MCPlain EXCEPT !.limit = 9], [MCPlain EXCEPT !.known = FALSE],
   [MCPlain EXCEPT !.threshold = 9]}
=============================================================================
