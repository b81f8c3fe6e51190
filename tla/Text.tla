-------------------------------- MODULE Text --------------------------------
(***************************************************************************)
(* One field of an event on its way from the body of a request to the text *)
(* a destination reads: redaction (redaction.py), sanitising (sanitize.py) *)
(* and the byte cap (filtering.py) at ingest, the detector's fence_forgery *)
(* rule (detect.py), and, at each delivery, the redaction of the decoded   *)
(* payload, the fence (fencing.py, models.py, engine.py: _context_for) and *)
(* Discord's own cut (sinks/implementations.py).  Between the two the      *)
(* process may restart with another configuration: the source's trust, the *)
(* sink and the secrets are read again, the stored text is not.            *)
(*                                                                         *)
(* The rendering is the one that keeps a text as it is: Discord, ntfy and  *)
(* http.  What the Slack, HTML and Markdown filters of templating.py make  *)
(* of "<" and of the fence itself is not modelled.                         *)
(*                                                                         *)
(* A text is a sequence of tokens: the characters the code looks for, the  *)
(* keyword of the fence as one, a character of no interest, the two halves *)
(* of a secret.  A limit in bytes is a number of tokens.  Of NFKC the      *)
(* model has the folding of one character, not the composing of two.       *)
(*                                                                         *)
(* A string of the payload is either a value in it or the name of a member *)
(* (kind "key"): both are stored, redacted and fenced, values are scored.  *)
(***************************************************************************)
EXTENDS Integers, Sequences

CONSTANTS
  Arrival,       \* fields that may arrive, as records
  Setting,       \* configurations of the source and the sink, as records
  Cap,           \* filter.max_field_bytes, None for no cap
  AttributeCap,  \* length of the attributes a tag is looked for with (512)
  MaxPasses,     \* _MAX_STRIP_PASSES
  None           \* no cap, nothing stored, nothing delivered

Token == {"<", ">", "/", " ", "untrusted", "x", "wide<", "zero-width", "half", "other half",
          "redacted", "cut", "look<", "look>", "source"}

ASSUME TextAssumption ==
  /\ AttributeCap \in Nat /\ MaxPasses \in Nat \ {0}
  /\ Cap = None \/ Cap \in Nat \ {0}
  /\ \A a \in Arrival : a.text \in Seq(Token)
  /\ \A s \in Setting : (s.limit = None \/ s.limit \in Nat) /\ s.threshold \in 0..10

VARIABLES
  arrival,   \* the field: text, kind, declared by the parser, spelling of secrets
  setting,   \* the configuration in force
  stored,    \* the row, or None, with the setting it was written under
  flagged,   \* the verdict of the detector
  message    \* what the destination last got, or None

vars == <<arrival, setting, stored, flagged, message>>

TypeOK ==
  /\ arrival \in Arrival /\ setting \in Setting
  /\ stored = None \/ (stored.text \in Seq(Token) /\ stored.untrusted \in BOOLEAN)
  /\ flagged \in BOOLEAN
  /\ message = None \/ message \in Seq(Token)

Init ==
  /\ arrival \in Arrival
  /\ setting \in {s \in Setting : s.trust # "deleted"}
  /\ stored = None /\ flagged = FALSE /\ message = None

-----------------------------------------------------------------------------
(* Rewriting. *)

(* What comes of t from each place on when every match is replaced, from   *)
(* the left; length[i] is that of the match at i, 0 for none.              *)
From(t, length, by) ==
  LET from[i \in 1..(Len(t) + 1)] ==
        IF i > Len(t) THEN <<>>
        ELSE IF length[i] > 0 THEN by \o from[i + length[i]] ELSE <<t[i]>> \o from[i + 1]
  IN  from

Replaced(t, length, by) == From(t, length, by)[1]

IsSecret(t, i) == i < Len(t) /\ SubSeq(t, i, i + 1) = <<"half", "other half">>

HasSecret(t) == \E i \in DOMAIN t : IsSecret(t, i)

Secrets(t) == [i \in DOMAIN t |-> IF IsSecret(t, i) THEN 2 ELSE 0]

(* redact_text, redact_bytes and _walk. *)
Redact(t, known) == IF known THEN Replaced(t, Secrets(t), <<"redacted">>) ELSE t

Fold(t) == [i \in DOMAIN t |-> IF t[i] = "wide<" THEN "<" ELSE t[i]]

Invisible(t) == [i \in DOMAIN t |-> IF t[i] = "zero-width" THEN 1 ELSE 0]

(* NFKC, and then the characters that are removed. *)
Sanitize(t) == Replaced(Fold(t), Invisible(t), <<>>)

(* truncate_text, and _truncate with which Discord cuts the whole message. *)
(* The few characters of room the latter leaves below its limit are left out.*)
Truncate(t, limit) ==
  IF limit = None \/ Len(t) <= limit THEN t ELSE Append(SubSeq(t, 1, limit), "cut")

-----------------------------------------------------------------------------
(* The fence. *)

(* Mutant: the keyword may be the beginning of another word. *)
PrefixEndsAnyhow(t, i) ==
  {k \in (i + 1)..Len(t) :
     /\ t[i] = "<" /\ t[k] = "untrusted"
     /\ \A j \in (i + 1)..(k - 1) : t[j] \in {" ", "/"}}

(* _FENCE_PREFIX at i: where its keyword is.  Blanks, at most one slash,   *)
(* and the lookahead.                                                      *)
PrefixEnds(t, i) ==
  {k \in (i + 1)..(Len(t) - 1) :
     /\ t[i] = "<" /\ t[k] = "untrusted" /\ t[k + 1] \in {" ", ">", "/"}
     /\ \A j \in (i + 1)..(k - 1) : t[j] \in {" ", "/"}
     /\ \A j, l \in (i + 1)..(k - 1) : t[j] = "/" /\ t[l] = "/" => j = l}

(* _FENCE_OPEN.search *)
Openings(t) == {i \in DOMAIN t : PrefixEnds(t, i) # {}}

(* _FENCE_TAG at i: up to the first ">", if it is near enough. *)
TagLength(t, i) ==
  LET ends == {m \in DOMAIN t :
                 \E k \in PrefixEnds(t, i) :
                   /\ m > k /\ t[m] = ">" /\ m - k - 1 <= AttributeCap
                   /\ \A j \in (k + 1)..(m - 1) : t[j] # ">"}
  IN  IF ends = {} THEN 0 ELSE (CHOOSE m \in ends : TRUE) - i + 1

Tags(t) == [i \in DOMAIN t |-> TagLength(t, i)]

StripTags(t) == Replaced(t, Tags(t), <<>>)

Neutralise(t) ==
  [i \in DOMAIN t |-> CASE t[i] = "<" -> "look<" [] t[i] = ">" -> "look>" [] OTHER -> t[i]]

(* Mutant: one pass. *)
StripOnce(t) == StripTags(t)

(* The text after each pass of _strip_fence_tags. *)
Passes(t) ==
  LET pass[n \in 0..MaxPasses] == IF n = 0 THEN t ELSE StripTags(pass[n - 1])
  IN  pass

(* _strip_fence_tags: still changing in the last pass, or a tag left open, *)
(* and all brackets go.                                                    *)
StripFenceTags(t) ==
  LET result == Passes(t)[MaxPasses]
  IN  IF result # Passes(t)[MaxPasses - 1] \/ Openings(result) # {} THEN Neutralise(result)
      ELSE result

OpenTag == <<"<", "untrusted", " ", "source", ">">>
CloseTag == <<"<", "/", "untrusted", ">">>

(* The fence stands on lines of its own. *)
Around(t) == OpenTag \o <<" ">> \o t \o <<" ">> \o CloseTag

FenceText(t) == Around(StripFenceTags(Sanitize(t)))

-----------------------------------------------------------------------------
(* Ingest. *)

(* Read off the body with the rest of the payload. *)
InPayload == arrival.kind \in {"payload", "key"}

(* The body as it is stored: the byte pass knows the usual spellings.      *)
SafeBody == IF arrival.spelling = "usual" THEN Redact(arrival.text, setting.known) ELSE arrival.text

(* The field as a filter or the detector reads it, decoded and redacted.   *)
Decoded == Redact(SafeBody, setting.known)

(* The payload is read off the body; the rest has columns of its own.      *)
StoredText ==
  IF InPayload THEN SafeBody
  ELSE Truncate(IF setting.trust = "untrusted" THEN Sanitize(Decoded) ELSE Decoded, Cap)

(* _text_leaves of the payload: the names of its members are none. *)
TextLeaves == IF arrival.kind = "key" THEN <<>> ELSE Decoded

(* Mutant: the detector reads the text as it came. *)
RawUntrustedText == IF InPayload THEN TextLeaves ELSE StoredText

(* What _untrusted_text has of this field.  The other fields around it, and*)
(* the blanks at either end of the whole, are left out.                    *)
UntrustedText == Sanitize(IF InPayload THEN TextLeaves ELSE StoredText)

(* In tenths: fence_forgery is the one rule these tokens can match. *)
ForgeryScore == 8

Score(t) == IF Openings(t) # {} THEN ForgeryScore ELSE 0

(* record_event and _screen, with the heuristic backend. *)
Ingest ==
  /\ stored = None
  /\ LET untrusted == arrival.declared /\ setting.trust = "untrusted"
     IN  /\ stored' = [text |-> StoredText, untrusted |-> untrusted, under |-> setting]
         /\ flagged' = (untrusted /\ Score(UntrustedText) >= setting.threshold)
  /\ UNCHANGED <<arrival, setting, message>>

-----------------------------------------------------------------------------
(* Delivery. *)

(* Mutant: the payload is taken as it was stored. *)
ContextAsStored == stored.text

(* _context_for and template_context: the value under the field's name. *)
ContextValue == IF InPayload THEN Redact(stored.text, setting.known) ELSE stored.text

(* A deleted source counts as untrusted. *)
Fencing == setting.readable /\ setting.trust # "trusted"

Fenced == Fencing /\ (stored.untrusted \/ InPayload \/ arrival.kind = "summary")

(* A delivery or a replay, of a template that is this field. *)
Deliver ==
  /\ stored # None
  /\ message' = Truncate(IF Fenced THEN FenceText(ContextValue) ELSE ContextValue, setting.limit)
  /\ UNCHANGED <<arrival, setting, stored, flagged>>

Restart ==
  /\ setting' \in Setting \ {setting}
  /\ message' = None
  /\ stored # None
  /\ UNCHANGED <<arrival, stored, flagged>>

Next == Ingest \/ Deliver \/ Restart

Spec == Init /\ [][Next]_vars

-----------------------------------------------------------------------------
(* Properties. *)

(* All of a field is inside one fence, whole or up to where the sink cut   *)
(* the message, and nothing in the field opens or closes another.          *)
Enclosed(m) ==
  \E k \in 0..Len(m) :
    LET t == SubSeq(m, Len(OpenTag) + 2, k)
    IN  Openings(t) = {} /\ (m = Around(t) \/ m = Truncate(Around(t), Len(m) - 1))

(* On a sink for machines, the text of a source that is not trusted now is *)
(* in a fence it "cannot escape" (fencing.py:126), on a replay as on the   *)
(* first delivery: the summary and the payload however the source was      *)
(* classified at ingest or whether it still exists, a field of the parser  *)
(* if the source was untrusted then as well.                               *)
FenceHolds ==
  (/\ message # None /\ setting.readable /\ setting.trust # "trusted"
   /\ \/ InPayload \/ arrival.kind = "summary"
      \/ arrival.declared /\ stored.under.trust = "untrusted")
    => Enclosed(message)

(* Every keyword in t goes on as another word, or t ends with it. *)
OtherWords(t) == \A i \in 1..(Len(t) - 1) : t[i] = "untrusted" => t[i + 1] \notin {" ", ">", "/"}

(* Text that is no tag is left alone: without a fence the payload arrives  *)
(* as it came and any other field at most sanitised, and inside a fence a  *)
(* text with "<untrusted-data>" (fencing.py:66) in it is still whole.      *)
OrdinaryTextKept ==
  LET clean == Sanitize(arrival.text)
      kept == IF InPayload THEN {arrival.text} ELSE {arrival.text, clean}
      machine == setting.readable /\ setting.trust # "trusted"
  IN  (/\ message # None /\ setting.limit = None /\ ~HasSecret(arrival.text)
       /\ Cap = None \/ Len(arrival.text) <= Cap)
        => /\ ~machine => message \in kept
           /\ (machine /\ OtherWords(clean)) => message \in kept \cup {Around(clean)}

(* A secret in force both times is in no text that is delivered, whichever *)
(* way it was spelled in the body and whoever is trusted.  Only a whole    *)
(* secret is one: halves that an invisible character or a tag keeps apart  *)
(* until after the redaction are not found.                                *)
SecretsRedacted ==
  (/\ message # None /\ setting.known /\ stored.under.known
   /\ \A i \in DOMAIN arrival.text : arrival.text[i] = "half" => IsSecret(arrival.text, i))
    => ~HasSecret(message)

(* A tag for the fence to remove. *)
Forged == LET clean == Sanitize(ContextValue) IN \E i \in DOMAIN clean : TagLength(clean, i) > 0

(* A delivery whose fence removes a tag from a field that was declared     *)
(* untrusted, under a threshold that the rule alone reached at the ingest. *)
RemovedATag ==
  /\ message # None /\ Fenced /\ stored.untrusted /\ Forged
  /\ stored.under.threshold <= ForgeryScore

(* "An attempt is still recorded after it has been neutralised"            *)
(* (CHANGELOG.md:319): the tag that the fence removes from the summary, a  *)
(* field of the parser or a value in the payload has been flagged at the   *)
(* ingest, before it was redacted once more and however it was spelled.    *)
(* Not so one in the name of a member of the payload, which the fence      *)
(* serialises (fencing.py:142) and the detector does not read              *)
(* (engine.py:848).                                                        *)
ForgeryFlagged == (RemovedATag /\ arrival.kind # "key") => flagged
=============================================================================
