-------------------------------- MODULE Ruler --------------------------------
(***************************************************************************)
(* How the extractor finds the actions for an item of data: detection of   *)
(* its mime type (src/extract/detect.cpp, mime.h) and matching against the *)
(* ruleset (src/extract/ruler.cpp, parseData in extractor.cpp).            *)
(*                                                                         *)
(* An item is a record: magic, what libmagic says of it; extension, or     *)
(* None; type, the ScrapeData type; number, whether a plain text is all    *)
(* digits: "no", "int" or "long", when it does not fit an int.             *)
(***************************************************************************)
EXTENDS Integers, Sequences, FiniteSetsExt

CONSTANTS
    None,
    Known,          \* mimeList: known mime types, as a function to their extension
    Category        \* Mime::category, of each known mime type

\* find_if takes the first rule of a type; if its name differs, no other rule of
\* that type is considered.
Match(rules, type, name) ==
    LET of == {i \in DOMAIN rules : rules[i].type = type}
    IN  IF of # {} /\ (type = "unknown" \/ rules[Min(of)].name = name)
        THEN rules[Min(of)].actions ELSE None

\* verifyRules: a ruleset without an unknown rule is refused at start.
VerifyRules(rules) == \E i \in DOMAIN rules : rules[i].type = "unknown"

\* mimeFromBuffer, then mimeFromExtension.  parseMagic leaves a null entry in
\* mimeList for a type it does not know, over which mimeFromExtension then stumbles.
Stumbles(d) == d.magic \notin DOMAIN Known \cup {None} /\ d.extension # None

Detected(d) ==
    LET byExtension == {m \in DOMAIN Known : Known[m] = d.extension}
    IN  CASE d.magic \in DOMAIN Known -> d.magic
          [] d.magic = None /\ d.extension # None /\ byExtension # {} -> CHOOSE m \in byExtension : TRUE
          [] OTHER -> None

\* The rules that parseData tries, in its order; the unknown rule is the one that
\* runRuleActions falls back to.
Tries(rules, d) ==
    LET m == Detected(d)
    IN  << IF m # None THEN Match(rules, "mime", m) ELSE None,
           IF m # None THEN Match(rules, "category", Category[m]) ELSE None,
           IF d.extension # None THEN Match(rules, "extension", d.extension) ELSE None,
           Match(rules, "type", d.type),
           Match(rules, "unknown", None) >>

RuleActions(rules, d) ==
    LET t == Tries(rules, d) IN t[Min({i \in DOMAIN t : t[i] # None})]

\* PlainTextHandler::handle: std::stoi of digits that are no int throws.
HandlerThrows(d) == Detected(d) = "text/plain" /\ d.number = "long"
=============================================================================
