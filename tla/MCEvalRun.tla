------------------------------ MODULE MCEvalRun ------------------------------
(* EvalRun for TLC: the questions of its Golden Sets. *)
EXTENDS EvalRun, TLC

CONSTANTS e1, e2, e3

\* Three Golden Sets over three labels: e1 and e2 are parallel chains of one hadith.  The
\* classes of the first need three questions, those of the second two, unless its first
\* question is held out; a hold-out list may also take a tag away.  The third asks for an
\* answer without a citation (gs-v0-018), and for a citation without a source type.
Asking(b, lang, tags, req, alt, types) ==
  [behavior |-> b, language |-> lang, tags |-> tags, required |-> req,
   alternatives |-> alt, types |-> types]
MCTypeOf == e1 :> "hadith" @@ e2 :> "hadith" @@ e3 :> "quran"
MCIdentityOf == e1 :> e1 @@ e2 :> e1 @@ e3 :> e3
Refusal(lang) == Asking("refuse", lang, {}, {}, {}, {})
MCFixtures ==
  {<<Asking("answer", "id", {}, {e1}, {}, {"hadith"}), Refusal("id"),
     Asking("answer", "en", {"trap"}, {e1, e3}, {}, {"hadith", "quran"})>>,
   <<Refusal("en"), Asking("answer", "en", {}, {e2}, {e3}, {"hadith"}),
     Asking("answer", "id", {"trap"}, {e3}, {}, {"quran"})>>,
   <<Asking("answer", "id", {"trap"}, {}, {}, {"hadith"}), Refusal("id"),
     Asking("answer", "en", {}, {e1}, {}, {})>>}
MCHeldOuts == {{}, {1}, {2, 3}}
MCTags == <<"trap">>
=============================================================================
