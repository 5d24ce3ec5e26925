----------------------------- MODULE PhotoTask -----------------------------
(***************************************************************************)
(* The data of an ID-photo task: the task object of internal/domain, the   *)
(* row internal/infrastructure/repo keeps of it in PostgreSQL, the files   *)
(* under the assets directory, and what the external HivisionIDPhotos      *)
(* service makes of an image.                                              *)
(*                                                                         *)
(* Abstraction.  ProcessedUrls maps a colour to "/assets/<id>/<colour>.jpg" *)
(* and nothing else, so it is the set of colours that have a URL;          *)
(* LayoutUrls has the single key "6inch", so it is a Boolean; BaselineUrl  *)
(* is a Boolean, and the other fields that are only ever copied (Spec,     *)
(* AvailableColors, ErrorMsg, UserID, times) are left out.  A file holds   *)
(* no bytes, only what a reader could tell of it.                          *)
(***************************************************************************)
EXTENDS Naturals

CONSTANTS
  Colors,   \* colour names clients send, as strings
  Lower,    \* strings.ToLower on Colors
  Folded,   \* strings.ToLower after strings.TrimSpace, on Colors
  Baseline, \* the name baseline.png; no colour, whose name c stands for c.jpg
  Layout,   \* the name layout_6inch.jpg; likewise
  None      \* no task id, no colour, no URL

FileNames == Colors \cup {Baseline, Layout}

ASSUME PhotoAssumption ==
  /\ "white" \in Colors
  /\ Lower \in [Colors -> Colors]
  /\ {Baseline, Layout, None} \cap Colors = {}
  /\ Baseline # Layout
  /\ None \notin {Baseline, Layout}

Hexes == {"ffffff", "638cce", "ff0000"}

(* Every name the switch does not list is rendered on white. *)
colorHexOf(c) ==
  IF Folded[c] = "blue" THEN "638cce" ELSE IF Folded[c] = "red" THEN "ff0000" ELSE "ffffff"

(* A file is absent, damaged (truncated and not yet, or never, written in  *)
(* full, or made from such a file), the transparent baseline, or an image  *)
(* on the background of that hex value.                                    *)
Contents == {"none", "damaged", "rgba"} \cup Hexes

(* The algorithm service: /add_background and /generate_layout_photos.     *)
Render(image, hex) == IF image = "damaged" THEN "damaged" ELSE hex
Compose(image)     == image

(* domain.Status, with "none" for a task the repository does not have.     *)
(* "queued" is declared in the source and never assigned.                  *)
Statuses == {"none", "processing", "done", "failed"}

Tasks == [status : Statuses, processed : SUBSET Colors,
          layout : BOOLEAN, baseline : BOOLEAN]

NoTask == [status |-> "none", processed |-> {}, layout |-> FALSE, baseline |-> FALSE]

NewTask == [status |-> "processing", processed |-> {}, layout |-> FALSE, baseline |-> FALSE]

(* What a row of table tasks keeps: there is no column for BaselineUrl,    *)
(* LayoutUrls, Spec or AvailableColors.                                    *)
Row(t) == [t EXCEPT !.layout = FALSE, !.baseline = FALSE]
=============================================================================
