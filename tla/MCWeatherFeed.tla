----------------------------- MODULE MCWeatherFeed -----------------------------
(* Instances of WeatherFeed for TLC. *)
EXTENDS WeatherFeed

Warning(id, replaces, text, level, effective, expires) ==
  [id |-> id, replaces |-> replaces, text |-> text, level |-> level, important |-> TRUE,
   effective |-> effective, expires |-> expires]
Warned(now, city, alerts) == [now |-> now, city |-> city, state |-> "ACTIVE", alerts |-> alerts]

ReportTexts == {"rainy", "Shenzhen", "Zhanjiang", "a", "b", "rain"}

Rain  == Warning("a", "", "rain", 2, 0, 2)
Storm == Warning("b", "a", "rain", 1, 1, 3)

(* An alert that takes effect later; the same after the alert it replaces,  *)
(* which expires; the same data lines with another city in BEGIN.           *)
AlertReports ==
  {Warned("rainy", "Shenzhen", <<Storm>>),
   Warned("rainy", "Shenzhen", <<Rain, Storm>>),
   Warned("rainy", "Zhanjiang", <<Storm>>)}

(* One alert that takes effect later.                                        *)
LaterReports ==
  {Warned("rainy", "Shenzhen", <<Warning("a", "", "rain", 1, 1, 3)>>)}

=============================================================================
