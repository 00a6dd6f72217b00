----------------------------- MODULE MCWeather ------------------------------
(* WeatherUpdate for TLC, at UTC+5:30: a date that is converted with a carry, *)
(* one in August, one whose local time is on the next day, and one whose     *)
(* minutes come to 60.                                                       *)
EXTENDS WeatherUpdate

NetworkDates == {[month |-> 7, hour |-> 10, minute |-> 40],
                 [month |-> 8, hour |-> 10, minute |-> 40],
                 [month |-> 7, hour |-> 18, minute |-> 40],
                 [month |-> 7, hour |-> 10, minute |-> 30]}

=============================================================================
