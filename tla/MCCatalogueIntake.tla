-------------------------- MODULE MCCatalogueIntake --------------------------
(* Small instances of CatalogueIntake: three restaurants of which the first*)
(* shares its name with the second and its address with the third, and a   *)
(* form that gives the second another name and address, the third another  *)
(* page and the first both.  The first and the third have a menu page.     *)
EXTENDS CatalogueIntake
CONSTANTS r1, r2
Place(name, address, source) ==
  [name |-> name, ward |-> "Shibuya", address |-> address, source |-> source]
Rice == Place("Rice", "1-2", "rice.jp")
RiceCafe == Place("Rice", "3-4", "cafe.jp")
Mochi == Place("Mochi", "1-2", "mochi.jp")
Noodles == [name |-> "Noodles", ward |-> "Taito", address |-> "", source |-> "noodles.jp"]
Restaurants == {Rice, RiceCafe, Mochi, Noodles}
CafeAsMochi == Place("Mochi", "1-2", "cafe.jp")
SomeForms == {CafeAsMochi}
Named == Restaurants \cup SomeForms
AllPages == {"rice.jp", "cafe.jp", "mochi.jp", "noodles.jp", "guide.jp"}
TheWeb == [p \in AllPages |->
  IF p = "guide.jp" THEN Listing(<<"noodles.jp", "mochi.jp", "rice.jp">>)
  ELSE Restaurant(CHOOSE c \in Restaurants : c.source = p, p \in {"rice.jp", "mochi.jp"})]
SomeSearches == {<<"guide.jp", "rice.jp">>, <<"cafe.jp", "mochi.jp">>}
SomeFiles == {<<Rice, RiceCafe>>, <<Mochi>>}
Shibuya == {"Shibuya"}
=============================================================================
