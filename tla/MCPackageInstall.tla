-------------------------- MODULE MCPackageInstall --------------------------
(* Values of the constants of PackageInstall for TLC. *)
EXTENDS PackageInstall

(* What bin/ and tools/ of the repository hold. *)
InRepository ==
  Packages \cap {<<"nginx", "1.26.3">>, <<"apache", "2.4.67">>, <<"mysql", "10.11.8">>,
                 <<"php", "8.2.31">>, <<"phpmyadmin", "5.2.3">>}

Nginx == {<<"nginx", "1.24.0">>, <<"nginx", "1.26.3">>}

(* A card with another version than the one that is there, one that keeps  *)
(* its versions side by side, one that is not there yet, one reinstalled.  *)
OtherCards ==
  {<<"apache", "2.4.62">>, <<"apache", "2.4.67">>, <<"php", "8.2.31">>, <<"php", "8.3.15">>,
   <<"mysql", "11.4.2">>, <<"phpmyadmin", "5.2.3">>}
=============================================================================
