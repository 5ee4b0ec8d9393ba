------------------------------ MODULE MCRules ------------------------------
EXTENDS RulesProps

\* A rule that asks for nothing yet; it is completed below.
Blank == [type |-> "MUTE", disabled |-> FALSE, expires |-> FALSE, asks |-> {},
          met |-> {}, names |-> 0, hits |-> 0, infos |-> 0, infoHits |-> 0,
          dated |-> FALSE, when |-> [hour |-> 1, minute |-> 0], limit |-> 1,
          exception |-> "none", length |-> 1]

\* Rules of the backend's file.
BanByName    == [Blank EXCEPT !.type = "BAN", !.names = 2, !.hits = 1, !.expires = TRUE]
MuteLate     == [Blank EXCEPT !.asks = {"after"}]
MutePlayed   == [Blank EXCEPT !.asks = {"playtime"}]
MuteHost     == [Blank EXCEPT !.asks = {"hostname", "vpn"}, !.met = {"hostname", "vpn"},
                              !.exception = "expiring"]
MuteTwoOfTwo == [Blank EXCEPT !.asks = {"address"}, !.names = 2, !.hits = 2]
StifleInfo   == [Blank EXCEPT !.type = "STIFLE", !.infos = 2, !.infoHits = 2]
StifleHalf   == [StifleInfo EXCEPT !.asks = {"vpn"}]
Excepted     == [StifleInfo EXCEPT !.exception = "lasting"]
Early        == [Blank EXCEPT !.type = "MESSAGE", !.asks = {"before"},
                              !.when.minute = 1, !.when.hour = 0]
BanClient    == [Blank EXCEPT !.type = "BAN", !.asks = {"address", "client"},
                              !.met = {"address"}]

\* Rules of the console's wizard ask for an address and have no length.
WizardMute   == [Blank EXCEPT !.asks = {"address"}, !.met = {"address"}, !.length = 0]
WizardBan    == [Blank EXCEPT !.type = "BAN", !.asks = {"address"}, !.length = 0]
WizardStifle == [WizardMute EXCEPT !.type = "STIFLE"]

Wizard == {WizardMute, WizardBan, WizardStifle}
ModelCatalog == Wizard \cup {BanByName, MuteLate, MutePlayed, MuteHost, MuteTwoOfTwo,
                             StifleInfo, StifleHalf, Early, BanClient}
Files == {{}, {WizardMute}}
Wides == {{BanByName, MutePlayed}, {StifleInfo, MuteLate}, {Early, StifleHalf},
          {MuteTwoOfTwo, BanClient}, {MuteHost}}

NoFile       == {{}}
ExceptedOnly == {Excepted}
OneExcepted  == {{Excepted}}
PlayedOnly   == {MutePlayed}
OnePlayed    == {{MutePlayed}}
ClientOnly   == {BanClient}
OneClient    == {{BanClient}}
=============================================================================
