SPECIFICATION Spec
CONSTANT Silence = FALSE
INVARIANTS NoDeadlock OneSessionRace OneSlavemapRace
