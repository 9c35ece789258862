\* Three tests, any of them selected; the first failure ends the run or none does.
SPECIFICATION FairSpec
CONSTANT TestCount = 3
INVARIANTS VerdictExact AlarmFindsChild SuccessHonest
PROPERTIES TestDecided
