SPECIFICATION Spec
CONSTANTS
    good = good
    noImsi = noImsi
    noTac = noTac
    badNumber = badNumber
    badLuhn = badLuhn
    tac1 = tac1
    tac2 = tac2
    imsi1 = imsi1
    imsi2 = imsi2
    imsi3 = imsi3
    msisdn1 = msisdn1
    msisdn2 = msisdn2
    Rec = {good, noImsi, noTac, badNumber, badLuhn}
    Id = {tac1, tac2, imsi1, imsi2, imsi3, msisdn1, msisdn2}
    IdOf <- MCIdOf
    Known <- MCKnown
    Malformed <- MCMalformed
    Broken <- MCBroken
    Partitions <- MCPartitions
    BatchMax = 2
    ServiceMax = 2
    MaxConcurrency = 2
    Limit = 2
INVARIANTS
    FailuresBounded
    EveryIdFetched
    AcceptedIsGenuine
    BypassEarned
    RejectedIsUnknown
