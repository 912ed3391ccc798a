CONSTANTS
    a1 = a1  a2 = a2  a3 = a3
    k1 = k1  k2 = k2  k3 = k3
    stakingAcc = stakingAcc  blackHole = blackHole
    systemAcc = systemAcc  zeroAcc = zeroAcc
    Accounts <- MCAccounts
    Pubkeys = {k1, k2, k3}
    StakingContractAddress = stakingAcc
    BlackHoleAddress = blackHole
    SystemAddress = systemAcc
    ZeroAddress = zeroAcc
    MaxActiveValidatorNum = 3
    Word = 4096
    InitialStakingAmount = 10
    MinimumStakingAmount = 8
    SlashedStakingAmount = 2
    DefaultMinGasPrice = 100
    MinMinGasPrice = 90
    MaxMinGasPrice = 500
    MaxMinGasPriceDeltaRate = 16
    Genesis <- GenesisAll
    GenesisBalance <- BalanceFunded
    Txs <- TxsAll
    Epochs <- EpochsSpaced
    Reliable = {k1, k2, k3}
    Evidences <- NoEvidence
    MaxHeight = 7
    EpochSwitchDelay = 0
SPECIFICATION Spec
CHECK_DEADLOCK FALSE
INVARIANTS NoCrash StoredInfoDecodes StakeBacked
