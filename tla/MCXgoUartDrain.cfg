SPECIFICATION FairXgoSpec
CONSTANTS
    Width = 6
    LegMotors = 2
    Payloads <- MCPayloads
    NoiseBytes <- MCNoiseBytes
    MaxAnswers = 1
    MaxNoise = 0
PROPERTY DrainEnds
